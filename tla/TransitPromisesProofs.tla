------------------------- MODULE TransitPromisesProofs -------------------------
(***************************************************************************)
(* What the key half of the API acknowledges stays true until someone asks *)
(* for the key again.                                                      *)
(***************************************************************************)
EXTENDS TransitRepliesProofs

-----------------------------------------------------------------------------
(***************************************************************************)
(* The invariant.  An acknowledgement rests on what the handler saw of the *)
(* server one or two calls ago; it is still so because nobody else creates *)
(* or configures the key (Concerns), and because without faults no call is *)
(* left behind that would.                                                 *)
(***************************************************************************)
\* Job j may create or configure key k of namespace n.
Concerns(j, n, k) ==
  j.op \in Creators /\ j.key = k /\ (j.op = "ensureAll" \/ j.ns = n)

\* Only requests to create get to the stages that do.
CreatorOK(j) ==
  /\ j.stage \in {"create", "config", "override"} => j.op \in Creators
  /\ j.stage = "override" => j.allow # "unset"

\* A key is in an engine, and an engine in a namespace.
ServerInv == \A n \in Namespaces, k \in Keys : Present(n, k) => Usable(n)

\* A worker that is alone is.
AloneInv ==
  \A w, u \in Workers :
    alone[w] /\ Busy(w) /\ job[w].op \in {"create", "delete"} /\ u # w /\ Busy(u)
      => ~Concerns(job[u], job[w].ns, job[w].key)

\* Nobody is asking for a key that something is promised of.
QuietInv ==
  \A n \in Namespaces, k \in Keys, u \in Workers :
    promise[n][k] # "none" /\ Busy(u) => ~Concerns(job[u], n, k)

\* What job j of a lone worker, with answer a, may rely on of its key's state x.
\* A call that failed found no key; one that succeeded did as it was asked.
SetOK(j, a, x) ==
  /\ j.op = "create" /\ j.stage \in {"config", "override"} =>
       /\ j.phase = "mounts" =>
            a = Pending \/ (a.st = "ok" /\ "transit" \in a.set) \/ x = Absent
       /\ j.phase = "enable" => x = Absent
       /\ j.phase = "call" => a = Pending \/ x = Absent \/ x.deletable = CallOf(j).arg
  /\ j.op = "delete" /\ j.phase = "call" /\ a.st = "ok" => x = Absent

SetInv ==
  \A w \in Workers :
    alone[w] /\ Busy(w) => SetOK(job[w], ans[w], keys[job[w].ns][job[w].key])

\* What a promise p says of its key's state x.
PromiseOK(p, x) ==
  /\ p = "gone" => x = Absent
  /\ p = "deletable" => x = Absent \/ x.deletable
  /\ p = "protected" => x = Absent \/ ~x.deletable

PromiseInv ==
  /\ \A w \in Workers : CreatorOK(job[w])
  /\ ServerInv
  /\ AloneInv
  /\ QuietInv
  /\ faults = 0 =>
       /\ orphans = {}
       /\ SetInv
       /\ \A n \in Namespaces, k \in Keys : PromiseOK(promise[n][k], keys[n][k])
-----------------------------------------------------------------------------
(***************************************************************************)
(* The stages of a handler.                                                *)
(***************************************************************************)
\* Neither the loop of a sweep nor an outcome leads to a stage that creates.
LEMMA OutcomeCreates ==
  ASSUME NEW j \in Jobs, j.status = "none"
  PROVE  /\ \A i \in Onward(j) : CreatorOK(i)
         /\ \A i \in Succeed(j) \cup Fail(j) : CreatorOK(i)
<1>1. \A k \in Jobs : \A st : CreatorOK(Reply(k, st))
  BY DEF Reply, CreatorOK, Jobs
<1>2. \A k \in Jobs : \A s \in {"ensure", "list"} : CreatorOK(Enter(k, s))
  BY DEF Enter, CreatorOK, Jobs
<1>3. ASSUME NEW k \in Jobs
      PROVE  \A i \in Onward(k) : CreatorOK(i)
  <2>1. CASE k.todo = {}
    BY <1>1, <2>1 DEF Onward
  <2>2. CASE k.todo # {}
    <3> DEFINE m(n) == [k EXCEPT !.ns = n, !.todo = @ \ {n}]
    <3>1. \A n \in k.todo : m(n) \in Jobs
      BY DEF Jobs
    <3>2. \A i \in Onward(k) : \E n \in k.todo : \E s \in {"ensure", "list"} : i = Enter(m(n), s)
      BY <2>2 DEF Onward
    <3> HIDE DEF m
    <3>3. QED
      BY <1>2, <3>1, <3>2
  <2>3. QED
    BY <2>1, <2>2
<1>4. /\ [j EXCEPT !.done = @ \cup {j.ns}] \in Jobs
      /\ [j EXCEPT !.failed = @ \cup {j.ns}] \in Jobs
  BY DEF Jobs
<1>5. \A i \in Succeed(j) \cup Fail(j) : CreatorOK(i)
  BY <1>1, <1>3, <1>4 DEF Succeed, Fail
<1>6. QED
  BY <1>3, <1>5

\* Only a creation goes on to configure its key, to override what it asks for.
LEMMA StageCreates ==
  ASSUME NEW j \in Jobs, j.status = "none", CreatorOK(j)
  PROVE  /\ \A i \in Configured(j) \cup Mounted(j) \cup MountFailed(j) : CreatorOK(i)
         /\ CreatorOK([j EXCEPT !.phase = "enable"])
         /\ j.stage = "create" => CreatorOK(Enter(j, "config"))
         /\ j.op = "ensureAll" => CreatorOK(Enter(j, "create"))
<1>1. /\ \A p : CreatorOK([j EXCEPT !.phase = p])
      /\ CreatorOK(Enter(j, "list"))
      /\ j.stage = "create" => CreatorOK(Enter(j, "config"))
      /\ j.op = "ensureAll" => CreatorOK(Enter(j, "create"))
      /\ j.op = "create" /\ j.allow # "unset" => CreatorOK(Enter(j, "override"))
  BY DEF Enter, CreatorOK, Creators, Jobs
<1>2. \A i \in Configured(j) : CreatorOK(i)
  BY <1>1, OutcomeCreates DEF Configured
<1>3. \A i \in Mounted(j) : CreatorOK(i)
  BY <1>1 DEF Mounted
<1>4. \A i \in MountFailed(j) : CreatorOK(i)
  BY <1>1, <1>2, OutcomeCreates DEF MountFailed
<1>5. QED
  BY <1>1, <1>2, <1>3, <1>4

\* What a handler does with an answer keeps it so.
LEMMA HandleCreates ==
  ASSUME TypeOK, NEW w \in Workers, NEW a, Busy(w), Handle(w, a), CreatorOK(job[w])
  PROVE  CreatorOK(job'[w])
<1> DEFINE j == job[w]
<1>1. j \in Jobs /\ j.status = "none"
  BY DEF TypeOK, Busy
<1>2. /\ \A i \in Succeed(j) \cup Fail(j) \cup Configured(j) \cup Mounted(j)
                  \cup MountFailed(j) : CreatorOK(i)
      /\ CreatorOK([j EXCEPT !.phase = "enable"])
      /\ j.stage = "create" => CreatorOK(Enter(j, "config"))
      /\ j.op = "ensureAll" => CreatorOK(Enter(j, "create"))
  BY <1>1, OutcomeCreates, StageCreates
<1>3. \E next : Continue(w, next) /\ \A i \in next : CreatorOK(i)
  <2>1. CASE MountsAnswered(w, a) \/ EnableAnswered(w, a)
    BY <1>2, <2>1 DEF MountsAnswered, EnableAnswered
  <2>2. CASE CreateAnswered(w, a) \/ ListAnswered(w, a)
    BY <1>2, <2>2 DEF CreateAnswered, ListAnswered
  <2>3. CASE ConfigAnswered(w) \/ OverrideAnswered(w) \/ \E s \in Stages : Settled(w, a, s)
    BY <1>2, <2>3 DEF ConfigAnswered, OverrideAnswered, Settled
  <2>4. CASE NamespacesAnswered(w, a)
    <3> DEFINE names == NamespacesListed(a)
               known == [j EXCEPT !.listed = names, !.todo = names]
    <3>1. /\ known \in Jobs /\ known.status = "none"
          /\ CreatorOK(Reply([known EXCEPT !.todo = {}], "ok"))
          /\ CreatorOK(Reply(j, "gateway"))
      BY <1>1, RootAssumption DEF NamespacesListed, Reply, CreatorOK, Jobs
    <3>2. \A i \in Onward(known) : CreatorOK(i)
      BY <3>1, OutcomeCreates
    <3>3. QED
      BY <2>4, <3>1, <3>2 DEF NamespacesAnswered
  <2>5. QED
    BY <2>1, <2>2, <2>3, <2>4
       DEF Handle, DeleteAnswered, RotateAnswered, InfoAnswered, CreateNamespaceAnswered,
           DeleteNamespaceAnswered, Stages
<1>4. QED
  BY <1>3 DEF Continue, TypeOK

-----------------------------------------------------------------------------
(***************************************************************************)
(* What the server does to a key.                                          *)
(***************************************************************************)
\* Unless a call creates or configures it, a key goes or is as deletable as it was.
StaysSo(x, y) == y = Absent \/ (x # Absent /\ y.deletable = x.deletable)

LEMMA ServeKey ==
  ASSUME BaoTypeOK, NEW c, c.ns \in Namespaces, c.key \in Keys, c.arg \in BOOLEAN,
         NEW ok \in BOOLEAN, Serve(c, ok), NEW n \in Namespaces, NEW k \in Keys
  PROVE  \/ StaysSo(keys[n][k], keys'[n][k])
         \/ c.kind \in {"create", "config"} /\ c.ns = n /\ c.key = k
<1>1. keys[n][k] \in KeyState
  BY DEF BaoTypeOK
<1>2. CASE keys' = keys
  BY <1>2 DEF StaysSo
<1>3. CASE CreateKey(c) \/ ConfigKey(c)
  BY <1>3 DEF CreateKey, ConfigKey, StaysSo, BaoTypeOK
<1>4. CASE DeleteKey(c) \/ DeleteNamespace(c)
  BY <1>4 DEF DeleteKey, DeleteNamespace, StaysSo, BaoTypeOK
<1>5. CASE ok /\ RotateKey(c)
  <2>1. Present(c.ns, c.key)
    BY <1>5 DEF Serve, Verdicts, Accepts, RotateKey
  <2>2. CASE n = c.ns /\ k = c.key
    <3>1. keys'[n][k] = [keys[n][k] EXCEPT !.version = @ + 1]
      BY <1>5, <2>2 DEF RotateKey, BaoTypeOK
    <3>2. keys'[n][k].deletable = keys[n][k].deletable
      BY <1>1, <3>1 DEF KeyState
    <3>3. QED
      BY <2>1, <2>2, <3>2 DEF StaysSo, Present
  <2>3. CASE ~(n = c.ns /\ k = c.key)
    <3>1. keys'[n][k] = keys[n][k]
      BY <1>5, <2>3 DEF RotateKey, BaoTypeOK
    <3>2. QED
      BY <3>1 DEF StaysSo
  <2>4. QED
    BY <2>2, <2>3
<1>6. QED
  BY <1>2, <1>3, <1>4, <1>5
     DEF Serve, Apply, EnableTransit, CreateNamespace, baoVars

\* A key stays in an engine, an engine in a namespace.
LEMMA ServeKeeps ==
  ASSUME BaoTypeOK, ServerInv, NEW c, c.ns \in Namespaces, c.key \in Keys, c.arg \in BOOLEAN,
         NEW ok \in BOOLEAN, Serve(c, ok)
  PROVE  ServerInv'
<1>1. SUFFICES ASSUME NEW n \in Namespaces, NEW k \in Keys, Present(n, k)'
               PROVE  n \in live' /\ n \in mounted'
  BY DEF ServerInv, Usable
<1>2. CASE Present(n, k)
  <2>1. n \in live /\ n \in mounted
    BY <1>2 DEF ServerInv, Usable
  <2>2. CASE DeleteNamespace(c)
    BY <1>1, <2>1, <2>2 DEF DeleteNamespace, BaoTypeOK, Present
  <2>3. CASE ~DeleteNamespace(c)
    BY <2>1, <2>3 DEF Serve, Apply, EnableTransit, CreateKey, ConfigKey, DeleteKey, RotateKey,
       CreateNamespace, baoVars
  <2>4. QED
    BY <2>2, <2>3
<1>3. CASE ~Present(n, k)
  <2>1. ~StaysSo(keys[n][k], keys'[n][k])
    BY <1>1, <1>3 DEF StaysSo, Present
  <2>2. c.kind \in {"create", "config"} /\ c.ns = n /\ c.key = k
    BY <2>1, ServeKey
  <2>3. ok
    BY <1>1, <1>3 DEF Serve, baoVars, Present
  <2>4. Accepts(c)
    BY <2>2, <2>3 DEF Serve, Verdicts
  <2>5. Usable(n)
    BY <1>3, <2>2, <2>4 DEF Accepts
  <2>6. live' = live /\ mounted' = mounted
    BY <2>2, <2>3 DEF Serve, Apply, Reads, EnableTransit, CreateKey, ConfigKey, DeleteKey, RotateKey,
       CreateNamespace, DeleteNamespace
  <2>7. QED
    BY <2>5, <2>6 DEF Usable
<1>4. QED
  BY <1>2, <1>3

\* Whoever makes a call that creates or configures a key, it concerns that key.
LEMMA CallConcerns ==
  ASSUME NEW j \in GoodJobs, j.phase # "idle", CreatorOK(j), StageOK(j),
         CallOf(j).kind \in {"create", "config"}
  PROVE  Concerns(j, CallOf(j).ns, CallOf(j).key)
<1>1. CallOf(j).ns = j.ns /\ CallOf(j).key = j.key /\ j.stage \in {"create", "config", "override"}
  BY DEF CallOf, CallKind, GoodJobs, Jobs
<1>2. QED
  BY <1>1 DEF Concerns, CreatorOK
-----------------------------------------------------------------------------
(***************************************************************************)
(* What a lone worker knows of its key.                                    *)
(***************************************************************************)
\* It stays so while the key stays so, and a promise does.
LEMMA StaysSet ==
  ASSUME NEW x, NEW y, StaysSo(x, y)
  PROVE  /\ \A j, a : SetOK(j, a, x) => SetOK(j, a, y)
         /\ \A p : PromiseOK(p, x) => PromiseOK(p, y)
<1>1. /\ x = Absent => y = Absent
      /\ y # Absent => y.deletable = x.deletable
  BY DEF StaysSo
<1>2. ASSUME NEW j, NEW a, SetOK(j, a, x)
      PROVE  SetOK(j, a, y)
  BY <1>1, <1>2 DEF SetOK
<1>3. ASSUME NEW p, PromiseOK(p, x)
      PROVE  PromiseOK(p, y)
  BY <1>1, <1>3 DEF PromiseOK
<1>4. QED
  BY <1>2, <1>3

\* The server's answers to its own calls say how its key is.
LEMMA ExecSet ==
  ASSUME BaoTypeOK, ServerInv, NEW j \in GoodJobs, j.phase # "idle", StageOK(j),
         NEW ok \in BOOLEAN, Serve(CallOf(j), ok), SetOK(j, Pending, keys[j.ns][j.key])
  PROVE  SetOK(j, AnswerTo(CallOf(j), ok), keys'[j.ns][j.key])
<1> DEFINE c == CallOf(j)
           a == AnswerTo(c, ok)
           x == keys[j.ns][j.key]
           y == keys'[j.ns][j.key]
<1>1. /\ c.ns = j.ns /\ c.key = j.key /\ j.ns \in Namespaces /\ j.key \in Keys /\ c.arg \in BOOLEAN
      /\ c.kind = CallKind(j)
  BY DEF CallOf, GoodJobs, Jobs
<1>2. x \in KeyState
  BY <1>1 DEF BaoTypeOK
<1>3. a.st = "ok" <=> ok
  BY DEF AnswerTo, Refusal
<1>4. StaysSo(x, y) \/ c.kind \in {"create", "config"}
  BY <1>1, ServeKey
<1>5. Verdicts(c) = IF c.kind \in {"createNs", "deleteNs"} THEN {TRUE} \cup {Accepts(c)}
                    ELSE {Accepts(c)}
  BY DEF Verdicts
<1>6. ASSUME j.phase = "mounts", ~(a.st = "ok" /\ "transit" \in a.set)
      PROVE  y = Absent
  <2>1. c.kind = "mounts"
    BY <1>1, <1>6 DEF CallKind
  <2>2. ~(j.ns \in live /\ j.ns \in mounted)
    <3>1. CASE ok
      BY <1>1, <1>3, <1>6, <2>1, <3>1 DEF AnswerTo, Listing
    <3>2. CASE ~ok
      BY <1>1, <1>5, <2>1, <3>2 DEF Serve, Accepts
    <3>3. QED
      BY <3>1, <3>2
  <2>3. x = Absent
    BY <1>1, <2>2 DEF ServerInv, Usable, Present
  <2>4. QED
    BY <1>4, <2>1, <2>3 DEF StaysSo
<1>7. ASSUME j.phase = "enable", x = Absent
      PROVE  y = Absent
  BY <1>1, <1>4, <1>7 DEF CallKind, StaysSo
<1>8. ASSUME j.phase = "call", j.stage \in {"config", "override"}
      PROVE  y = Absent \/ y.deletable = c.arg
  <2>1. c.kind = "config"
    BY <1>1, <1>8 DEF CallKind
  <2>2. ok <=> x # Absent
    BY <1>1, <1>5, <2>1 DEF Serve, Accepts, Present
  <2>3. CASE ok
    <3>1. ConfigKey(c)
      BY <2>1, <2>3 DEF Serve, Apply, Reads, EnableTransit, CreateKey, DeleteKey, RotateKey,
         CreateNamespace, DeleteNamespace
    <3>2. y = [x EXCEPT !.deletable = c.arg]
      BY <1>1, <3>1 DEF ConfigKey, BaoTypeOK
    <3>3. QED
      BY <1>2, <3>2 DEF KeyState
  <2>4. CASE ~ok
    BY <2>2, <2>4 DEF Serve, baoVars
  <2>5. QED
    BY <2>3, <2>4
<1>9. ASSUME j.op = "delete", j.phase = "call", j.stage = "delete", ok
      PROVE  y = Absent
  <2>1. DeleteKey(c)
    BY <1>1, <1>9 DEF Serve, Apply, Reads, EnableTransit, CreateKey, ConfigKey, RotateKey,
       CreateNamespace, DeleteNamespace, CallKind
  <2>2. QED
    BY <1>1, <2>1 DEF DeleteKey, BaoTypeOK
<1>10. j.op = "delete" /\ j.phase = "call" => j.stage = "delete"
  BY DEF StageOK, PlainOps, KeyOps, GoodJobs
<1>11. SetOK(j, Pending, x)
  OBVIOUS
<1> HIDE DEF a, x, y, c
<1>12. SetOK(j, a, y)
  <2>1. j.op = "create" /\ j.stage \in {"config", "override"} /\ j.phase = "enable" => y = Absent
    BY <1>7, <1>11 DEF SetOK
  <2>2. j.phase = "call" /\ j.stage \in {"config", "override"} => y = Absent \/ y.deletable = CallOf(j).arg
    BY <1>8 DEF c
  <2>3. QED
    BY <1>3, <1>6, <1>9, <1>10, <2>1, <2>2 DEF SetOK
<1>13. QED
  BY <1>12 DEF a, y, c
\* A handler goes on knowing what it needs, and acknowledges what is so.
LEMMA MovesSet ==
  ASSUME NEW j \in GoodJobs, NEW i \in Jobs, NEW a, NEW x, j.phase # "idle", a # Pending,
         StageOK(j), CreatorOK(j), i.op = j.op, j.op \in PlainOps => Moves(j, a, i),
         SetOK(j, a, x)
  PROVE  /\ SetOK(i, Pending, x)
         /\ i.phase = "idle" /\ i.status = "ok" /\ i.op \in {"create", "delete"}
              => PromiseOK(PromiseOf(i), x)
<1>1. SUFFICES ASSUME j.op \in {"create", "delete"}
               PROVE  /\ SetOK(i, Pending, x)
                      /\ i.phase = "idle" /\ i.status = "ok" => PromiseOK(PromiseOf(i), x)
  BY DEF SetOK
<1>2. /\ Moves(j, a, i) /\ i.allow = j.allow
      /\ j.phase \in {"mounts", "enable", "call"} /\ j.stage # "idle" /\ j.status = "none"
      /\ j.stage = j.op \/ (j.op = "create" /\ j.stage \in {"config", "override"})
      /\ j.allow \in {"unset", "true", "false"} /\ Pending.st # "ok"
  BY <1>1 DEF PlainOps, KeyOps, Moves, GoodJobs, Jobs, StageOK, Pending
<1>3. CASE j.stage \in {"config", "override"}
  <2>1. j.op = "create" /\ i.op = "create" /\ (j.stage = "override" => j.allow # "unset")
    BY <1>1, <1>2, <1>3 DEF CreatorOK
  <2>2. \/ i.stage = j.stage /\ i.phase = "enable" /\ i.status = "none"
           /\ j.phase = "mounts" /\ ~(a.st = "ok" /\ "transit" \in a.set)
        \/ i.stage \in {"config", "override"} /\ i.phase \in {"call", "mounts"} /\ i.status = "none"
           /\ (i.phase = "mounts" => i.stage = "override")
        \/ i.stage = "idle" /\ i.phase = "idle" /\ i.status = "ok"
           /\ (j.stage = "config" => j.allow = "unset")
           /\ (j.phase # "call" => a.st # "ok")
    BY <1>2, <1>3, <2>1 DEF Moves, AfterConfig, At, Replied
  <2>3. SetOK(i, Pending, x)
    BY <1>3, <2>1, <2>2 DEF SetOK
  <2>4. ASSUME i.phase = "idle", i.status = "ok"
        PROVE  x = Absent \/ x.deletable = CallOf(j).arg
    BY <1>2, <1>3, <2>1, <2>2, <2>4 DEF SetOK
  <2>5. ASSUME i.phase = "idle", i.status = "ok"
        PROVE  /\ j.stage = "config" => CallOf(j).arg = TRUE /\ PromiseOf(i) = "deletable"
               /\ j.stage = "override" /\ j.allow = "true" =>
                    CallOf(j).arg = TRUE /\ PromiseOf(i) = "deletable"
               /\ j.stage = "override" /\ j.allow = "false" =>
                    CallOf(j).arg = FALSE /\ PromiseOf(i) = "protected"
    <3>1. CallOf(j).arg = (j.stage = "config" \/ j.allow = "true")
      BY DEF CallOf
    <3>2. j.stage = "config" => j.allow = "unset"
      BY <2>2, <2>5
    <3>3. PromiseOf(i) = IF j.allow = "false" THEN "protected" ELSE "deletable"
      BY <1>2, <2>1 DEF PromiseOf
    <3>4. QED
      BY <1>3, <3>1, <3>2, <3>3
  <2>6. i.phase = "idle" /\ i.status = "ok" => PromiseOK(PromiseOf(i), x)
    BY <1>2, <1>3, <2>1, <2>4, <2>5 DEF PromiseOK
  <2>7. QED
    BY <2>3, <2>6
<1>4. CASE j.stage \notin {"config", "override"}
  <2>1. j.stage = j.op
    BY <1>2, <1>4
  <2>2. CASE j.op = "create"
    <3>1. i.status # "ok" /\ (i.stage \in {"config", "override"} => i.phase = "mounts")
      BY <1>2, <1>4, <2>1, <2>2 DEF Moves, At, Replied
    <3>2. QED
      BY <2>2, <3>1 DEF SetOK
  <2>3. CASE j.op = "delete"
    <3>1. SetOK(i, Pending, x)
      BY <1>2, <2>3 DEF SetOK
    <3>2. i.status = "ok" => j.phase = "call" /\ a.st = "ok"
      BY <1>2, <1>4, <2>1, <2>3 DEF Moves, At, Replied
    <3>3. i.status = "ok" => x = Absent
      BY <2>3, <3>2 DEF SetOK
    <3>4. QED
      BY <3>1, <3>3 DEF PromiseOK
  <2>4. QED
    BY <1>1, <2>2, <2>3
<1>5. QED
  BY <1>3, <1>4

-----------------------------------------------------------------------------
(***************************************************************************)
(* Every step keeps the invariant.                                         *)
(***************************************************************************)
\* A request concerns the same key to its end.
LEMMA ConcernsKept ==
  ASSUME NEW i, NEW j, Same(i, j)
  PROVE  \A n, k : Concerns(i, n, k) <=> Concerns(j, n, k)
BY DEF Same, Concerns, Swept, Sweeps, Creators

\* A worker that handles an answer leaves the others as alone as they were, and
\* what it acknowledges nobody else is asking for.
LEMMA HandleQuiet ==
  ASSUME TypeOK, StageInv, AloneInv, QuietInv, NEW w \in Workers, NEW a \in Answers, Handle(w, a)
  PROVE  AloneInv' /\ QuietInv'
<1>1. /\ Busy(w) /\ Same(job'[w], job[w]) /\ StepsTo(w, job'[w]) /\ alone' = alone
      /\ \A u \in Workers \ {w} : job'[u] = job[u]
  BY HandleForm
<1>2. \A u \in Workers :
        /\ Busy(u)' => Busy(u)
        /\ \A n, k : Concerns(job'[u], n, k) <=> Concerns(job[u], n, k)
        /\ job'[u].op \in {"create", "delete"} =>
             job'[u].op = job[u].op /\ job'[u].ns = job[u].ns /\ job'[u].key = job[u].key
  <2>1. \A n, k : Concerns(job'[w], n, k) <=> Concerns(job[w], n, k)
    BY <1>1, ConcernsKept
  <2>2. QED
    BY <1>1, <2>1 DEF Busy, Same, Swept, Sweeps
<1>3. AloneInv'
  BY <1>1, <1>2 DEF AloneInv
<1>4. QuietInv'
  <2>1. SUFFICES ASSUME NEW n \in Namespaces, NEW k \in Keys, NEW u \in Workers,
                        promise'[n][k] # "none", Busy(u)'
                 PROVE  ~Concerns(job[u], n, k)
    BY <1>2 DEF QuietInv
  <2>2. CASE promise'[n][k] = promise[n][k]
    BY <1>2, <2>1, <2>2 DEF QuietInv
  <2>3. CASE promise'[n][k] # promise[n][k]
    <3>1. Acknowledges(w, job'[w]) /\ n = job'[w].ns /\ k = job'[w].key
      BY <1>1, <2>3 DEF StepsTo, TypeOK
    <3>2. /\ u # w /\ alone[w] /\ job[w].op \in {"create", "delete"}
          /\ n = job[w].ns /\ k = job[w].key
      BY <1>2, <2>1, <3>1 DEF Acknowledges, Busy
    <3>3. QED
      BY <1>1, <1>2, <2>1, <3>2 DEF AloneInv
  <2>4. QED
    BY <2>2, <2>3
<1>5. QED
  BY <1>3, <1>4

\* And what it acknowledges without faults is so.
LEMMA HandleSet ==
  ASSUME TypeOK, TypeOK', StageInv, PromiseInv, faults = 0, NEW w \in Workers, ans[w] # Pending,
         Handle(w, ans[w])
  PROVE  /\ SetInv'
         /\ \A n \in Namespaces, k \in Keys : PromiseOK(promise'[n][k], keys'[n][k])
<1> DEFINE j == job[w]
           i == job'[w]
           x == keys[j.ns][j.key]
<1>1. ans[w] \in Answers
  BY DEF TypeOK
<1>2. /\ Busy(w) /\ Same(i, j) /\ StepsTo(w, i) /\ alone' = alone /\ keys' = keys
      /\ j.op \in PlainOps => Moves(j, ans[w], i)
      /\ ans'[w] = Pending
      /\ \A u \in Workers \ {w} : job'[u] = job[u] /\ ans'[u] = ans[u]
  BY <1>1, HandleForm DEF baoVars
<1>3. /\ j \in GoodJobs /\ i \in Jobs /\ j.phase # "idle" /\ StageOK(j) /\ CreatorOK(j) /\ i.op = j.op
      /\ j.op \in {"create", "delete"} => i.ns = j.ns /\ i.key = j.key
  BY <1>2 DEF TypeOK, GoodJobs, Busy, StageInv, PromiseInv, Same, Swept, Sweeps
<1>4. alone[w] => SetOK(j, ans[w], x)
  BY <1>2 DEF PromiseInv, SetInv
<1>5. ASSUME alone[w]
      PROVE  /\ SetOK(i, Pending, x)
             /\ i.phase = "idle" /\ i.status = "ok" /\ i.op \in {"create", "delete"}
                  => PromiseOK(PromiseOf(i), x)
  BY <1>2, <1>3, <1>4, <1>5, MovesSet
<1>6. SetInv'
  <2>1. SUFFICES ASSUME NEW u \in Workers, alone'[u], Busy(u)'
                 PROVE  SetOK(job'[u], ans'[u], keys'[job'[u].ns][job'[u].key])
    BY DEF SetInv
  <2>2. CASE u = w
    <3>1. CASE i.op \in {"create", "delete"}
      BY <1>2, <1>3, <1>5, <2>1, <2>2, <3>1
    <3>2. CASE i.op \notin {"create", "delete"}
      BY <2>2, <3>2 DEF SetOK
    <3>3. QED
      BY <3>1, <3>2
  <2>3. CASE u # w
    BY <1>2, <2>1, <2>3 DEF PromiseInv, SetInv, Busy
  <2>4. QED
    BY <2>2, <2>3
<1>7. ASSUME NEW n \in Namespaces, NEW k \in Keys
      PROVE  PromiseOK(promise'[n][k], keys[n][k])
  <2>1. PromiseOK(promise[n][k], keys[n][k])
    BY DEF PromiseInv
  <2>2. CASE promise'[n][k] = promise[n][k]
    BY <2>1, <2>2
  <2>3. CASE promise'[n][k] # promise[n][k]
    <3>1. Acknowledges(w, i) /\ n = i.ns /\ k = i.key /\ promise'[n][k] = PromiseOf(i)
      BY <1>2, <2>3 DEF StepsTo, TypeOK
    <3>2. /\ alone[w] /\ n = j.ns /\ k = j.key
          /\ i.phase = "idle" /\ i.status = "ok" /\ i.op \in {"create", "delete"}
      BY <1>3, <3>1 DEF Acknowledges
    <3>3. QED
      BY <1>5, <3>1, <3>2
  <2>4. QED
    BY <2>2, <2>3
<1>8. QED
  BY <1>2, <1>6, <1>7
\* A request that begins is alone only if it is, and takes back the promises it
\* puts in question.
LEMMA BeginPromise ==
  ASSUME TypeOK, StageInv, PromiseInv, NEW w \in Workers, NEW op \in AllOps, NEW n \in Namespaces,
         NEW k \in Keys, NEW allow \in {"unset", "true", "false"},
         Begin(w, op, n, k, allow)
  PROVE  PromiseInv'
<1> DEFINE j == Enter([Idle EXCEPT !.op = op, !.ns = n, !.key = k, !.allow = allow],
                      FirstStage(op))
<1>1. /\ job'[w].op = op /\ job'[w].ns = n /\ job'[w].key = k
      /\ job'[w].stage = FirstStage(op)
      /\ \A u \in Workers \ {w} : job'[u] = job[u]
      /\ ~Busy(w) /\ ans[w] = Pending /\ ans' = ans /\ orphans' = orphans /\ faults' = faults
      /\ live' = live /\ mounted' = mounted /\ keys' = keys
  BY BeginForm DEF baoVars
<1>2. j = job'[w]
  BY DEF Begin, TypeOK
<1> HIDE DEF j
<1>3. /\ alone' = [v \in Workers |->
              IF v = w THEN \A u \in Workers \ {w} : Busy(u) => ~Disturbs(job[u], j)
                       ELSE alone[v] /\ (Busy(v) => ~Disturbs(j, job[v]))]
      /\ promise' = [m \in Namespaces |-> [q \in Keys |->
                          IF q = k /\ (op = "ensureAll" \/ (op = "create" /\ m = n))
                            THEN "none" ELSE promise[m][q]]]
  BY DEF Begin, j
<1>4. \A i, m : i.op \in {"create", "delete"} => (Disturbs(m, i) <=> Concerns(m, i.ns, i.key))
  BY DEF Disturbs, Concerns, Creators
<1>5. /\ alone'[w] => \A u \in Workers \ {w} : Busy(u) => ~Disturbs(job[u], job'[w])
      /\ \A v \in Workers \ {w} : alone'[v] => alone[v] /\ (Busy(v) => ~Disturbs(job'[w], job[v]))
  BY <1>2, <1>3
<1>6. \A u \in Workers : CreatorOK(job'[u])
  <2>1. CreatorOK(job'[w])
    BY <1>1 DEF CreatorOK, FirstStage, Creators, AllOps, KeyOps, NsOps, Sweeps
  <2>2. QED
    BY <1>1, <2>1 DEF PromiseInv
<1>7. ServerInv'
  BY <1>1 DEF PromiseInv, ServerInv, Present, Usable
<1>8. AloneInv'
  <2>1. SUFFICES ASSUME NEW v \in Workers, NEW u \in Workers, alone'[v], Busy(v)',
                        job'[v].op \in {"create", "delete"}, u # v, Busy(u)'
                 PROVE  ~Concerns(job'[u], job'[v].ns, job'[v].key)
    BY DEF AloneInv
  <2>2. CASE v = w
    BY <1>1, <1>4, <1>5, <2>1, <2>2 DEF Busy
  <2>3. CASE v # w /\ u = w
    BY <1>1, <1>4, <1>5, <2>1, <2>3 DEF Busy
  <2>4. CASE v # w /\ u # w
    BY <1>1, <1>5, <2>1, <2>4 DEF PromiseInv, AloneInv, Busy
  <2>5. QED
    BY <2>2, <2>3, <2>4
<1>9. \A m \in Namespaces, q \in Keys :
        /\ promise'[m][q] # "none" => ~Concerns(job'[w], m, q)
        /\ promise'[m][q] \in {"none", promise[m][q]}
  BY <1>1, <1>3 DEF Concerns, Creators
<1>10. QuietInv'
  BY <1>1, <1>9 DEF PromiseInv, QuietInv, Busy
<1>11. faults = 0 => SetInv'
  <2>1. \A x : SetOK(job'[w], Pending, x)
    BY <1>1 DEF SetOK, FirstStage, Sweeps, Pending
  <2>2. QED
    BY <1>1, <1>5, <2>1 DEF PromiseInv, SetInv, Busy
<1>12. faults = 0 => \A m \in Namespaces, q \in Keys : PromiseOK(promise'[m][q], keys[m][q])
  <2>1. \A x : PromiseOK("none", x)
    BY DEF PromiseOK
  <2>2. QED
    BY <1>9, <2>1 DEF PromiseInv
<1>13. QED
  BY <1>1, <1>6, <1>7, <1>8, <1>10, <1>11, <1>12 DEF PromiseInv

\* What a worker's call does to the keys, without faults, breaks no promise and
\* no lone worker's knowledge.
LEMMA ExecPromise ==
  ASSUME TypeOK, StageInv, PromiseInv, NEW w \in Workers, Exec(w)
  PROVE  PromiseInv'
<1> DEFINE c == CallOf(job[w])
<1>1. PICK ok \in BOOLEAN : /\ Serve(c, ok)
                            /\ ans' = [ans EXCEPT ![w] = AnswerTo(c, ok)]
  BY DEF Exec
<1>2. /\ job' = job /\ orphans' = orphans /\ faults' = faults /\ alone' = alone
      /\ promise' = promise /\ Busy(w) /\ ans[w] = Pending
  BY DEF Exec
<1>3. /\ c.ns \in Namespaces /\ c.key \in Keys /\ c.arg \in BOOLEAN /\ BaoTypeOK
      /\ job[w] \in GoodJobs /\ job[w].phase # "idle" /\ CreatorOK(job[w]) /\ StageOK(job[w])
  BY <1>2, CallType DEF TypeOK, GoodJobs, Busy, PromiseInv, StageInv
<1>4. ServerInv'
  BY <1>1, <1>3, ServeKeeps DEF PromiseInv
<1>5. \A n \in Namespaces, k \in Keys :
        StaysSo(keys[n][k], keys'[n][k]) \/ Concerns(job[w], n, k)
  BY <1>1, <1>3, ServeKey, CallConcerns
<1>6. ASSUME faults = 0
      PROVE  SetInv'
  <2>1. SUFFICES ASSUME NEW u \in Workers, alone[u], Busy(u)
                 PROVE  SetOK(job[u], ans'[u], keys'[job[u].ns][job[u].key])
    BY <1>2 DEF SetInv, Busy
  <2>2. SetOK(job[u], ans[u], keys[job[u].ns][job[u].key])
    BY <1>6, <2>1 DEF PromiseInv, SetInv
  <2>3. CASE u = w
    <3>1. ans'[w] = AnswerTo(c, ok)
      BY <1>1 DEF TypeOK
    <3>2. ServerInv
      BY DEF PromiseInv
    <3>3. SetOK(job[w], AnswerTo(CallOf(job[w]), ok), keys'[job[w].ns][job[w].key])
      BY <1>1, <1>2, <1>3, <2>2, <2>3, <3>2, ExecSet
    <3>4. QED
      BY <2>3, <3>1, <3>3
  <2>4. CASE u # w
    <3>1. ans'[u] = ans[u] /\ job[u].ns \in Namespaces /\ job[u].key \in Keys
      BY <1>1, <2>4 DEF TypeOK, Jobs
    <3>2. CASE job[u].op \in {"create", "delete"}
      <4>1. ~Concerns(job[w], job[u].ns, job[u].key)
        BY <1>2, <2>1, <2>4, <3>2 DEF PromiseInv, AloneInv
      <4>2. StaysSo(keys[job[u].ns][job[u].key], keys'[job[u].ns][job[u].key])
        BY <1>5, <3>1, <4>1
      <4>3. QED
        BY <2>2, <3>1, <4>2, StaysSet
    <3>3. CASE job[u].op \notin {"create", "delete"}
      BY <3>3 DEF SetOK
    <3>4. QED
      BY <3>2, <3>3
  <2>5. QED
    BY <2>3, <2>4
<1>7. ASSUME faults = 0, NEW n \in Namespaces, NEW k \in Keys
      PROVE  PromiseOK(promise[n][k], keys'[n][k])
  <2>1. PromiseOK(promise[n][k], keys[n][k])
    BY <1>7 DEF PromiseInv
  <2>2. CASE Concerns(job[w], n, k)
    <3>1. promise[n][k] = "none"
      BY <1>2, <2>2 DEF PromiseInv, QuietInv
    <3>2. QED
      BY <3>1 DEF PromiseOK
  <2>3. CASE StaysSo(keys[n][k], keys'[n][k])
    BY <2>1, <2>3, StaysSet
  <2>4. QED
    BY <1>5, <2>2, <2>3
<1>8. AloneInv' /\ QuietInv'
  BY <1>2 DEF PromiseInv, AloneInv, QuietInv, Busy
<1>9. QED
  BY <1>2, <1>4, <1>6, <1>7, <1>8 DEF PromiseInv

\* After a fault only the shape of the requests and of the server matters.
LEMMA FaultPromise ==
  ASSUME TypeOK, TypeOK', PromiseInv, faults' = faults + 1, AloneInv', QuietInv',
         UNCHANGED baoVars, \A w \in Workers : CreatorOK(job'[w])
  PROVE  PromiseInv'
<1>1. faults' # 0
  BY BoundAssumption DEF TypeOK
<1>2. ServerInv'
  BY DEF PromiseInv, ServerInv, Present, Usable, baoVars
<1>3. QED
  BY <1>1, <1>2 DEF PromiseInv

\* One step of the server, a handler or a fault keeps every promise.
LEMMA PromiseStep ==
  ASSUME TypeOK, TypeOK', StageInv, PromiseInv, [Next]_vars
  PROVE  PromiseInv'
<1>1. ASSUME NEW w \in Workers, NEW a \in Answers, Handle(w, a)
      PROVE  /\ AloneInv' /\ QuietInv' /\ UNCHANGED baoVars
             /\ \A u \in Workers : CreatorOK(job'[u])
  <2>1. AloneInv' /\ QuietInv'
    BY <1>1, HandleQuiet DEF PromiseInv
  <2>2. Busy(w) /\ UNCHANGED baoVars /\ \A u \in Workers \ {w} : job'[u] = job[u]
    BY <1>1, HandleForm
  <2>3. CreatorOK(job'[w])
    BY <1>1, <2>2, HandleCreates DEF PromiseInv
  <2>4. QED
    BY <2>1, <2>2, <2>3 DEF PromiseInv
<1>2. ASSUME NEW w \in Workers,
             \/ NamespacesCollection(w) \/ NamespaceItem(w) \/ KeysCollection(w)
             \/ KeysItem(w) \/ EnsureAllNamespaces(w) \/ CliOperation(w)
      PROVE  PromiseInv'
  BY <1>2, RequestBegins, BeginPromise
<1>3. ASSUME NEW w \in Workers, NEW op \in Ops, Reject(w, op)
      PROVE  PromiseInv'
  <2> DEFINE j == [Idle EXCEPT !.op = op, !.status = "rejected"]
  <2>1. CreatorOK(j) /\ j.phase = "idle"
    BY DEF Idle, CreatorOK
  <2>2. /\ job'[w] = j /\ \A u \in Workers \ {w} : job'[u] = job[u]
        /\ ans' = ans /\ orphans' = orphans /\ faults' = faults /\ alone' = alone
        /\ promise' = promise /\ live' = live /\ mounted' = mounted /\ keys' = keys
    BY <1>3 DEF Reject, TypeOK, baoVars
  <2> HIDE DEF j
  <2>3. ~Busy(w)' /\ \A u \in Workers \ {w} : Busy(u)' <=> Busy(u)
    BY <2>1, <2>2 DEF Busy
  <2>4. AloneInv'
    BY <2>2, <2>3 DEF PromiseInv, AloneInv
  <2>5. QuietInv'
    BY <2>2, <2>3 DEF PromiseInv, QuietInv
  <2>6. faults = 0 => SetInv'
    BY <2>2, <2>3 DEF PromiseInv, SetInv
  <2>7. ServerInv' /\ \A u \in Workers : CreatorOK(job'[u])
    BY <2>1, <2>2 DEF PromiseInv, ServerInv, Present, Usable
  <2>8. QED
    BY <2>2, <2>4, <2>5, <2>6, <2>7 DEF PromiseInv
<1>4. ASSUME NEW w \in Workers, Exec(w)
      PROVE  PromiseInv'
  BY <1>4, ExecPromise
<1>5. ASSUME NEW w \in Workers, Recv(w)
      PROVE  PromiseInv'
  <2>1. /\ ans[w] \in Answers /\ ans[w] # Pending /\ Handle(w, ans[w])
        /\ orphans' = orphans /\ faults' = faults
    BY <1>5 DEF Recv, TypeOK
  <2>2. /\ AloneInv' /\ QuietInv' /\ UNCHANGED baoVars
        /\ \A u \in Workers : CreatorOK(job'[u])
    BY <1>1, <2>1
  <2>3. ServerInv'
    BY <2>2 DEF PromiseInv, ServerInv, Present, Usable, baoVars
  <2>4. faults = 0 => /\ SetInv'
                      /\ \A n \in Namespaces, k \in Keys : PromiseOK(promise'[n][k], keys'[n][k])
    BY <2>1, HandleSet
  <2>5. QED
    BY <2>1, <2>2, <2>3, <2>4 DEF PromiseInv
<1>6. ASSUME NEW w \in Workers, Timeout(w) \/ Garble(w)
      PROVE  PromiseInv'
  <2>1. faults' = faults + 1 /\ \E a \in Answers : Handle(w, a)
    BY <1>6 DEF Timeout, Garble, Fault, Answers
  <2>2. QED
    BY <1>1, <2>1, FaultPromise
<1>7. ASSUME NEW w \in Workers, Retry(w) \/ Crash(w)
      PROVE  PromiseInv'
  <2>1. /\ job'[w] \in {job[w], Idle} /\ faults' = faults + 1
        /\ alone' = alone /\ promise' = promise /\ UNCHANGED baoVars
        /\ \A u \in Workers \ {w} : job'[u] = job[u]
    BY <1>7 DEF Retry, Crash, Fault, history, TypeOK
  <2>2. CreatorOK(Idle) /\ Idle.phase = "idle"
    BY DEF Idle, CreatorOK
  <2>3. \A u \in Workers : Busy(u)' => Busy(u) /\ job'[u] = job[u]
    BY <2>1, <2>2 DEF Busy
  <2>4. AloneInv' /\ QuietInv'
    BY <2>1, <2>3 DEF PromiseInv, AloneInv, QuietInv
  <2>5. \A u \in Workers : CreatorOK(job'[u])
    BY <2>1, <2>2 DEF PromiseInv
  <2>6. QED
    BY <2>1, <2>4, <2>5, FaultPromise
<1>8. ASSUME NEW c \in orphans, ExecOrphan(c)
      PROVE  PromiseInv'
  <2>1. /\ job' = job /\ faults' = faults /\ alone' = alone /\ promise' = promise
        /\ \E ok \in BOOLEAN : Serve(c, ok)
    BY <1>8 DEF ExecOrphan
  <2>2. c.ns \in Namespaces /\ c.key \in Keys /\ c.arg \in BOOLEAN /\ BaoTypeOK
    BY DEF TypeOK, Calls
  <2>3. ServerInv'
    BY <2>1, <2>2, ServeKeeps DEF PromiseInv
  <2>4. AloneInv' /\ QuietInv' /\ \A u \in Workers : CreatorOK(job'[u])
    BY <2>1 DEF PromiseInv, AloneInv, QuietInv, Busy
  <2>5. faults # 0
    BY DEF PromiseInv
  <2>6. QED
    BY <2>1, <2>3, <2>4, <2>5 DEF PromiseInv
<1>9. CASE UNCHANGED vars
  BY <1>9 DEF vars, baoVars, history, PromiseInv, ServerInv, AloneInv, QuietInv, SetInv, Present,
     Usable, Busy
<1>10. QED
  BY <1>2, <1>3, <1>4, <1>5, <1>6, <1>7, <1>8, <1>9 DEF Next

\* What the API acknowledges stays true until someone asks for the key again,
\* for any number of workers, names and requests: a created key has the policy
\* asked for, a deleted key is gone, whatever else is asked for meanwhile, up
\* to the first call that is lost.
THEOREM AcknowledgementsHold == Spec => []AcknowledgedHolds
<1>1. Init => PromiseInv
  <2>1. ASSUME Init
        PROVE  /\ \A w \in Workers : CreatorOK(job[w]) /\ ~Busy(w) /\ ~alone[w]
               /\ \A n \in Namespaces, k \in Keys : keys[n][k] = Absent /\ promise[n][k] = "none"
               /\ orphans = {}
    BY <2>1 DEF Init, BaoInit, Idle, CreatorOK, Busy
  <2>2. QED
    BY <2>1 DEF PromiseInv, ServerInv, AloneInv, QuietInv, SetInv, PromiseOK, Present
<1>2. TypeOK /\ TypeOK' /\ StageInv /\ PromiseInv /\ [Next]_vars => PromiseInv'
  BY PromiseStep
<1>3. PromiseInv => AcknowledgedHolds
  BY DEF PromiseInv, PromiseOK, AcknowledgedHolds, Present
<1>4. QED
  BY <1>1, <1>2, <1>3, TypeCorrect, StageHolds, PTL DEF Spec
=============================================================================
