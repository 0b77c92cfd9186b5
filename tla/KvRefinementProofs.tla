-------------------------- MODULE KvRefinementProofs --------------------------
(***************************************************************************)
(* KvSecrets implements SecretStore, for any number of workers, values,    *)
(* requests and faults, as long as namespaces and secret names have one    *)
(* segment each.  With a slash in a name it does not: run wrong_secret.    *)
(***************************************************************************)
EXTENDS KvSecretsProofs

SingleSegments ==
  /\ \A n \in Namespaces : Len(n) <= 1
  /\ \A name \in SecretNames : Len(name) = 1

-----------------------------------------------------------------------------
(***************************************************************************)
(* Paths.  When nothing has a slash, a path that an item handler accepts   *)
(* names the slot its client means.                                        *)
(***************************************************************************)
\* One part is too few, two parts are what they are.
LEMMA FewParts ==
  ASSUME NEW q
  PROVE  /\ Len(q) = 1 => ItemTarget(q) = NoTarget
         /\ Len(q) = 2 => ItemTarget(q) = [ns |-> IF q[1] = "" THEN Root ELSE <<q[1]>>,
                                           name |-> <<q[2]>>]
<1>1. 1 < 2 /\ ~(2 < 2)
  OBVIOUS
<1> DEFINE n == Len(q)
<1>2. ItemTarget(q) = IF n < 2 THEN NoTarget
                      ELSE [ns |-> IF q[1] = "" THEN Root ELSE <<q[1]>>, name |-> <<q[2]>>]
  BY Zenon DEF ItemTarget
<1> HIDE DEF n
<1>3. QED
  BY <1>1, <1>2, Zenon DEF n

\* A path of one segment is that segment.
LEMMA OneElement ==
  ASSUME NEW S, NEW t \in Seq(S), Len(t) = 1
  PROVE  t = <<t[1]>> /\ t[1] \in S
<1>1. 1 \in 1..1
  OBVIOUS
<1>2. t[1] \in S
  BY <1>1, ElementOfSeq
<1>3. <<t[1]>> \in Seq(S) /\ Len(<<t[1]>>) = 1 /\ <<t[1]>>[1] = t[1]
  BY <1>2, OneSegment
<1>4. \A i \in 1..1 : i = 1
  OBVIOUS
<1>5. \A i \in 1..Len(t) : t[i] = <<t[1]>>[i]
  BY <1>3, <1>4
<1>6. QED
  BY <1>2, <1>3, <1>5, SeqEqual

LEMMA PathNamesSlot ==
  ASSUME SingleSegments, NEW s \in Slots, NEW escaped \in BOOLEAN,
         ItemTarget(Cleaned(ItemPath(s.ns, s.name), escaped)) # NoTarget
  PROVE  ItemTarget(Cleaned(ItemPath(s.ns, s.name), escaped)) = s
<1> DEFINE T == STRING \cup {""}
           first == IF s.ns = Root THEN <<"">> ELSE s.ns
           p == ItemPath(s.ns, s.name)
           q == Cleaned(p, escaped)
<1>1. /\ s = [ns |-> s.ns, name |-> s.name]
      /\ s.ns \in Seq(STRING \ {""}) /\ s.name \in Seq(STRING \ {""})
      /\ Len(s.ns) <= 1 /\ Len(s.name) = 1
  BY NamesAssumption DEF NamesAssumption, SingleSegments, Slots
<1>2. s.ns \in Seq(T) /\ s.name \in Seq(T) /\ <<"">> \in Seq(T) /\ Len(<<"">>) = 1
  BY <1>1, SeqMonotonic, OneSegment
<1>3. first \in Seq(T) /\ Len(first) = 1
  <2>1. CASE s.ns = Root
    BY <1>2, <2>1
  <2>2. CASE s.ns # Root
    <3>1. first = s.ns
      BY <2>2
    <3>2. Len(s.ns) \in Nat \ {0}
      BY <1>2, <2>2, EmptySeq DEF Root
    <3>3. \A k \in Nat \ {0} : k <= 1 => k = 1
      OBVIOUS
    <3>4. Len(s.ns) = 1
      BY <1>1, <3>2, <3>3
    <3> HIDE DEF first
    <3>5. QED
      BY <1>2, <3>1, <3>4
  <2>3. QED
    BY <2>1, <2>2
<1>4. p = first \o s.name
  BY DEF ItemPath
<1> HIDE DEF first, p, T
<1>5. /\ p \in Seq(T) /\ Len(p) = 2
      /\ p[1] = first[1] /\ p[2] = s.name[1]
  <2>1. /\ p \in Seq(T) /\ Len(p) = Len(first) + Len(s.name)
        /\ \A i \in 1..Len(first) + Len(s.name) :
             p[i] = IF i <= Len(first) THEN first[i] ELSE s.name[i - Len(first)]
    BY <1>2, <1>3, <1>4, ConcatProperties
  <2>2. /\ 1 \in 1..1 + 1 /\ 2 \in 1..1 + 1
        /\ 1 <= 1 /\ ~(2 <= 1) /\ 2 - 1 = 1 /\ 1 + 1 = 2
    OBVIOUS
  <2>3. QED
    BY <1>1, <1>3, <2>1, <2>2
<1>6. Len(Tail(p)) = 1
  <2>1. p # <<>>
    <3>1. Len(<<>>) = 0 /\ 0 # 2
      BY EmptySeq
    <3>2. QED
      BY <1>5, <3>1
  <2>2. Len(Tail(p)) = Len(p) - 1
    BY <1>5, <2>1, HeadTailProperties
  <2>3. QED
    BY <1>5, <2>2
<1>7. q = p
  <2>1. ItemTarget(Tail(p)) = NoTarget
    BY <1>6, FewParts
  <2>2. Cleaned(p, escaped) \in {p, Tail(p)}
    BY DEF Cleaned
  <2>3. Cleaned(p, escaped) # Tail(p)
    BY <2>1 DEF p
  <2>4. QED
    BY <2>2, <2>3
<1>8. ItemTarget(p) = [ns |-> IF first[1] = "" THEN Root ELSE <<first[1]>>,
                       name |-> <<s.name[1]>>]
  BY <1>5, FewParts
<1>9. s.name = <<s.name[1]>>
  BY <1>1, OneElement
<1>10. s.ns = IF first[1] = "" THEN Root ELSE <<first[1]>>
  <2>1. CASE s.ns = Root
    <3>1. first[1] = ""
      BY <2>1 DEF first
    <3>2. QED
      BY <2>1, <3>1
  <2>2. CASE s.ns # Root
    <3>1. first = s.ns
      BY <2>2 DEF first
    <3>2. Len(s.ns) = 1
      BY <1>3, <3>1
    <3>3. s.ns[1] \in STRING \ {""} /\ s.ns = <<s.ns[1]>>
      BY <1>1, <3>2, OneElement
    <3>4. QED
      BY <3>1, <3>3
  <2>3. QED
    BY <2>1, <2>2
<1>11. QED
  BY <1>1, <1>7, <1>8, <1>9, <1>10 DEF p

\* So a worker acts on the slot its client means.
LEMMA ActsOnSlot ==
  ASSUME SingleSegments, NEW w \in Workers, NEW op, NEW at \in Slots, NEW to, NEW v, NEW phase,
         Begins(w, op, at, to, v, phase)
  PROVE  to = at
BY PathNamesSlot DEF Begins

-----------------------------------------------------------------------------
(***************************************************************************)
(* The invariant of the refinement: what the server has done of a request  *)
(* under way, as far as the phase and the answer tell.  Before its own     *)
(* call nothing is done; a positive answer says that it is; and without    *)
(* faults nothing is done that is not answered positively.                 *)
(***************************************************************************)
EffectOK(w) ==
  LET j == job[w]
      a == ans[w]
  IN  j.phase # "idle" /\ j.op \in SecretOps =>
        /\ j.to = j.at /\ j.got = Absent
        /\ j.phase # "call" => ~took[w]
        /\ j.phase = "call" /\ a.st = "ok" => took[w] /\ (j.op = "read" => a.body = saw[w])
        /\ j.phase = "call" /\ a.st # "ok" /\ faults = 0 => ~took[w]

\* Only writes are left in flight, to the slots they were meant for.
OrphansOK == \A c \in orphans : c.kind = "enable" \/ (c.kind \in {"put", "delete"} /\ c.to \in Slots)

EffectInv == OrphansOK /\ \A w \in Workers : EffectOK(w)

\* All that an answer can change in a job.
LEMMA HandledCases ==
  ASSUME NEW j \in GoodJobs, j.phase # "idle", NEW a
  PROVE  LET i == Handled(j, a)
         IN  /\ i.op = j.op /\ i.at = j.at /\ i.to = j.to /\ i.val = j.val
             /\ j.phase # "call" =>
                  /\ i.got = j.got
                  /\ i.phase # "idle" => i.status = "none"
                  /\ i.phase = "idle" /\ j.op \in SecretOps => i.status = "gateway"
             /\ j.phase = "call" =>
                  /\ i.phase = "idle" /\ i.status = IF a.st = "ok" THEN "ok" ELSE "gateway"
                  /\ i.got = IF a.st = "ok" /\ j.op = "read" THEN a.body ELSE j.got
<1> DEFINE i == Handled(j, a)
<1>1. j \in Jobs /\ j.status = "none" /\ j.phase \in {"mounts", "enable", "call"}
      /\ (j.phase = "call" => j.op \in SecretOps)
  BY DEF GoodJobs, Jobs
<1>2. CASE j.phase # "call"
  <2>1. \/ \E p \in {"call", "enable"} : i = [j EXCEPT !.phase = p]
        \/ j.op = "enable" /\ i = [j EXCEPT !.phase = "idle", !.status = "ok"]
        \/ i = [j EXCEPT !.phase = "idle", !.status = "gateway"]
    BY <1>1, <1>2 DEF Handled, MountsAnswered, EnableAnswered, EngineReady, MountFailed, Reply
  <2>2. QED
    BY <1>1, <1>2, <2>1 DEF Jobs, SecretOps
<1>3. CASE j.phase = "call" /\ j.op = "read"
  <2>1. i = IF a.st = "ok" THEN [Reply(j, "ok") EXCEPT !.got = a.body] ELSE Reply(j, "gateway")
    BY <1>3 DEF Handled, GetAnswered
  <2>2. \A st : /\ Reply(j, st).op = j.op /\ Reply(j, st).at = j.at /\ Reply(j, st).to = j.to
                /\ Reply(j, st).val = j.val /\ Reply(j, st).phase = "idle"
                /\ Reply(j, st).status = st /\ Reply(j, st).got = j.got
                /\ DOMAIN Reply(j, st) = DOMAIN j
    BY <1>1 DEF Reply, Jobs
  <2>3. QED
    BY <1>1, <1>3, <2>1, <2>2 DEF Jobs
<1>4. CASE j.phase = "call" /\ j.op # "read"
  <2>1. i = [j EXCEPT !.phase = "idle", !.status = IF a.st = "ok" THEN "ok" ELSE "gateway"]
    BY <1>1, <1>4 DEF Handled, PutAnswered, DeleteAnswered, Reply, SecretOps
  <2>2. QED
    BY <1>1, <1>4, <2>1 DEF Jobs
<1>5. QED
  BY <1>2, <1>3, <1>4

\* What an attempt leaves behind is a write of the worker's own request.
LEMMA LeftBehind ==
  ASSUME TypeInv, EffectInv, NEW w \in Workers, Busy(w), NEW c \in Abandoned(w)
  PROVE  \/ c.kind = "enable"
         \/ /\ c.kind \in {"put", "delete"} /\ c.kind = job[w].op
            /\ c.to = job[w].at /\ c.to \in Slots /\ c.val = job[w].val
            /\ job[w].phase = "call"
<1>1. job[w].phase \in {"mounts", "enable", "call"}
  BY DEF TypeInv, TypeOK, Jobs, Busy
<1>2. c = CallOf(job[w]) /\ c.kind \in {"enable", "put", "delete"}
  BY DEF Abandoned
<1>3. CASE job[w].phase # "call"
  BY <1>1, <1>2, <1>3 DEF CallOf
<1>4. CASE job[w].phase = "call"
  BY <1>2, <1>4 DEF CallOf, TypeInv, AnswerFits, EffectInv, EffectOK, Busy, SecretOps
<1>5. QED
  BY <1>3, <1>4

\* An answer, or what a fault makes of it, leaves the effects of a request told.
LEMMA HandledEffect ==
  ASSUME TypeInv, EffectInv, NEW w \in Workers, Busy(w), NEW a, Handle(w, a),
         faults' = 0 => faults = 0
  PROVE  \A u \in Workers : EffectOK(u)'
<1>1. job[w] \in GoodJobs
  BY DEF TypeInv, TypeOK, AnswerFits, GoodJobs, Busy
<1> DEFINE i == Handled(job[w], a)
<1>2. /\ job' = [job EXCEPT ![w] = i]
      /\ ans' = [ans EXCEPT ![w] = Pending]
      /\ took' = took /\ saw' = saw
  BY DEF Handle, history, TypeInv, TypeOK
<1>3. /\ i.op = job[w].op /\ i.at = job[w].at /\ i.to = job[w].to
      /\ job[w].phase # "call" => i.got = job[w].got
      /\ job[w].phase = "call" => i.phase = "idle"
  BY <1>1, HandledCases DEF Busy
<1> HIDE DEF i
<1>4. job'[w] = i /\ ans'[w] = Pending
  BY <1>2 DEF TypeInv, TypeOK
<1>5. EffectOK(w)'
  BY <1>2, <1>3, <1>4 DEF EffectInv, EffectOK, Busy, Pending
<1>6. ASSUME NEW u \in Workers, u # w
      PROVE  EffectOK(u)'
  <2>1. job'[u] = job[u] /\ ans'[u] = ans[u]
    BY <1>2, <1>6 DEF TypeInv, TypeOK
  <2>2. QED
    BY <1>2, <2>1 DEF EffectInv, EffectOK
<1>7. QED
  BY <1>5, <1>6

\* One step of the server, a worker, a fault or a namespace keeps it so.
LEMMA EffectStep ==
  ASSUME SingleSegments, TypeInv, TypeInv', EffectInv, [Next]_vars
  PROVE  EffectInv'
<1>1. \A u \in Workers : job[u] \in GoodJobs
  BY DEF TypeInv, TypeOK, AnswerFits, GoodJobs, Busy
<1>2. ASSUME NEW w \in Workers, Reject(w)
      PROVE  EffectInv'
  <2>1. /\ job' = [job EXCEPT ![w] = [Idle EXCEPT !.status = "rejected"]]
        /\ UNCHANGED <<ans, took, saw, faults, orphans>>
    BY <1>2 DEF Reject, Sent, history
  <2>2. [Idle EXCEPT !.status = "rejected"].phase = "idle"
    BY DEF Idle
  <2>3. QED
    BY <2>1, <2>2 DEF EffectInv, EffectOK, OrphansOK, TypeInv, TypeOK
<1>3. ASSUME NEW w \in Workers, SecretsCollection(w) \/ SecretsItem(w) \/ CliOperation(w)
      PROVE  EffectInv'
  <2>1. CASE Reject(w)
    BY <1>2, <2>1
  <2>2. ASSUME NEW op \in SecretOps \cup {"enable"}, NEW at \in Slots, NEW to \in Places,
               NEW v \in Values, NEW phase \in {"mounts", "call"},
               Begins(w, op, at, to, v, phase)
        PROVE  EffectInv'
    <3>1. to = at /\ Begin(w, op, at, to, v, phase)
      BY <2>2, ActsOnSlot DEF Begins
    <3>2. /\ job'[w].at = at /\ job'[w].to = to /\ job'[w].got = Absent
          /\ ans'[w] = Pending /\ took'[w] = FALSE
      BY <3>1 DEF Begin, Sent, Idle, TypeInv, TypeOK, AnswerFits
    <3>3. \A u \in Workers \ {w} : job'[u] = job[u] /\ took'[u] = took[u] /\ saw'[u] = saw[u]
      BY <3>1 DEF Begin, TypeInv, TypeOK
    <3>4. UNCHANGED <<ans, faults, orphans>>
      BY <3>1 DEF Begin, Sent
    <3>5. EffectOK(w)'
      BY <3>1, <3>2, <3>4 DEF EffectOK, Pending
    <3>6. ASSUME NEW u \in Workers \ {w}
          PROVE  EffectOK(u)'
      BY <3>3, <3>4 DEF EffectOK, EffectInv
    <3>7. QED
      BY <3>4, <3>5, <3>6 DEF EffectInv, OrphansOK
  <2>3. QED
    BY <1>3, <2>1, <2>2, RequestBegins
<1>4. ASSUME NEW w \in Workers, Exec(w)
      PROVE  EffectInv'
  <2> DEFINE c == CallOf(job[w])
  <2>1. /\ UNCHANGED <<job, orphans, faults>>
        /\ ans' = [ans EXCEPT ![w] = IF Accepts(c) THEN [st |-> "ok", body |-> Body(c)]
                                                   ELSE Failure]
        /\ IF Accepts(c) /\ job[w].phase = "call"
             THEN /\ took' = [took EXCEPT ![w] = TRUE]
                  /\ saw' = [saw EXCEPT ![w] = secret[job[w].at]]
             ELSE UNCHANGED <<took, saw>>
        /\ Busy(w) /\ ans[w] = Pending
    BY <1>4 DEF Exec
  <2>2. ans'[w] = IF Accepts(c) THEN [st |-> "ok", body |-> Body(c)] ELSE Failure
    BY <2>1 DEF TypeInv, TypeOK
  <2>3. EffectOK(w)'
    <3>1. CASE job[w].phase # "call"
      BY <2>1, <3>1 DEF EffectInv, EffectOK
    <3>2. CASE job[w].phase = "call" /\ ~Accepts(c)
      BY <2>1, <2>2, <3>2 DEF EffectInv, EffectOK, Failure, Pending
    <3>3. CASE job[w].phase = "call" /\ Accepts(c)
      <4>1. took'[w] = TRUE /\ saw'[w] = secret[job[w].at]
        BY <2>1, <3>3 DEF TypeInv, TypeOK
      <4>2. job[w].op = "read" => c.kind = "read"
        BY <3>3 DEF CallOf
      <4>3. c.to = job[w].to
        BY DEF CallOf
      <4>4. c \in Calls
        BY <1>1, <2>1, CallType DEF Busy
      <4>5. job[w].op = "read" => Body(c) = secret[c.to]
        BY <3>3, <4>2, <4>4, AnswerType DEF TypeInv, TypeOK
      <4>6. job[w].op \in SecretOps => job[w].to = job[w].at /\ job[w].got = Absent
        BY <2>1 DEF EffectInv, EffectOK, Busy
      <4>7. ans'[w].st = "ok" /\ ans'[w].body = Body(c)
        BY <2>2, <3>3
      <4> HIDE DEF c
      <4>8. QED
        BY <2>1, <3>3, <4>1, <4>3, <4>5, <4>6, <4>7 DEF EffectOK
    <3>4. QED
      BY <3>1, <3>2, <3>3
  <2>4. ASSUME NEW u \in Workers \ {w}
        PROVE  EffectOK(u)'
    <3>1. ans'[u] = ans[u] /\ took'[u] = took[u] /\ saw'[u] = saw[u]
      BY <2>1 DEF TypeInv, TypeOK
    <3>2. QED
      BY <2>1, <3>1 DEF EffectInv, EffectOK
  <2>5. QED
    BY <2>1, <2>3, <2>4 DEF EffectInv, OrphansOK
<1>5. ASSUME NEW w \in Workers, Recv(w)
      PROVE  EffectInv'
  <2>1. Busy(w) /\ Handle(w, ans[w]) /\ UNCHANGED <<faults, orphans>>
    BY <1>5 DEF Recv, TypeInv, AnswerFits
  <2>2. QED
    BY <2>1, HandledEffect DEF EffectInv, OrphansOK
<1>6. ASSUME NEW w \in Workers, Fault(w)
      PROVE  faults' # 0 /\ Busy(w)
  BY <1>6 DEF Fault, TypeInv, TypeOK
<1>7. ASSUME NEW w \in Workers, Busy(w), orphans' = orphans \cup Abandoned(w)
      PROVE  OrphansOK'
  <2>1. \A c \in Abandoned(w) : c.kind = "enable" \/ (c.kind \in {"put", "delete"} /\ c.to \in Slots)
    BY <1>7, LeftBehind
  <2>2. QED
    BY <1>7, <2>1 DEF EffectInv, OrphansOK
<1>8. ASSUME NEW w \in Workers, Timeout(w)
      PROVE  EffectInv'
  BY <1>6, <1>7, <1>8, HandledEffect DEF Timeout, EffectInv
<1>9. ASSUME NEW w \in Workers, Garble(w)
      PROVE  EffectInv'
  BY <1>6, <1>9, HandledEffect DEF Garble, EffectInv, OrphansOK
<1>10. ASSUME NEW w \in Workers, Retry(w)
       PROVE  EffectInv'
  <2>1. faults' # 0 /\ OrphansOK'
    BY <1>6, <1>7, <1>10 DEF Retry
  <2>2. ASSUME NEW u \in Workers
        PROVE  EffectOK(u)'
    <3>1. job'[u] = job[u] /\ took'[u] = took[u] /\ saw'[u] = saw[u]
          /\ ans'[u] \in {ans[u], Pending}
      BY <1>10 DEF Retry, history, TypeInv, TypeOK
    <3>2. QED
      BY <2>1, <3>1 DEF EffectInv, EffectOK, Pending
  <2>3. QED
    BY <2>1, <2>2 DEF EffectInv
<1>11. ASSUME NEW w \in Workers, Crash(w)
       PROVE  EffectInv'
  <2>1. faults' # 0 /\ OrphansOK'
    BY <1>6, <1>7, <1>11 DEF Crash
  <2>2. ASSUME NEW u \in Workers
        PROVE  EffectOK(u)'
    <3>1. /\ took'[u] = took[u] /\ saw'[u] = saw[u]
          /\ u # w => job'[u] = job[u] /\ ans'[u] = ans[u]
          /\ u = w => job'[u] = Idle
      BY <1>11 DEF Crash, history, TypeInv, TypeOK
    <3>2. QED
      BY <2>1, <3>1 DEF EffectInv, EffectOK, Idle
  <2>3. QED
    BY <2>1, <2>2 DEF EffectInv
<1>12. ASSUME NEW c \in orphans, ExecOrphan(c)
       PROVE  EffectInv'
  BY <1>12 DEF ExecOrphan, EffectInv, EffectOK, OrphansOK, history
<1>13. ASSUME NEW n \in Namespaces, NamespaceChanges(n)
       PROVE  EffectInv'
  BY <1>13 DEF NamespaceChanges, EffectInv, EffectOK, OrphansOK
<1>14. CASE UNCHANGED vars
  BY <1>14 DEF EffectInv, EffectOK, OrphansOK, vars, history
<1>15. QED
  BY <1>2, <1>3, <1>4, <1>5, <1>8, <1>9, <1>10, <1>11, <1>12, <1>13, <1>14 DEF Next

-----------------------------------------------------------------------------
(***************************************************************************)
(* The requests of the abstract store.                                     *)
(***************************************************************************)
\* The request of client w in the abstract store, when w works for the store.
Request(what, st, t, s, g) ==
  [what |-> what, status |-> st, took |-> t, saw |-> s, got |-> g]

What(j)     == [op |-> j.op, at |-> j.at, val |-> j.val]
StatusOf(j) == IF j.status = "none" THEN "asked"
               ELSE IF j.status = "ok" THEN "ok" ELSE "failed"

AllRequests == [u \in Workers |-> RequestOf(u)]

LEMMA RequestForm ==
  ASSUME NEW w
  PROVE  RequestOf(w) = IF job[w].op \in SecretOps
                          THEN Request(What(job[w]), StatusOf(job[w]), took[w], saw[w], job[w].got)
                          ELSE [status |-> "none"]
BY DEF RequestOf, Request, What, StatusOf

\* A request is asked of the store as long as its worker is busy with it.
LEMMA AskedWhileBusy ==
  ASSUME TypeInv, NEW w \in Workers
  PROVE  Store!Asked(w) <=> job[w].op \in SecretOps /\ Busy(w)
<1>1. Store!Asked(w) <=> RequestOf(w).status = "asked"
  BY DEF Store!Asked
<1>2. \A what, st, t, s, g : Request(what, st, t, s, g).status = st
  BY DEF Request
<1>3. [status |-> "none"].status = "none"
  OBVIOUS
<1>4. StatusOf(job[w]) = "asked" <=> job[w].status = "none"
  BY DEF StatusOf
<1>5. QED
  BY <1>1, <1>2, <1>3, <1>4, RequestForm DEF TypeInv, TypeOK, SecretOps

\* A step of one worker changes its request only.
LEMMA OneRequestChanges ==
  ASSUME NEW w \in Workers, \A u \in Workers : u # w => RequestOf(u)' = RequestOf(u)
  PROVE  AllRequests' = [AllRequests EXCEPT ![w] = RequestOf(w)']
BY DEF AllRequests

\* What the steps of the abstract store do to one request.
IsRequest(r) == r = Request(r.what, r.status, r.took, r.saw, r.got)

LEMMA RequestFields ==
  ASSUME NEW what, NEW st, NEW t, NEW s, NEW g, NEW r, r = Request(what, st, t, s, g)
  PROVE  /\ r.what = what /\ r.status = st /\ r.took = t /\ r.saw = s /\ r.got = g
         /\ IsRequest(r)
BY DEF Request, IsRequest

LEMMA EffectUpdate ==
  ASSUME NEW r, IsRequest(r)
  PROVE  \A x, v : [r EXCEPT !.took = x, !.saw = v] = Request(r.what, r.status, x, v, r.got)
<1> TAKE x, v
<1>1. [r EXCEPT !.took = x] = Request(r.what, r.status, x, r.saw, r.got)
  BY DEF IsRequest, Request
<1>2. ASSUME NEW q, q = Request(r.what, r.status, x, r.saw, r.got)
      PROVE  [q EXCEPT !.saw = v] = Request(r.what, r.status, x, v, r.got)
  BY <1>2 DEF Request
<1>3. QED
  BY <1>1, <1>2

LEMMA AnswerUpdate ==
  ASSUME NEW r, IsRequest(r)
  PROVE  \A x, v : [r EXCEPT !.status = x, !.got = v] = Request(r.what, x, r.took, r.saw, v)
<1> TAKE x, v
<1>1. [r EXCEPT !.status = x] = Request(r.what, x, r.took, r.saw, r.got)
  BY DEF IsRequest, Request
<1>2. ASSUME NEW q, q = Request(r.what, x, r.took, r.saw, r.got)
      PROVE  [q EXCEPT !.got = v] = Request(r.what, x, r.took, r.saw, v)
  BY <1>2 DEF Request
<1>3. QED
  BY <1>1, <1>2

\* The same of one request among all.
LEMMA EffectUpdates ==
  ASSUME NEW f, f = [u \in Workers |-> f[u]], NEW w \in Workers, IsRequest(f[w])
  PROVE  \A x, v : [f EXCEPT ![w].took = x, ![w].saw = v]
                     = [f EXCEPT ![w] = Request(f[w].what, f[w].status, x, v, f[w].got)]
<1> TAKE x, v
<1>1. [f EXCEPT ![w].took = x, ![w].saw = v]
        = [f EXCEPT ![w] = [f[w] EXCEPT !.took = x, !.saw = v]]
  OBVIOUS
<1>2. [f[w] EXCEPT !.took = x, !.saw = v] = Request(f[w].what, f[w].status, x, v, f[w].got)
  BY EffectUpdate, Zenon
<1>3. QED
  BY <1>1, <1>2, Zenon

LEMMA AnswerUpdates ==
  ASSUME NEW f, f = [u \in Workers |-> f[u]], NEW w \in Workers, IsRequest(f[w])
  PROVE  \A x, v : [f EXCEPT ![w].status = x, ![w].got = v]
                     = [f EXCEPT ![w] = Request(f[w].what, x, f[w].took, f[w].saw, v)]
<1> TAKE x, v
<1>1. [f EXCEPT ![w].status = x, ![w].got = v]
        = [f EXCEPT ![w] = [f[w] EXCEPT !.status = x, !.got = v]]
  OBVIOUS
<1>2. [f[w] EXCEPT !.status = x, !.got = v] = Request(f[w].what, x, f[w].took, f[w].saw, v)
  BY AnswerUpdate, Zenon
<1>3. QED
  BY <1>1, <1>2, Zenon

LEMMA StatusUpdates ==
  ASSUME NEW f, f = [u \in Workers |-> f[u]], NEW w \in Workers, IsRequest(f[w])
  PROVE  \A x : [f EXCEPT ![w].status = x]
                  = [f EXCEPT ![w] = Request(f[w].what, x, f[w].took, f[w].saw, f[w].got)]
<1> TAKE x
<1>1. [f EXCEPT ![w].status = x] = [f EXCEPT ![w] = [f[w] EXCEPT !.status = x]]
  OBVIOUS
<1>2. ASSUME NEW r, IsRequest(r)
      PROVE  [r EXCEPT !.status = x] = Request(r.what, x, r.took, r.saw, r.got)
  BY <1>2 DEF IsRequest, Request
<1>3. [f[w] EXCEPT !.status = x] = Request(f[w].what, x, f[w].took, f[w].saw, f[w].got)
  BY <1>2, Zenon
<1>4. QED
  BY <1>1, <1>3, Zenon

-----------------------------------------------------------------------------
(***************************************************************************)
(* Every step of KvSecrets is a step of the abstract store, or none.       *)
(***************************************************************************)
\* Worker w's part in a step, as the store sees it.
OnlyRequestOf(w) == \A u \in Workers : u # w => RequestOf(u)' = RequestOf(u)

LEMMA OthersUntouched ==
  ASSUME TypeInv, NEW w \in Workers,
         \A u \in Workers \ {w} : job'[u] = job[u] /\ took'[u] = took[u] /\ saw'[u] = saw[u]
  PROVE  OnlyRequestOf(w)
BY DEF OnlyRequestOf, RequestOf

\* A request that begins, or is rejected, is asked of the store or is none of
\* its business.
LEMMA BeginRefines ==
  ASSUME TypeInv, SingleSegments, NEW w \in Workers,
         NEW op \in SecretOps \cup {"enable"}, NEW at \in Slots, NEW to \in Places,
         NEW v \in Values, NEW phase \in {"mounts", "call"},
         Begins(w, op, at, to, v, phase)
  PROVE  Store!Next
<1> DEFINE j == [Idle EXCEPT !.op = op, !.at = at, !.to = to, !.val = v, !.phase = phase]
<1>1. Begin(w, op, at, to, v, phase)
  BY DEF Begins
<1>2. /\ job' = [job EXCEPT ![w] = j] /\ took' = [took EXCEPT ![w] = FALSE]
      /\ saw' = [saw EXCEPT ![w] = Absent]
      /\ UNCHANGED <<kvVars, orphans, faults>> /\ ~Busy(w)
  BY <1>1 DEF Begin, Sent
<1>3. j.op = op /\ j.at = at /\ j.val = v /\ j.status = "none" /\ j.got = Absent
  BY DEF Idle
<1> HIDE DEF j
<1>4. OnlyRequestOf(w)
  BY <1>2, OthersUntouched DEF TypeInv, TypeOK
<1>5. job'[w] = j /\ took'[w] = FALSE /\ saw'[w] = Absent
  BY <1>2 DEF TypeInv, TypeOK
<1>6. ~Store!Asked(w)
  BY <1>2, AskedWhileBusy
<1>7. UNCHANGED <<live, secret, WritesLeft, faults > 0>>
  BY <1>2 DEF kvVars, WritesLeft
<1>8. CASE op \in SecretOps
  <2> DEFINE r == [op |-> op, at |-> at, val |-> v]
  <2>1. RequestOf(w)' = Store!AsksFor(r)
    BY <1>3, <1>5, <1>8 DEF RequestOf, Store!AsksFor
  <2>2. AllRequests' = [AllRequests EXCEPT ![w] = Store!AsksFor(r)]
    BY <1>4, <2>1, OneRequestChanges DEF OnlyRequestOf
  <2>3. r \in Store!Requests
    BY <1>8 DEF Store!Requests, SecretOps
  <2>4. Store!Ask(w, r)
    BY <1>6, <1>7, <2>2 DEF Store!Ask, AllRequests
  <2> HIDE DEF r
  <2>5. QED
    BY <1>6, <2>3, <2>4 DEF Store!Next
<1>9. CASE op \notin SecretOps
  <2>1. RequestOf(w)' = Store!NoReq
    BY <1>3, <1>5, <1>9 DEF RequestOf, Store!NoReq
  <2>2. AllRequests' = [AllRequests EXCEPT ![w] = Store!NoReq]
    BY <1>4, <2>1, OneRequestChanges DEF OnlyRequestOf
  <2>3. Store!Leave(w)
    BY <1>6, <1>7, <2>2 DEF Store!Leave, AllRequests
  <2>4. QED
    BY <2>3 DEF Store!Next
<1>10. QED
  BY <1>8, <1>9

LEMMA RejectRefines ==
  ASSUME TypeInv, NEW w \in Workers, Reject(w)
  PROVE  Store!Next
<1>1. /\ job' = [job EXCEPT ![w] = [Idle EXCEPT !.status = "rejected"]]
      /\ UNCHANGED <<took, saw, live, secret, orphans, faults>> /\ ~Busy(w)
  BY DEF Reject, Sent, history, kvVars
<1>2. [Idle EXCEPT !.status = "rejected"].op = "none"
  BY DEF Idle
<1>3. job'[w].op = "none"
  BY <1>1, <1>2 DEF TypeInv, TypeOK
<1>4. RequestOf(w)' = Store!NoReq
  BY <1>3 DEF RequestOf, Store!NoReq, SecretOps
<1>5. OnlyRequestOf(w)
  BY <1>1, OthersUntouched DEF TypeInv, TypeOK
<1>6. AllRequests' = [AllRequests EXCEPT ![w] = Store!NoReq]
  BY <1>4, <1>5, OneRequestChanges DEF OnlyRequestOf
<1>7. ~Store!Asked(w)
  BY <1>1, AskedWhileBusy
<1>8. UNCHANGED <<live, secret, WritesLeft, faults > 0>>
  BY <1>1 DEF WritesLeft
<1>9. Store!Leave(w)
  BY <1>6, <1>7, <1>8 DEF Store!Leave, AllRequests
<1>10. QED
  BY <1>9 DEF Store!Next

\* The server's handling of a call is the request's effect, or no effect.
LEMMA ExecRefines ==
  ASSUME TypeInv, EffectInv, NEW w \in Workers, Exec(w)
  PROVE  [Store!Next]_(Store!storeVars)
<1> DEFINE c == CallOf(job[w])
           j == job[w]
<1>1. /\ UNCHANGED <<job, orphans, faults>> /\ Serve(c)
      /\ IF Accepts(c) /\ j.phase = "call"
           THEN /\ took' = [took EXCEPT ![w] = TRUE]
                /\ saw' = [saw EXCEPT ![w] = secret[j.at]]
           ELSE UNCHANGED <<took, saw>>
      /\ Busy(w) /\ ans[w] = Pending
  BY DEF Exec
<1>2. UNCHANGED <<live, WritesLeft, faults > 0>>
  BY <1>1 DEF WritesLeft, Serve
<1>3. j \in GoodJobs
  BY DEF TypeInv, TypeOK, AnswerFits, GoodJobs, Busy
<1>4. CASE ~(Accepts(c) /\ j.phase = "call")
  <2>1. AllRequests' = AllRequests
    BY <1>1, <1>4 DEF AllRequests, RequestOf
  <2>2. j.phase # "call" => c.kind \in {"mounts", "enable"}
    BY <1>1, <1>3 DEF CallOf, GoodJobs, Jobs, Busy
  <2>3. secret' = secret
    BY <1>1, <1>4, <2>2 DEF Serve, Apply
  <2>4. QED
    BY <1>2, <2>1, <2>3 DEF Store!storeVars, AllRequests
<1>5. CASE Accepts(c) /\ j.phase = "call"
  <2>1. /\ j.op \in SecretOps /\ j.to = j.at /\ j.at \in Slots /\ j.val \in Values
        /\ c.kind = j.op /\ c.to = j.at /\ c.val = j.val
    BY <1>1, <1>3, <1>5 DEF CallOf, GoodJobs, Jobs, EffectInv, EffectOK, Busy
  <2>2. faults = 0 => ~took[w]
    BY <1>1, <1>5, <2>1 DEF EffectInv, EffectOK, Busy, Pending
  <2>3. took[w] => faults > 0
    BY <2>2 DEF TypeInv, TypeOK
  <2>4. Store!Asked(w)
    BY <1>1, <2>1, AskedWhileBusy
  <2>5. RequestOf(w) = Request(What(j), StatusOf(j), took[w], saw[w], j.got)
    BY <2>1, RequestForm
  <2>6. took'[w] = TRUE /\ saw'[w] = secret[j.at] /\ job' = job
    BY <1>1, <1>5 DEF TypeInv, TypeOK
  <2>7. RequestOf(w)' = Request(What(j), StatusOf(j), TRUE, secret[j.at], j.got)
    BY <2>1, <2>6 DEF RequestOf, Request, What, StatusOf
  <2>8. AllRequests' = [AllRequests EXCEPT ![w] =
                           Request(What(j), StatusOf(j), TRUE, secret[j.at], j.got)]
    <3>1. OnlyRequestOf(w)
      BY <1>1, OthersUntouched DEF TypeInv, TypeOK
    <3>2. QED
      BY <2>7, <3>1, OneRequestChanges DEF OnlyRequestOf
  <2>9. AllRequests = [u \in Workers |-> AllRequests[u]] /\ AllRequests[w] = RequestOf(w)
    BY DEF AllRequests
  <2>10. /\ AllRequests[w].what = What(j) /\ AllRequests[w].status = StatusOf(j)
         /\ AllRequests[w].took = took[w] /\ AllRequests[w].got = j.got
         /\ IsRequest(AllRequests[w])
    <3> HIDE DEF j, c
    <3>1. QED
      BY <2>5, <2>9, RequestFields
  <2>11. AllRequests' = [AllRequests EXCEPT ![w].took = TRUE, ![w].saw = secret[j.at]]
    <3> DEFINE R == AllRequests
    <3> HIDE DEF j, c, R
    <3>1. \A x, v : [R EXCEPT ![w].took = x, ![w].saw = v]
                      = [R EXCEPT ![w] = Request(R[w].what, R[w].status, x, v, R[w].got)]
      BY <2>9, <2>10, EffectUpdates, Zenon DEF R
    <3>2. [R EXCEPT ![w].took = TRUE, ![w].saw = secret[j.at]]
            = [R EXCEPT ![w] = Request(R[w].what, R[w].status, TRUE, secret[j.at], R[w].got)]
      BY <3>1, Zenon
    <3>3. QED
      BY <2>8, <2>10, <3>2, Zenon DEF R
  <2>12. /\ j.op = "read" => secret[j.at] # Absent /\ secret' = secret
         /\ j.op # "read" => j.at.ns \in live
         /\ j.op = "put" => secret' = [secret EXCEPT ![j.at] = j.val]
         /\ j.op = "delete" => secret' = [secret EXCEPT ![j.at] = Absent]
    <3>1. Apply(c)
      BY <1>1, <1>5 DEF Serve
    <3>2. j.op = "read" => secret[j.at] # Absent /\ secret' = secret
      BY <1>5, <2>1, <3>1 DEF Accepts, Apply
    <3>3. \A x : Write(j.at, x) => secret' = [secret EXCEPT ![j.at] = x]
      BY DEF Write, TypeInv, TypeOK, KvTypeOK
    <3>4. (j.op = "put" => Write(j.at, j.val)) /\ (j.op = "delete" => Write(j.at, Absent))
      BY <2>1, <3>1 DEF Apply
    <3>5. j.op # "read" => j.at.ns \in live
      BY <1>5, <2>1 DEF Accepts, SecretOps, TypeInv, TypeOK, KvTypeOK
    <3>6. QED
      BY <3>2, <3>3, <3>4, <3>5
  <2>13. /\ What(j).op = j.op /\ What(j).at = j.at /\ What(j).val = j.val
         /\ j.op \in {"put", "read", "delete"}
    BY <2>1 DEF What, SecretOps
  <2> HIDE DEF c, j
  <2>14. secret' = Store!Effect(What(j))
    BY <2>12, <2>13 DEF Store!Effect
  <2>15. Store!Take(w)
    BY <1>2, <2>3, <2>4, <2>10, <2>11, <2>12, <2>13, <2>14 DEF Store!Take, AllRequests
  <2>16. QED
    BY <2>15 DEF Store!Next
<1>6. QED
  BY <1>4, <1>5

\* How an answer, or what a fault makes of it, answers the request.
LEMMA HandleAnswers ==
  ASSUME TypeInv, EffectInv, NEW w \in Workers, Busy(w), NEW a, Handle(w, a)
  PROVE  /\ secret' = secret /\ live' = live
         /\ job[w].op \notin SecretOps => AllRequests' = AllRequests
         /\ job[w].op \in SecretOps =>
              \/ job[w].phase # "call" /\ AllRequests' = AllRequests
              \/ /\ job[w].phase = "call" => a.st # "ok"
                 /\ AllRequests' = [AllRequests EXCEPT ![w].status = "failed"]
              \/ /\ job[w].phase = "call" /\ a.st = "ok"
                 /\ AllRequests' = [AllRequests EXCEPT ![w].status = "ok",
                      ![w].got = IF job[w].op = "read" THEN a.body ELSE Absent]
<1> DEFINE j == job[w]
           i == Handled(j, a)
           R == AllRequests
<1>1. j \in GoodJobs
  BY DEF TypeInv, TypeOK, AnswerFits, GoodJobs, Busy
<1>2. job' = [job EXCEPT ![w] = i] /\ UNCHANGED <<secret, live, took, saw>>
  BY DEF Handle, kvVars, history, TypeInv, TypeOK
<1>3. job'[w] = i
  BY <1>2 DEF TypeInv, TypeOK
<1>4. /\ i.op = j.op /\ i.at = j.at /\ i.val = j.val
      /\ j.phase # "call" =>
           /\ i.got = j.got
           /\ i.phase # "idle" => i.status = "none"
           /\ i.phase = "idle" /\ j.op \in SecretOps => i.status = "gateway"
      /\ j.phase = "call" =>
           /\ i.status = IF a.st = "ok" THEN "ok" ELSE "gateway"
           /\ i.got = IF a.st = "ok" /\ j.op = "read" THEN a.body ELSE j.got
  BY <1>1, HandledCases DEF Busy
<1> HIDE DEF i
<1>5. AllRequests' = [AllRequests EXCEPT ![w] = RequestOf(w)']
  <2>1. OnlyRequestOf(w)
    BY <1>2, OthersUntouched DEF TypeInv, TypeOK
  <2>2. QED
    BY <2>1, OneRequestChanges DEF OnlyRequestOf
<1>6. R = [u \in Workers |-> R[u]] /\ R[w] = RequestOf(w)
  BY DEF AllRequests
<1>7. CASE j.op \notin SecretOps
  <2>1. RequestOf(w)' = RequestOf(w)
    BY <1>3, <1>4, <1>7 DEF RequestOf
  <2>2. AllRequests' = AllRequests
    BY <1>5, <1>6, <2>1
  <2>3. QED
    BY <1>2, <1>7, <2>2
<1>8. CASE j.op \in SecretOps
  <2>1. j.got = Absent /\ j.status = "none"
    BY <1>1, <1>8 DEF EffectInv, EffectOK, GoodJobs, Busy
  <2>2. R[w] = Request(What(j), "asked", took[w], saw[w], Absent)
    BY <1>6, <1>8, <2>1, RequestForm DEF StatusOf
  <2>3. RequestOf(w)' = Request(What(j), StatusOf(i), took[w], saw[w], i.got)
    BY <1>2, <1>3, <1>4, <1>8 DEF RequestOf, Request, What, StatusOf
  <2>4. /\ R[w].what = What(j) /\ R[w].took = took[w] /\ R[w].saw = saw[w] /\ R[w].got = Absent
        /\ IsRequest(R[w])
    <3> HIDE DEF j, R
    <3>1. QED
      BY <2>2, RequestFields
  <2>5. /\ \A x : [R EXCEPT ![w].status = x]
                    = [R EXCEPT ![w] = Request(R[w].what, x, R[w].took, R[w].saw, R[w].got)]
        /\ \A x, v : [R EXCEPT ![w].status = x, ![w].got = v]
                       = [R EXCEPT ![w] = Request(R[w].what, x, R[w].took, R[w].saw, v)]
    <3> HIDE DEF j, R
    <3>1. \A x : [R EXCEPT ![w].status = x]
                   = [R EXCEPT ![w] = Request(R[w].what, x, R[w].took, R[w].saw, R[w].got)]
      BY <1>6, <2>4, StatusUpdates, Zenon
    <3>2. \A x, v : [R EXCEPT ![w].status = x, ![w].got = v]
                      = [R EXCEPT ![w] = Request(R[w].what, x, R[w].took, R[w].saw, v)]
      BY <1>6, <2>4, AnswerUpdates, Zenon
    <3>3. QED
      BY <3>1, <3>2, Zenon
  <2>6. CASE j.phase # "call" /\ i.phase # "idle"
    <3>1. StatusOf(i) = "asked" /\ i.got = Absent
      BY <1>4, <2>1, <2>6 DEF StatusOf
    <3>2. RequestOf(w)' = RequestOf(w)
      BY <1>6, <2>2, <2>3, <3>1
    <3>3. AllRequests' = AllRequests
      BY <1>5, <1>6, <3>2
    <3>4. QED
      BY <1>2, <1>8, <2>6, <3>3
  <2>7. CASE (j.phase # "call" /\ i.phase = "idle") \/ (j.phase = "call" /\ a.st # "ok")
    <3>1. StatusOf(i) = "failed" /\ i.got = Absent
      BY <1>4, <1>8, <2>1, <2>7 DEF StatusOf
    <3>2. AllRequests' = [R EXCEPT ![w] = Request(R[w].what, "failed", R[w].took, R[w].saw, R[w].got)]
      BY <1>5, <2>3, <2>4, <3>1
    <3>3. AllRequests' = [R EXCEPT ![w].status = "failed"]
      <4> HIDE DEF R
      <4>1. QED
        BY <2>5, <3>2, Zenon
    <3>4. QED
      BY <1>2, <1>8, <2>7, <3>3
  <2>8. CASE j.phase = "call" /\ a.st = "ok"
    <3> DEFINE v == IF j.op = "read" THEN a.body ELSE Absent
    <3>1. StatusOf(i) = "ok" /\ i.got = v
      BY <1>4, <2>1, <2>8 DEF StatusOf
    <3> HIDE DEF v
    <3>2. AllRequests' = [R EXCEPT ![w] = Request(R[w].what, "ok", R[w].took, R[w].saw, v)]
      BY <1>5, <2>3, <2>4, <3>1
    <3>3. AllRequests' = [R EXCEPT ![w].status = "ok", ![w].got = v]
      <4> HIDE DEF R
      <4>1. QED
        BY <2>5, <3>2, Zenon
    <3>4. QED
      BY <1>2, <1>8, <2>8, <3>3 DEF v
  <2>9. QED
    BY <2>6, <2>7, <2>8
<1>9. QED
  BY <1>7, <1>8

\* A positive answer grants what has been done, a negative one refuses what has
\* not; the answers before a request's own call are no business of the store.
LEMMA RecvRefines ==
  ASSUME TypeInv, EffectInv, NEW w \in Workers, Recv(w)
  PROVE  [Store!Next]_(Store!storeVars)
<1> DEFINE j == job[w]
           R == AllRequests
<1>1. /\ Busy(w) /\ Handle(w, ans[w]) /\ UNCHANGED <<orphans, faults>>
  BY DEF Recv, TypeInv, AnswerFits
<1>2. UNCHANGED <<WritesLeft, faults > 0>>
  BY <1>1 DEF WritesLeft
<1>3. secret' = secret /\ live' = live
  BY <1>1, HandleAnswers
<1>4. CASE R' = R
  BY <1>2, <1>3, <1>4 DEF Store!storeVars, AllRequests
<1>5. CASE j.op \in SecretOps /\ R' # R
  <2>1. Store!Asked(w) /\ R[w] = RequestOf(w)
    BY <1>1, <1>5, AskedWhileBusy DEF AllRequests
  <2>2. R[w].took = took[w] /\ R[w].saw = saw[w] /\ R[w].what.op = j.op
    <3>1. R[w] = Request(What(j), StatusOf(j), took[w], saw[w], j.got)
      BY <1>5, <2>1, RequestForm
    <3>2. What(j).op = j.op
      BY DEF What
    <3> HIDE DEF R, j
    <3>3. QED
      BY <3>1, <3>2, RequestFields
  <2>3. CASE /\ j.phase = "call" => ans[w].st # "ok"
             /\ R' = [R EXCEPT ![w].status = "failed"]
    <3>1. took[w] => faults > 0
      BY <1>1, <1>5, <2>3 DEF EffectInv, EffectOK, Busy, TypeInv, TypeOK
    <3>2. Store!Refuse(w)
      BY <1>2, <1>3, <2>1, <2>2, <2>3, <3>1 DEF Store!Refuse, AllRequests
    <3>3. QED
      BY <3>2 DEF Store!Next
  <2>4. CASE /\ j.phase = "call" /\ ans[w].st = "ok"
             /\ R' = [R EXCEPT ![w].status = "ok",
                               ![w].got = IF j.op = "read" THEN ans[w].body ELSE Absent]
    <3>1. took[w] /\ (j.op = "read" => ans[w].body = saw[w])
      BY <1>1, <1>5, <2>4 DEF EffectInv, EffectOK, Busy
    <3>2. (IF j.op = "read" THEN ans[w].body ELSE Absent)
            = (IF R[w].what.op = "read" THEN R[w].saw ELSE Absent)
      BY <2>2, <3>1
    <3>3. R' = [R EXCEPT ![w].status = "ok",
                         ![w].got = IF R[w].what.op = "read" THEN R[w].saw ELSE Absent]
      <4> HIDE DEF R, j
      <4>1. QED
        BY <2>4, <3>2, Zenon
    <3>4. Store!Grant(w)
      BY <1>2, <1>3, <2>1, <2>2, <3>1, <3>3 DEF Store!Grant, AllRequests
    <3>5. QED
      BY <3>4 DEF Store!Next
  <2>5. QED
    BY <1>1, <1>5, <2>3, <2>4, HandleAnswers
<1>6. QED
  BY <1>1, <1>4, <1>5, HandleAnswers

\* What a lost call leaves to come is what its request asks for.
LEMMA AbandonedLate ==
  ASSUME TypeInv, EffectInv, NEW w \in Workers, Busy(w), orphans' = orphans \cup Abandoned(w)
  PROVE  /\ WritesLeft' \in {WritesLeft, WritesLeft \cup {What(job[w])}}
         /\ job[w].op \notin SecretOps => WritesLeft' = WritesLeft
<1> DEFINE Left(c) == [op |-> c.kind, at |-> c.to, val |-> c.val]
<1>1. \A c \in Abandoned(w) : c.kind \in SecretOps => job[w].op \in SecretOps /\ Left(c) = What(job[w])
  BY LeftBehind DEF SecretOps, What
<1>2. WritesLeft = {Left(c) : c \in {d \in orphans : d.kind \in SecretOps}}
  BY DEF WritesLeft
<1>3. WritesLeft' = {Left(c) : c \in {d \in orphans \cup Abandoned(w) : d.kind \in SecretOps}}
  BY DEF WritesLeft
<1> HIDE DEF Left
<1>4. CASE \E c \in Abandoned(w) : c.kind \in SecretOps
  <2>1. WritesLeft' = WritesLeft \cup {What(job[w])}
    BY <1>1, <1>2, <1>3, <1>4
  <2>2. QED
    BY <1>1, <1>4, <2>1
<1>5. CASE ~\E c \in Abandoned(w) : c.kind \in SecretOps
  <2>1. WritesLeft' = WritesLeft
    BY <1>2, <1>3, <1>5
  <2>2. QED
    BY <2>1
<1>6. QED
  BY <1>4, <1>5

\* A fault is a loss: of a request of the store, or of something else.
LEMMA LossRefines ==
  ASSUME TypeInv, EffectInv, NEW w \in Workers, Busy(w), faults' > 0, secret' = secret, live' = live,
         WritesLeft' \in {WritesLeft, WritesLeft \cup {What(job[w])}},
         job[w].op \notin SecretOps => WritesLeft' = WritesLeft /\ AllRequests' = AllRequests,
         job[w].op \in SecretOps =>
           \/ AllRequests' = AllRequests
           \/ AllRequests' = [AllRequests EXCEPT ![w].status = "failed"]
           \/ /\ took[w]
              /\ AllRequests' = [AllRequests EXCEPT ![w].status = "ok", ![w].got = Empty]
           \/ AllRequests' = [AllRequests EXCEPT ![w] = Store!NoReq]
  PROVE  Store!Next
<1> DEFINE R == AllRequests
<1>1. CASE job[w].op \notin SecretOps
  <2>1. Store!LoseElsewhere
    BY <1>1 DEF Store!LoseElsewhere, AllRequests
  <2>2. QED
    BY <2>1 DEF Store!Next
<1>2. CASE job[w].op \in SecretOps
  <2>1. Store!Asked(w) /\ R[w] = RequestOf(w)
    BY <1>2, AskedWhileBusy DEF AllRequests
  <2>2. R[w].took = took[w] /\ R[w].what = What(job[w]) /\ R[w].status = "asked"
    BY <1>2, <2>1, RequestForm, RequestFields DEF StatusOf, TypeInv, TypeOK
  <2>3. R'[w].status = "ok" => R[w].took
    <3>1. R = [u \in Workers |-> R[u]]
      BY DEF AllRequests
    <3>2. Store!NoReq.status = "none"
      BY DEF Store!NoReq
    <3> HIDE DEF R
    <3>3. R' = R => R'[w].status = "asked"
      BY <2>2
    <3>4. R' = [R EXCEPT ![w].status = "failed"] => R'[w].status # "ok"
      <4>1. IsRequest(R[w])
        BY <1>2, <2>1, RequestForm, RequestFields
      <4>2. [R[w] EXCEPT !.status = "failed"].status = "failed"
        BY <4>1 DEF IsRequest, Request
      <4>3. [R EXCEPT ![w].status = "failed"][w] = [R[w] EXCEPT !.status = "failed"]
        BY <3>1
      <4>4. QED
        BY <4>2, <4>3
    <3>5. R' = [R EXCEPT ![w] = Store!NoReq] => R'[w].status # "ok"
      BY <3>1, <3>2
    <3>6. QED
      BY <1>2, <2>2, <3>3, <3>4, <3>5 DEF R
  <2>4. Store!Lose(w)
    BY <1>2, <2>1, <2>2, <2>3 DEF Store!Lose, AllRequests
  <2>5. QED
    BY <2>4 DEF Store!Next
<1>3. QED
  BY <1>1, <1>2

LEMMA FaultRefines ==
  ASSUME TypeInv, EffectInv, NEW w \in Workers,
         Timeout(w) \/ Retry(w) \/ Garble(w) \/ Crash(w)
  PROVE  Store!Next
<1> DEFINE R == AllRequests
<1>1. Busy(w) /\ faults' > 0
  BY DEF Timeout, Retry, Garble, Crash, Fault, TypeInv, TypeOK
<1>2. CASE Timeout(w)
  <2>1. Handle(w, Failure) /\ orphans' = orphans \cup Abandoned(w)
    BY <1>2 DEF Timeout
  <2>2. Failure.st # "ok"
    BY DEF Failure
  <2>3. /\ secret' = secret /\ live' = live
        /\ job[w].op \notin SecretOps => AllRequests' = AllRequests
        /\ job[w].op \in SecretOps =>
             \/ AllRequests' = AllRequests
             \/ AllRequests' = [AllRequests EXCEPT ![w].status = "failed"]
    BY <1>1, <2>1, <2>2, HandleAnswers
  <2>4. QED
    BY <1>1, <2>1, <2>3, AbandonedLate, LossRefines
<1>3. CASE Garble(w)
  <2> DEFINE a == [st |-> "ok",
                   body |-> IF job[w].phase = "mounts" THEN "unmounted" ELSE Empty]
  <2>1. /\ Handle(w, a) /\ UNCHANGED orphans /\ ans[w].st = "ok"
        /\ CallOf(job[w]).kind \in {"mounts", "read"}
    BY <1>3 DEF Garble
  <2>2. job[w].phase = "call" => job[w].op = "read" /\ a.body = Empty
    BY <2>1 DEF CallOf, TypeInv, AnswerFits, SecretOps
  <2>3. WritesLeft' = WritesLeft
    BY <2>1 DEF WritesLeft
  <2>4. job[w].phase = "call" => took[w]
    BY <1>1, <2>1, <2>2 DEF EffectInv, EffectOK, Busy, SecretOps
  <2> HIDE DEF a
  <2>5. /\ secret' = secret /\ live' = live
        /\ job[w].op \notin SecretOps => AllRequests' = AllRequests
        /\ job[w].op \in SecretOps =>
             \/ AllRequests' = AllRequests
             \/ AllRequests' = [AllRequests EXCEPT ![w].status = "failed"]
             \/ /\ took[w]
                /\ AllRequests' = [AllRequests EXCEPT ![w].status = "ok", ![w].got = Empty]
    BY <1>1, <2>1, <2>2, <2>4, HandleAnswers
  <2>6. QED
    BY <1>1, <2>3, <2>5, LossRefines
<1>4. CASE Retry(w)
  <2>1. UNCHANGED <<secret, live, AllRequests>> /\ orphans' = orphans \cup Abandoned(w)
    BY <1>4 DEF Retry, kvVars, history, AllRequests, RequestOf
  <2>2. QED
    BY <1>1, <2>1, AbandonedLate, LossRefines
<1>5. CASE Crash(w)
  <2>1. /\ UNCHANGED <<secret, live>> /\ orphans' = orphans \cup Abandoned(w)
        /\ job' = [job EXCEPT ![w] = Idle] /\ UNCHANGED <<took, saw>>
    BY <1>5 DEF Crash, kvVars, history
  <2>2. job'[w].op = "none"
    BY <2>1 DEF Idle, TypeInv, TypeOK
  <2>3. RequestOf(w)' = Store!NoReq
    BY <2>2 DEF RequestOf, Store!NoReq, SecretOps
  <2>4. OnlyRequestOf(w)
    BY <2>1, OthersUntouched DEF TypeInv, TypeOK
  <2>5. AllRequests' = [AllRequests EXCEPT ![w] = Store!NoReq]
    BY <2>3, <2>4, OneRequestChanges DEF OnlyRequestOf
  <2>6. job[w].op \notin SecretOps => AllRequests' = AllRequests
    <3>1. job[w].op \notin SecretOps => AllRequests[w] = Store!NoReq
      BY DEF AllRequests, RequestOf, Store!NoReq
    <3>2. AllRequests = [u \in Workers |-> AllRequests[u]]
      BY DEF AllRequests
    <3> HIDE DEF R
    <3>3. QED
      BY <2>5, <3>1, <3>2
  <2>7. QED
    BY <1>1, <2>1, <2>5, <2>6, AbandonedLate, LossRefines
<1>6. QED
  BY <1>2, <1>3, <1>4, <1>5

\* An effect may come late.
LEMMA OrphanRefines ==
  ASSUME TypeInv, EffectInv, NEW c \in orphans, ExecOrphan(c)
  PROVE  [Store!Next]_(Store!storeVars)
<1> DEFINE Left(d) == [op |-> d.kind, at |-> d.to, val |-> d.val]
<1>1. /\ Serve(c) /\ orphans' = orphans \ {c}
      /\ UNCHANGED <<live, AllRequests, faults > 0>>
  BY DEF ExecOrphan, Serve, history, AllRequests, RequestOf
<1>2. WritesLeft = {Left(d) : d \in {e \in orphans : e.kind \in SecretOps}}
  BY DEF WritesLeft
<1>3. WritesLeft' = {Left(d) : d \in {e \in orphans \ {c} : e.kind \in SecretOps}}
  BY <1>1 DEF WritesLeft
<1>4. c.kind = "enable" \/ (c.kind \in {"put", "delete"} /\ c.to \in Slots)
  BY DEF EffectInv, OrphansOK
<1>5. CASE c.kind = "enable"
  <2>1. secret' = secret
    BY <1>1, <1>5 DEF Serve, Apply
  <2> HIDE DEF Left
  <2>2. WritesLeft' = WritesLeft
    BY <1>2, <1>3, <1>5 DEF SecretOps
  <2>3. QED
    BY <1>1, <2>1, <2>2 DEF Store!storeVars, AllRequests
<1>6. CASE c.kind \in {"put", "delete"} /\ c.to \in Slots
  <2>1. Left(c).op = c.kind /\ Left(c).at = c.to /\ Left(c).val = c.val
    OBVIOUS
  <2>2. \A d \in orphans : Left(d) = Left(c) => d = c
    BY DEF TypeInv, TypeOK, Calls
  <2> HIDE DEF Left
  <2>3. WritesLeft' = WritesLeft \ {Left(c)} /\ Left(c) \in WritesLeft
    BY <1>2, <1>3, <1>6, <2>2 DEF SecretOps
  <2>4. \/ Left(c).at.ns \in live /\ secret' = Store!Effect(Left(c))
        \/ secret' = secret
    <3>1. secret' = secret \/ (Apply(c) /\ c.to.ns \in live)
      BY <1>1, <1>6 DEF Serve, Accepts, TypeInv, TypeOK, KvTypeOK
    <3>2. \A x : Write(c.to, x) => secret' = [secret EXCEPT ![c.to] = x]
      BY <1>6 DEF Write, TypeInv, TypeOK, KvTypeOK
    <3>3. Apply(c) => \/ c.kind = "put" /\ Write(c.to, c.val)
                      \/ c.kind = "delete" /\ Write(c.to, Absent)
      BY <1>6 DEF Apply
    <3>4. QED
      BY <2>1, <3>1, <3>2, <3>3 DEF Store!Effect
  <2>5. Store!TakeLate(Left(c))
    BY <1>1, <2>3, <2>4 DEF Store!TakeLate, AllRequests
  <2>6. QED
    BY <2>3, <2>5 DEF Store!Next
<1>7. QED
  BY <1>4, <1>5, <1>6

\* A namespace takes its secrets with it.
LEMMA NamespaceRefines ==
  ASSUME TypeInv, NEW n \in Namespaces, NamespaceChanges(n)
  PROVE  [Store!Next]_(Store!storeVars)
<1>1. UNCHANGED <<AllRequests, WritesLeft, faults > 0>>
  BY DEF NamespaceChanges, AllRequests, RequestOf, WritesLeft
<1>2. CASE NamespaceComes(n)
  <2>1. Store!NamespaceComes(n)
    BY <1>1, <1>2 DEF NamespaceComes, Store!NamespaceComes, AllRequests
  <2>2. QED
    BY <2>1 DEF Store!Next
<1>3. CASE NamespaceGoes(n)
  <2>1. Store!Wipe(n)
    BY <1>1, <1>3 DEF NamespaceGoes, Store!Wipe, AllRequests
  <2>2. QED
    BY <2>1 DEF Store!Next
<1>4. QED
  BY <1>2, <1>3 DEF NamespaceChanges

LEMMA StepRefines ==
  ASSUME SingleSegments, TypeInv, EffectInv, [Next]_vars
  PROVE  [Store!Next]_(Store!storeVars)
<1>1. ASSUME NEW w \in Workers, SecretsCollection(w) \/ SecretsItem(w) \/ CliOperation(w)
      PROVE  Store!Next
  BY <1>1, RequestBegins, BeginRefines, RejectRefines
<1>2. CASE UNCHANGED vars
  BY <1>2 DEF vars, kvVars, history, Store!storeVars, RequestOf, WritesLeft
<1>3. QED
  BY <1>1, <1>2, RejectRefines, ExecRefines, RecvRefines, FaultRefines, OrphanRefines,
     NamespaceRefines DEF Next

\* The handlers and the CLI implement the store of secrets: whatever numbers of
\* workers, requests and faults and whatever names without a slash and values
\* there are, a request takes effect at one instant between its call and a
\* positive answer, and only a fault lets an effect come with a negative answer,
\* twice or late.
THEOREM SecretsImplementStore ==
  ASSUME SingleSegments
  PROVE  Spec => ImplementsStore
<1>1. Init => Store!Init /\ EffectInv
  BY DEF Init, KvInit, Idle, SecretOps, Store!Init, Store!NoReq, RequestOf, WritesLeft,
         EffectInv, EffectOK, OrphansOK
<1>2. TypeInv /\ TypeInv' /\ EffectInv /\ [Next]_vars => EffectInv'
  BY EffectStep
<1>3. TypeInv /\ EffectInv /\ [Next]_vars => [Store!Next]_(Store!storeVars)
  BY StepRefines
<1>4. QED
  BY <1>1, <1>2, <1>3, TypeInvariant, PTL DEF Spec, ImplementsStore, Store!Spec

-----------------------------------------------------------------------------
(***************************************************************************)
(* Only secrets somebody asked to delete go: a deletion under way, and one *)
(* left behind, names a secret that was asked for.                         *)
(***************************************************************************)
NamedInv ==
  /\ \A w \in Workers : Busy(w) /\ job[w].op = "delete" => job[w].at \in asked
  /\ \A c \in orphans : c.kind = "delete" => c.to \in asked

\* One step of the server, a worker, a fault or a namespace keeps it so.
LEMMA NamedStep ==
  ASSUME SingleSegments, TypeInv, EffectInv, NamedInv, [Next]_vars
  PROVE  NamedInv'
<1>1. ASSUME NEW w \in Workers, Reject(w)
      PROVE  NamedInv'
  <2>1. /\ job' = [job EXCEPT ![w] = [Idle EXCEPT !.status = "rejected"]]
        /\ UNCHANGED <<asked, orphans>>
    BY <1>1 DEF Reject, Sent, history
  <2>2. [Idle EXCEPT !.status = "rejected"].phase = "idle"
    BY DEF Idle
  <2>3. QED
    BY <2>1, <2>2 DEF NamedInv, Busy, TypeInv, TypeOK
<1>2. ASSUME NEW w \in Workers, SecretsCollection(w) \/ SecretsItem(w) \/ CliOperation(w)
      PROVE  NamedInv'
  <2>1. ASSUME NEW op \in SecretOps \cup {"enable"}, NEW at \in Slots, NEW to \in Places,
               NEW v \in Values, NEW phase \in {"mounts", "call"},
               Begins(w, op, at, to, v, phase)
        PROVE  NamedInv'
    <3>1. job'[w].op = op /\ job'[w].at = at
      BY <2>1 DEF Begins, Begin, Idle, TypeInv, TypeOK
    <3>2. \A u \in Workers \ {w} : job'[u] = job[u]
      BY <2>1 DEF Begins, Begin, TypeInv, TypeOK
    <3>3. /\ asked' = IF op = "delete" THEN asked \cup {at} ELSE asked
          /\ orphans' = orphans
      BY <2>1 DEF Begins, Begin, Sent
    <3>4. QED
      BY <3>1, <3>2, <3>3 DEF NamedInv, Busy
  <2>2. QED
    BY <1>1, <1>2, <2>1, RequestBegins
<1>3. ASSUME NEW w \in Workers, NEW a, Busy(w), Handle(w, a)
      PROVE  /\ asked' = asked
             /\ \A u \in Workers : Busy(u)' /\ job'[u].op = "delete" => job'[u].at \in asked
  <2>1. job[w] \in GoodJobs
    BY DEF TypeInv, TypeOK, AnswerFits, GoodJobs, Busy
  <2>2. job' = [job EXCEPT ![w] = Handled(job[w], a)] /\ asked' = asked
    BY <1>3 DEF Handle, history, TypeInv, TypeOK
  <2>3. Handled(job[w], a).op = job[w].op /\ Handled(job[w], a).at = job[w].at
    BY <1>3, <2>1, HandledCases DEF Busy
  <2>4. QED
    BY <1>3, <2>2, <2>3 DEF NamedInv, Busy, TypeInv, TypeOK
<1>4. ASSUME NEW w \in Workers, Busy(w), NEW c \in Abandoned(w), c.kind = "delete"
      PROVE  c.to \in asked
  BY <1>4, LeftBehind DEF NamedInv
<1>5. ASSUME NEW w \in Workers, Recv(w)
      PROVE  NamedInv'
  <2>1. Busy(w) /\ Handle(w, ans[w]) /\ UNCHANGED orphans
    BY <1>5 DEF Recv, TypeInv, AnswerFits
  <2>2. QED
    BY <1>3, <2>1 DEF NamedInv
<1>6. ASSUME NEW w \in Workers, Timeout(w) \/ Garble(w)
      PROVE  NamedInv'
  <2>1. PICK a : Handle(w, a)
    BY <1>6 DEF Timeout, Garble
  <2>2. Busy(w) /\ orphans' \subseteq orphans \cup Abandoned(w)
    BY <1>6 DEF Timeout, Garble, Fault
  <2>3. QED
    BY <1>3, <1>4, <2>1, <2>2 DEF NamedInv
<1>7. ASSUME NEW w \in Workers, Retry(w) \/ Crash(w)
      PROVE  NamedInv'
  <2>1. Busy(w) /\ orphans' = orphans \cup Abandoned(w) /\ asked' = asked
    BY <1>7 DEF Retry, Crash, Fault, history
  <2>2. \A u \in Workers : Busy(u)' => job'[u] = job[u]
    BY <1>7 DEF Retry, Crash, Busy, Idle, TypeInv, TypeOK
  <2>3. QED
    BY <1>4, <2>1, <2>2 DEF NamedInv, Busy
<1>8. ASSUME NEW w \in Workers, Exec(w)
      PROVE  NamedInv'
  BY <1>8 DEF Exec, NamedInv, Busy
<1>9. ASSUME NEW c \in orphans, ExecOrphan(c)
      PROVE  NamedInv'
  BY <1>9 DEF ExecOrphan, NamedInv, Busy, history
<1>10. ASSUME NEW n \in Namespaces, NamespaceChanges(n)
       PROVE  NamedInv'
  BY <1>10 DEF NamespaceChanges, NamedInv, Busy
<1>11. CASE UNCHANGED vars
  BY <1>11 DEF vars, history, NamedInv, Busy
<1>12. QED
  BY <1>1, <1>2, <1>5, <1>6, <1>7, <1>8, <1>9, <1>10, <1>11 DEF Next

\* A call makes a secret disappear only if it is a deletion of that secret.
LEMMA ServeDeletes ==
  ASSUME TypeInv, NEW c \in Calls, Serve(c), NEW s \in Slots,
         secret[s] # Absent, secret'[s] = Absent
  PROVE  c.kind = "delete" /\ c.to = s
<1>1. Apply(c) /\ c.val # Absent
  BY ValuesAssumption DEF Serve, Calls, ValuesAssumption
<1>2. ASSUME NEW v, Write(c.to, v)
      PROVE  s = c.to /\ v = Absent
  BY <1>2 DEF Write
<1>3. QED
  BY <1>1, <1>2 DEF Apply

\* The secrets that a step makes disappear.
Goes(s) == secret[s] # Absent /\ secret'[s] = Absent

LEMMA OnlyNamedStep ==
  ASSUME TypeInv, EffectInv, NamedInv, [Next]_vars, NEW s \in Slots, Goes(s)
  PROVE  s \in asked \/ s.ns \notin live'
<1>1. secret[s] # Absent /\ secret'[s] = Absent
  BY DEF Goes
<1>2. secret' # secret
  BY <1>1
<1>3. ASSUME NEW w \in Workers, Exec(w)
      PROVE  s \in asked
  <2>1. job[w] \in GoodJobs /\ Busy(w)
    BY <1>3 DEF Exec, TypeInv, TypeOK, AnswerFits, GoodJobs, Busy
  <2>2. CallOf(job[w]).kind = "delete" /\ CallOf(job[w]).to = s
    BY <1>1, <1>3, <2>1, CallType, ServeDeletes DEF Exec, Busy
  <2>3. job[w].op = "delete" /\ job[w].to = s /\ job[w].phase = "call"
    BY <2>1, <2>2 DEF CallOf, GoodJobs, Jobs
  <2>4. job[w].to = job[w].at
    BY <2>1, <2>3 DEF EffectInv, EffectOK, SecretOps, Busy
  <2>5. QED
    BY <2>1, <2>3, <2>4 DEF NamedInv
<1>4. ASSUME NEW c \in orphans, ExecOrphan(c)
      PROVE  s \in asked
  BY <1>1, <1>4, ServeDeletes DEF ExecOrphan, NamedInv, TypeInv, TypeOK
<1>5. ASSUME NEW n \in Namespaces, NamespaceChanges(n)
      PROVE  s.ns \notin live'
  BY <1>1, <1>5 DEF NamespaceChanges, NamespaceComes, NamespaceGoes
<1>6. ASSUME NEW w \in Workers, SecretsCollection(w) \/ SecretsItem(w) \/ CliOperation(w)
      PROVE  secret' = secret
  <2>1. \/ Reject(w)
        \/ \E op, at, to, v, phase : Begin(w, op, at, to, v, phase)
    BY <1>6, RequestBegins DEF Begins
  <2>2. QED
    BY <2>1 DEF Reject, Begin, Sent, kvVars
<1>7. \A w \in Workers : Reject(w) \/ Recv(w) \/ Timeout(w) \/ Retry(w) \/ Garble(w) \/ Crash(w)
        => secret' = secret
  BY DEF Reject, Sent, Recv, Timeout, Retry, Garble, Crash, Handle, kvVars
<1>8. UNCHANGED vars => secret' = secret
  BY DEF vars, kvVars
<1>9. QED
  BY <1>2, <1>3, <1>4, <1>5, <1>6, <1>7, <1>8 DEF Next

\* Names without a slash reach the handlers as the client means them: whoever
\* runs and whatever is lost, a secret disappears only if someone asked to delete
\* that secret, or with its namespace.
THEOREM OnlyNamedDisappear ==
  ASSUME SingleSegments
  PROVE  Spec => OnlyNamedSecretsGo
<1>1. Init => EffectInv /\ NamedInv
  BY DEF Init, KvInit, Idle, SecretOps, EffectInv, EffectOK, OrphansOK, NamedInv, Busy
<1>2. TypeInv /\ TypeInv' /\ EffectInv /\ NamedInv /\ [Next]_vars => EffectInv' /\ NamedInv'
  BY EffectStep, NamedStep
<1>3. TypeInv /\ EffectInv /\ NamedInv /\ [Next]_vars
        => [\A s \in Slots : secret[s] # Absent /\ secret'[s] = Absent
              => s \in asked \/ s.ns \notin live']_vars
  BY OnlyNamedStep DEF Goes
<1>4. QED
  BY <1>1, <1>2, <1>3, TypeInvariant, PTL DEF Spec, OnlyNamedSecretsGo
=============================================================================
