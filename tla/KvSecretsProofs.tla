--------------------------- MODULE KvSecretsProofs ---------------------------
(***************************************************************************)
(* What holds of KvSecrets for any number of workers, namespaces, names,   *)
(* values, requests and faults.                                            *)
(***************************************************************************)
EXTENDS KvSecrets, SequenceTheorems, TLAPS

-----------------------------------------------------------------------------
(***************************************************************************)
(* Type correctness.  TypeOK is not inductive: what a read hands on is the *)
(* body of an answer, so an answer has to fit the call it answers.         *)
(***************************************************************************)
\* Of worker w: an answer waits for a busy worker only, and is of the kind its
\* call asks for.  Only secret operations get as far as their own call, and what
\* a client means is a slot.
AnswerFits(w) ==
  LET j == job[w]
      a == ans[w]
  IN  /\ ~Busy(w) => a = Pending
      /\ j.phase = "call" => j.op \in SecretOps
      /\ j.op # "none" => j.at \in Slots
      /\ j.phase = "call" /\ j.op = "read" /\ a.st = "ok" => a.body \in Values \cup {Absent}

TypeInv == TypeOK /\ \A w \in Workers : AnswerFits(w)

GoodJobs == {j \in Jobs : /\ j.phase # "idle" <=> j.op # "none" /\ j.status = "none"
                          /\ j.phase = "call" => j.op \in SecretOps
                          /\ j.op # "none" => j.at \in Slots}

\* A slot is a place.
LEMMA SlotsArePlaces == Slots \subseteq Places
<1>1. \A n \in Seq(STRING \ {""}) : n \in Seq(STRING)
  BY SeqMonotonic
<1>2. Namespaces \subseteq Seq(STRING) /\ SecretNames \subseteq Seq(STRING)
  BY <1>1, NamesAssumption DEF NamesAssumption
<1>3. QED
  BY <1>2 DEF Slots, Places

\* One segment is a path.
LEMMA OneSegment ==
  ASSUME NEW S, NEW e \in S
  PROVE  <<e>> \in Seq(S) /\ Len(<<e>>) = 1
OBVIOUS

\* Parts 0 and 1 of main.go, when there are that many.
LEMMA TwoParts ==
  ASSUME NEW k \in Nat, ~(k < 2)
  PROVE  1 \in 1..k /\ 2 \in 1..k /\ 2 \in 2..k
OBVIOUS

\* The two parts of a path of which only the first segment may be empty.
LEMMA PartsType ==
  ASSUME NEW q \in Seq(STRING \cup {""}), \A i \in 2..Len(q) : q[i] \in STRING
  PROVE  ItemTarget(q) \in Places
<1>1. <<>> \in Seq(STRING)
  BY EmptySeq
<1>2. CASE Len(q) < 2
  BY <1>1, <1>2 DEF ItemTarget, NoTarget, Places
<1>3. CASE ~(Len(q) < 2)
  <2>1. Len(q) \in Nat
    BY LenProperties
  <2>2. 1 \in 1..Len(q) /\ 2 \in 2..Len(q)
    BY <1>3, <2>1, TwoParts
  <2>3. q[1] \in STRING \cup {""} /\ q[2] \in STRING
    BY <2>2, ElementOfSeq
  <2>4. (q[1] \in STRING => <<q[1]>> \in Seq(STRING)) /\ <<q[2]>> \in Seq(STRING)
    BY <2>3, OneSegment
  <2>5. QED
    BY <1>1, <1>3, <2>3, <2>4 DEF ItemTarget, Places, Root
<1>4. QED
  BY <1>2, <1>3

\* What the handler takes a path apart into is a place: of the path that names a
\* slot only the first segment can be empty, and that one stands for the root.
LEMMA TargetType ==
  ASSUME NEW s \in Slots, NEW escaped \in BOOLEAN
  PROVE  ItemTarget(Cleaned(ItemPath(s.ns, s.name), escaped)) \in Places
<1> DEFINE T == STRING \cup {""}
           first == IF s.ns = Root THEN <<"">> ELSE s.ns
           p == ItemPath(s.ns, s.name)
           q == Cleaned(p, escaped)
<1>1. s.ns \in Seq(STRING) /\ s.name \in Seq(STRING) /\ s.name # <<>>
  BY SlotsArePlaces, NamesAssumption DEF NamesAssumption, Places, Slots
<1>2. p \in Seq(T) /\ p # <<>> /\ \A i \in 2..Len(p) : p[i] \in STRING
  <2>1. <<"">> \in Seq(T) /\ Len(<<"">>) = 1
    BY OneSegment
  <2>2. s.ns \in Seq(T) /\ s.name \in Seq(T)
    BY <1>1, SeqMonotonic
  <2>3. first \in Seq(T)
    BY <2>1, <2>2
  <2>4. \A i \in 1..Len(first) : i >= 2 => first[i] \in STRING
    <3>1. CASE s.ns = Root
      <4>1. Len(first) = 1
        BY <2>1, <3>1
      <4> HIDE DEF first
      <4>2. QED
        BY <4>1
    <3>2. CASE s.ns # Root
      BY <1>1, <3>2, ElementOfSeq
    <3>3. QED
      BY <3>1, <3>2
  <2>5. p = first \o s.name
    BY DEF ItemPath
  <2> HIDE DEF first, p, T
  <2>6. /\ p \in Seq(T) /\ Len(p) = Len(first) + Len(s.name)
        /\ \A i \in 1..Len(first) + Len(s.name) :
             p[i] = IF i <= Len(first) THEN first[i] ELSE s.name[i - Len(first)]
    BY <2>2, <2>3, <2>5, ConcatProperties
  <2>7. p # <<>>
    BY <1>1, <2>2, <2>3, <2>5, ConcatEqualIffEmpty
  <2>8. Len(first) \in Nat /\ Len(s.name) \in Nat
    BY <2>2, <2>3, LenProperties
  <2>9. \A i \in 1..Len(s.name) : s.name[i] \in STRING
    BY <1>1, ElementOfSeq
  <2>10. ASSUME NEW i \in 2..Len(p)
         PROVE  p[i] \in STRING
    <3>1. CASE i <= Len(first)
      BY <2>4, <2>6, <2>8, <3>1
    <3>2. CASE ~(i <= Len(first))
      <4>1. i - Len(first) \in 1..Len(s.name)
        BY <2>6, <2>8, <3>2
      <4>2. p[i] = s.name[i - Len(first)]
        BY <2>6, <2>8, <3>2
      <4>3. QED
        BY <2>9, <4>1, <4>2
    <3>3. QED
      BY <3>1, <3>2
  <2>11. QED
    BY <2>6, <2>7, <2>10
<1>3. q \in Seq(T) /\ \A i \in 2..Len(q) : q[i] \in STRING
  <2> HIDE DEF p, T
  <2>1. /\ Tail(p) \in Seq(T) /\ Len(Tail(p)) = Len(p) - 1
        /\ \A i \in 1..Len(Tail(p)) : Tail(p)[i] = p[i + 1]
    BY <1>2, HeadTailProperties
  <2>2. Len(p) \in Nat
    BY <1>2, LenProperties
  <2>3. \A i \in 2..Len(Tail(p)) : Tail(p)[i] \in STRING
    BY <1>2, <2>1, <2>2
  <2>4. q \in {p, Tail(p)}
    BY DEF Cleaned
  <2>5. QED
    BY <1>2, <2>1, <2>3, <2>4
<1>4. QED
  BY <1>3, PartsType

\* Every way to go on from an answer that fits leads to a good job.
LEMMA HandledType ==
  ASSUME NEW j \in GoodJobs, j.phase # "idle", NEW a \in Answers,
         j.phase = "call" /\ j.op = "read" /\ a.st = "ok" => a.body \in Values \cup {Absent}
  PROVE  Handled(j, a) \in GoodJobs
<1>1. \A st \in {"ok", "gateway"} : Reply(j, st) \in GoodJobs
  BY DEF Reply, GoodJobs, Jobs
<1>2. /\ j.op # "enable" => [j EXCEPT !.phase = "call"] \in GoodJobs
      /\ [j EXCEPT !.phase = "enable"] \in GoodJobs
  BY DEF GoodJobs, Jobs, SecretOps
<1>3. MountFailed(j) \in GoodJobs /\ EngineReady(j) \in GoodJobs
  BY <1>1, <1>2 DEF MountFailed, EngineReady
<1>4. MountsAnswered(j, a) \in GoodJobs /\ EnableAnswered(j, a) \in GoodJobs
  BY <1>2, <1>3 DEF MountsAnswered, EnableAnswered
<1>5. PutAnswered(j, a) \in GoodJobs /\ DeleteAnswered(j, a) \in GoodJobs
  BY <1>1 DEF PutAnswered, DeleteAnswered
<1>6. j.phase = "call" /\ j.op = "read" => GetAnswered(j, a) \in GoodJobs
  <2>1. ASSUME NEW v \in Values \cup {Absent}
        PROVE  [Reply(j, "ok") EXCEPT !.got = v] \in GoodJobs
    BY <1>1 DEF GoodJobs, Jobs
  <2>2. QED
    BY <1>1, <2>1 DEF GetAnswered
<1>7. CASE j.phase \in {"mounts", "enable"}
  BY <1>4, <1>7 DEF Handled
<1>8. CASE j.phase = "call"
  <2>1. j.op \in SecretOps
    BY <1>8 DEF GoodJobs
  <2>2. QED
    BY <1>5, <1>6, <1>8, <2>1 DEF Handled, SecretOps
<1>9. QED
  BY <1>7, <1>8 DEF GoodJobs, Jobs

\* The call a worker sends is a call, and so is every one it leaves behind.
LEMMA CallType ==
  ASSUME NEW j \in GoodJobs, j.phase # "idle"
  PROVE  CallOf(j) \in Calls
BY DEF CallOf, Calls, Kinds, GoodJobs, Jobs, SecretOps

\* The server keeps its state well typed.
LEMMA ServeType ==
  ASSUME KvTypeOK, NEW c \in Calls, Serve(c)
  PROVE  KvTypeOK'
<1>1. CASE UNCHANGED <<kv, secret>>
  BY <1>1 DEF Serve, KvTypeOK
<1>2. CASE Accepts(c) /\ c.kind = "enable" /\ kv' = kv \cup {c.to.ns} /\ UNCHANGED secret
  BY <1>2 DEF Serve, KvTypeOK, Accepts
<1>3. ASSUME NEW v \in Values \cup {Absent}, Write(c.to, v), UNCHANGED kv
      PROVE  KvTypeOK'
  BY <1>3 DEF Serve, KvTypeOK, Write
<1>4. c.val \in Values
  BY DEF Calls
<1>5. QED
  BY <1>1, <1>2, <1>3, <1>4 DEF Serve, Apply

\* What it answers to an accepted call is an answer, and fits the call.
LEMMA AnswerType ==
  ASSUME KvTypeOK, NEW c \in Calls, Accepts(c)
  PROVE  /\ [st |-> "ok", body |-> Body(c)] \in Answers
         /\ c.kind = "read" => c.to \in Slots /\ Body(c) = secret[c.to] /\ Body(c) \in Values
<1>1. c.kind = "read" => c.to \in Slots /\ Body(c) = secret[c.to] /\ Body(c) \in Values
  BY DEF Accepts, Body, KvTypeOK
<1>2. c.kind # "read" => Body(c) \in Values \cup {"mounted", "unmounted"}
  BY ValuesAssumption DEF Body, ValuesAssumption
<1>3. QED
  BY <1>1, <1>2 DEF Answers

\* A request that is rejected at once, or dies with its process, leaves a good job.
LEMMA IdleType ==
  ASSUME NEW st \in {"none", "rejected"}
  PROVE  [Idle EXCEPT !.status = st] \in GoodJobs /\ Idle \in GoodJobs
<1>1. NoTarget \in Places
  BY EmptySeq DEF NoTarget, Places
<1>2. QED
  BY <1>1, ValuesAssumption DEF Idle, GoodJobs, Jobs, SecretOps, ValuesAssumption

\* A request begins with a good job.
LEMMA BeginType ==
  ASSUME TypeInv, NEW w \in Workers, NEW op \in SecretOps \cup {"enable"},
         NEW at \in Slots, NEW to \in Places, NEW v \in Values,
         NEW phase \in {"mounts", "call"}, phase = "call" => op \in SecretOps,
         Begin(w, op, at, to, v, phase)
  PROVE  TypeInv'
<1> DEFINE j == [Idle EXCEPT !.op = op, !.at = at, !.to = to, !.val = v, !.phase = phase]
<1>1. /\ j \in Jobs
      /\ j.op = op /\ j.at = at /\ j.to = to /\ j.val = v /\ j.phase = phase
      /\ j.status = "none" /\ j.got = Absent
  <2>1. Idle \in Jobs /\ Idle.status = "none" /\ Idle.got = Absent /\ at \in Places
    BY IdleType, SlotsArePlaces DEF GoodJobs, Idle
  <2>2. QED
    BY <2>1 DEF Jobs, SecretOps
<1>2. j \in GoodJobs
  BY <1>1 DEF GoodJobs, SecretOps
<1>3. job' = [job EXCEPT ![w] = j] /\ ans' = ans /\ ans[w] = Pending
  BY DEF Begin, Sent, TypeInv, AnswerFits
<1>4. KvTypeOK' /\ orphans' \subseteq Calls /\ reqs' \in 0..MaxRequests /\ faults' \in 0..MaxFaults
  BY BoundAssumption DEF Begin, Sent, TypeInv, TypeOK, KvTypeOK, kvVars, BoundAssumption
<1>5. /\ took' \in [Workers -> BOOLEAN] /\ kept' \in [Workers -> BOOLEAN]
      /\ saw' \in [Workers -> Values \cup {Absent}] /\ asked' \subseteq Slots
  BY DEF Begin, TypeInv, TypeOK
<1>6. /\ job' \in [Workers -> Jobs] /\ ans' \in [Workers -> Answers]
      /\ \A u \in Workers : job'[u].phase # "idle" <=> job'[u].op # "none" /\ job'[u].status = "none"
  BY <1>2, <1>3 DEF TypeInv, TypeOK, Busy, GoodJobs
<1>7. \A u \in Workers : AnswerFits(u)'
  BY <1>1, <1>3 DEF TypeInv, TypeOK, AnswerFits, Busy, Pending
<1>8. QED
  BY <1>4, <1>5, <1>6, <1>7 DEF TypeInv, TypeOK, Busy

\* What a worker does with an answer that fits keeps the types.
LEMMA HandleType ==
  ASSUME TypeInv, NEW w \in Workers, NEW a \in Answers, Busy(w), Handle(w, a),
         job[w].phase = "call" /\ job[w].op = "read" /\ a.st = "ok"
           => a.body \in Values \cup {Absent}
  PROVE  /\ KvTypeOK'
         /\ job' \in [Workers -> GoodJobs]
         /\ ans' \in [Workers -> Answers]
         /\ \A u \in Workers : AnswerFits(u)'
         /\ UNCHANGED <<reqs, history>>
<1>1. \A u \in Workers : job[u] \in GoodJobs
  BY DEF TypeInv, TypeOK, AnswerFits, GoodJobs, Busy
<1>2. Handled(job[w], a) \in GoodJobs
  BY <1>1, HandledType DEF Busy
<1>3. /\ job' = [job EXCEPT ![w] = Handled(job[w], a)]
      /\ ans' = [ans EXCEPT ![w] = Pending]
      /\ UNCHANGED <<kvVars, reqs, history>>
  BY DEF Handle, TypeInv, TypeOK
<1>4. Pending \in Answers /\ Pending.st # "ok"
  BY DEF Pending, Answers
<1>5. job' \in [Workers -> GoodJobs] /\ ans' \in [Workers -> Answers]
  BY <1>1, <1>2, <1>3, <1>4 DEF TypeInv, TypeOK
<1>6. KvTypeOK'
  BY <1>3 DEF TypeInv, TypeOK, KvTypeOK, kvVars
<1>7. \A u \in Workers : AnswerFits(u)'
  <2>1. \A u \in Workers : u # w => job'[u] = job[u] /\ ans'[u] = ans[u]
    BY <1>3 DEF TypeInv, TypeOK
  <2>2. ans'[w] = Pending
    BY <1>3 DEF TypeInv, TypeOK
  <2>3. job'[w] \in GoodJobs
    BY <1>5
  <2>4. QED
    BY <1>4, <2>1, <2>2, <2>3 DEF TypeInv, AnswerFits, Busy, GoodJobs
<1>8. QED
  BY <1>3, <1>5, <1>6, <1>7

\* What a request begins with, whichever way it comes.
Begins(w, op, at, to, v, phase) ==
  /\ phase = "call" => op \in SecretOps
  /\ \/ to = at
     \/ \E escaped \in BOOLEAN : to = ItemTarget(Cleaned(ItemPath(at.ns, at.name), escaped))
                                 /\ to # NoTarget
  /\ Begin(w, op, at, to, v, phase)

LEMMA RequestBegins ==
  ASSUME NEW w \in Workers, SecretsCollection(w) \/ SecretsItem(w) \/ CliOperation(w)
  PROVE  \/ Reject(w)
         \/ \E op \in SecretOps \cup {"enable"}, at \in Slots, to \in Places, v \in Values,
               phase \in {"mounts", "call"} : Begins(w, op, at, to, v, phase)
<1>1. Empty \in Values /\ \A s \in Slots : s \in Places
  BY ValuesAssumption, SlotsArePlaces DEF ValuesAssumption
<1>2. CASE SecretsCollection(w)
  BY <1>1, <1>2 DEF SecretsCollection, Begins, SecretOps
<1>3. CASE SecretsItem(w)
  <2>1. PICK s \in Slots, escaped \in BOOLEAN, follows \in BOOLEAN :
          LET path   == ItemPath(s.ns, s.name)
              target == ItemTarget(Cleaned(path, escaped))
          IN  IF target = NoTarget \/ (Redirected(path, escaped) /\ ~follows)
                THEN Reject(w)
                ELSE Begin(w, "delete", s, target, Empty, "mounts")
    BY <1>3 DEF SecretsItem
  <2> DEFINE target == ItemTarget(Cleaned(ItemPath(s.ns, s.name), escaped))
  <2>2. target \in Places
    BY TargetType
  <2>3. ~Reject(w) => /\ target # NoTarget
                      /\ Begin(w, "delete", s, target, Empty, "mounts")
    BY <2>1
  <2>4. ~Reject(w) => Begins(w, "delete", s, target, Empty, "mounts")
    BY <2>3 DEF Begins
  <2>5. QED
    BY <1>1, <2>2, <2>4 DEF SecretOps
<1>4. CASE CliOperation(w)
  BY <1>1, <1>4 DEF CliOperation, Begins, SecretOps
<1>5. QED
  BY <1>2, <1>3, <1>4

\* What is left in flight are calls.
LEMMA AbandonedType ==
  ASSUME TypeInv, NEW w \in Workers, Busy(w)
  PROVE  Abandoned(w) \subseteq Calls
<1>1. job[w] \in GoodJobs
  BY DEF TypeInv, TypeOK, AnswerFits, GoodJobs, Busy
<1>2. QED
  BY <1>1, CallType DEF Abandoned, Busy

\* One step of the server, a worker, a fault or a namespace keeps the types.
LEMMA TypeStep ==
  ASSUME TypeInv, [Next]_vars
  PROVE  TypeInv'
<1>1. \A w \in Workers : job[w] \in GoodJobs
  BY DEF TypeInv, TypeOK, AnswerFits, GoodJobs, Busy
<1>2. Pending \in Answers /\ Failure \in Answers /\ Failure.st # "ok" /\ Pending.st # "ok"
  BY DEF Pending, Failure, Answers
<1>3. ASSUME NEW w \in Workers, Reject(w)
      PROVE  TypeInv'
  <2>1. job' = [job EXCEPT ![w] = [Idle EXCEPT !.status = "rejected"]] /\ ans' = ans
    BY <1>3 DEF Reject, Sent
  <2>2. ans[w] = Pending
    BY <1>3 DEF Reject, TypeInv, AnswerFits
  <2>3. job' \in [Workers -> GoodJobs]
    BY <1>1, <2>1, IdleType DEF TypeInv, TypeOK
  <2>4. \A u \in Workers : AnswerFits(u)'
    <3>1. \A u \in Workers : u # w => job'[u] = job[u]
      BY <2>1 DEF TypeInv, TypeOK
    <3>2. job'[w] \in GoodJobs /\ ans'[w] = Pending /\ ans' = ans
      BY <2>1, <2>2, <2>3
    <3>3. QED
      BY <1>2, <3>1, <3>2 DEF TypeInv, AnswerFits, Busy, GoodJobs
  <2>5. KvTypeOK' /\ reqs' \in 0..MaxRequests /\ UNCHANGED <<ans, orphans, faults, history>>
    BY <1>3, BoundAssumption
       DEF Reject, Sent, TypeInv, TypeOK, KvTypeOK, kvVars, BoundAssumption
  <2>6. QED
    BY <2>3, <2>4, <2>5 DEF TypeInv, TypeOK, GoodJobs, Busy, history
<1>4. ASSUME NEW w \in Workers, SecretsCollection(w) \/ SecretsItem(w) \/ CliOperation(w)
      PROVE  TypeInv'
  BY <1>3, <1>4, RequestBegins, BeginType DEF Begins
<1>5. ASSUME NEW w \in Workers, Exec(w)
      PROVE  TypeInv'
  <2> DEFINE c == CallOf(job[w])
  <2>1. c \in Calls
    BY <1>1, <1>5, CallType DEF Exec, Busy
  <2>2. KvTypeOK'
    BY <1>5, <2>1, ServeType DEF Exec, TypeInv, TypeOK
  <2>3. /\ ans' = [ans EXCEPT ![w] = IF Accepts(c) THEN [st |-> "ok", body |-> Body(c)]
                                                   ELSE Failure]
        /\ UNCHANGED <<job, orphans, reqs, faults, kept, asked>>
    BY <1>5 DEF Exec
  <2>4. ans' \in [Workers -> Answers]
    BY <1>2, <2>1, <2>3, AnswerType DEF TypeInv, TypeOK
  <2>5. \A u \in Workers : AnswerFits(u)'
    <3>1. AnswerFits(w)'
      <4>1. job[w].phase = "call" /\ job[w].op = "read" => c.kind = "read"
        BY DEF CallOf
      <4>2. ans'[w].st = "ok" /\ c.kind = "read" => ans'[w].body \in Values
        BY <1>2, <2>1, <2>3, AnswerType DEF TypeInv, TypeOK
      <4>3. job' = job /\ Busy(w)
        BY <1>5 DEF Exec
      <4>4. QED
        BY <4>1, <4>2, <4>3 DEF TypeInv, AnswerFits, Busy
    <3>2. QED
      BY <2>3, <3>1 DEF TypeInv, TypeOK, AnswerFits, Busy
  <2>6. took' \in [Workers -> BOOLEAN] /\ saw' \in [Workers -> Values \cup {Absent}]
    <3>1. Accepts(c) /\ job[w].phase = "call" =>
            /\ took' = [took EXCEPT ![w] = TRUE]
            /\ saw' = [saw EXCEPT ![w] = secret[job[w].at]]
      BY <1>5 DEF Exec
    <3>2. job[w].phase = "call" => job[w].at \in Slots
      BY <1>1 DEF GoodJobs, SecretOps
    <3>3. ~(Accepts(c) /\ job[w].phase = "call") => UNCHANGED <<took, saw>>
      BY <1>5 DEF Exec
    <3>4. QED
      BY <3>1, <3>2, <3>3 DEF TypeInv, TypeOK, KvTypeOK
  <2>7. QED
    BY <2>2, <2>3, <2>4, <2>5, <2>6 DEF TypeInv, TypeOK, Busy
<1>6. ASSUME NEW w \in Workers, Recv(w)
      PROVE  TypeInv'
  <2>1. Busy(w) /\ ans[w] \in Answers
    BY <1>6 DEF Recv, TypeInv, TypeOK, AnswerFits
  <2>2. job[w].phase = "call" /\ job[w].op = "read" /\ ans[w].st = "ok"
          => ans[w].body \in Values \cup {Absent}
    BY DEF TypeInv, AnswerFits
  <2>3. QED
    BY <1>6, <2>1, <2>2, HandleType DEF Recv, TypeInv, TypeOK, GoodJobs, Busy, history
<1>7. ASSUME NEW w \in Workers, Fault(w)
      PROVE  faults' \in 0..MaxFaults /\ Busy(w) /\ Abandoned(w) \subseteq Calls
  BY <1>7, AbandonedType, BoundAssumption DEF Fault, TypeInv, TypeOK, BoundAssumption
<1>8. ASSUME NEW w \in Workers, Timeout(w)
      PROVE  TypeInv'
  BY <1>2, <1>7, <1>8, HandleType DEF Timeout, TypeInv, TypeOK, GoodJobs, Busy, history
<1>9. ASSUME NEW w \in Workers, Garble(w)
      PROVE  TypeInv'
  <2> DEFINE a == [st |-> "ok",
                   body |-> IF job[w].phase = "mounts" THEN "unmounted" ELSE Empty]
  <2>1. a \in Answers /\ (job[w].phase = "call" => a.body \in Values)
    BY ValuesAssumption DEF Answers, ValuesAssumption
  <2>2. Handle(w, a)
    BY <1>9 DEF Garble
  <2> HIDE DEF a
  <2>3. QED
    BY <1>7, <1>9, <2>1, <2>2, HandleType DEF Garble, TypeInv, TypeOK, GoodJobs, Busy, history
<1>10. ASSUME NEW w \in Workers, Retry(w)
       PROVE  TypeInv'
  BY <1>2, <1>7, <1>10 DEF Retry, TypeInv, TypeOK, KvTypeOK, AnswerFits, Busy, kvVars, history
<1>11. ASSUME NEW w \in Workers, Crash(w)
       PROVE  TypeInv'
  <2>1. job' = [job EXCEPT ![w] = Idle] /\ ans' = [ans EXCEPT ![w] = Pending]
    BY <1>11 DEF Crash
  <2>2. job' \in [Workers -> GoodJobs] /\ ans' \in [Workers -> Answers]
    BY <1>1, <1>2, <2>1, IdleType DEF TypeInv, TypeOK
  <2>3. \A u \in Workers : AnswerFits(u)'
    <3>1. \A u \in Workers : u # w => job'[u] = job[u] /\ ans'[u] = ans[u]
      BY <2>1 DEF TypeInv, TypeOK
    <3>2. job'[w] \in GoodJobs /\ ans'[w] = Pending
      BY <2>1, <2>2 DEF TypeInv, TypeOK
    <3>3. QED
      BY <1>2, <3>1, <3>2 DEF TypeInv, AnswerFits, Busy, GoodJobs
  <2>4. KvTypeOK' /\ orphans' \subseteq Calls /\ UNCHANGED <<reqs, history>>
    BY <1>7, <1>11 DEF Crash, TypeInv, TypeOK, KvTypeOK, kvVars
  <2>5. faults' \in 0..MaxFaults
    BY <1>7, <1>11 DEF Crash
  <2>6. QED
    BY <2>2, <2>3, <2>4, <2>5 DEF TypeInv, TypeOK, GoodJobs, Busy, history
<1>12. ASSUME NEW c \in orphans, ExecOrphan(c)
       PROVE  TypeInv'
  <2>1. KvTypeOK'
    BY <1>12, ServeType DEF ExecOrphan, TypeInv, TypeOK
  <2>2. QED
    BY <1>12, <2>1 DEF ExecOrphan, TypeInv, TypeOK, AnswerFits, Busy, history
<1>13. ASSUME NEW n \in Namespaces, NamespaceChanges(n)
       PROVE  TypeInv'
  <2>1. KvTypeOK'
    BY <1>13 DEF NamespaceChanges, NamespaceComes, NamespaceGoes, TypeInv, TypeOK, KvTypeOK
  <2>2. kept' \in [Workers -> BOOLEAN]
    BY <1>13 DEF NamespaceChanges, TypeInv, TypeOK
  <2>3. QED
    BY <1>13, <2>1, <2>2 DEF NamespaceChanges, TypeInv, TypeOK, AnswerFits, Busy
<1>14. CASE UNCHANGED vars
  BY <1>14 DEF TypeInv, TypeOK, KvTypeOK, AnswerFits, Busy, vars, kvVars, history
<1>15. QED
  BY <1>3, <1>4, <1>5, <1>6, <1>8, <1>9, <1>10, <1>11, <1>12, <1>13, <1>14 DEF Next

\* The types, and that every answer fits its call, in every state reached.
LEMMA TypeInvariant == Spec => []TypeInv
<1>1. Init => TypeInv
  <2>1. Idle \in GoodJobs /\ Pending \in Answers /\ Pending.st # "ok"
    BY IdleType DEF Pending, Answers
  <2>2. QED
    BY <2>1, BoundAssumption
       DEF Init, KvInit, TypeInv, TypeOK, KvTypeOK, AnswerFits, GoodJobs, Busy,
           BoundAssumption
<1>2. TypeInv /\ [Next]_vars => TypeInv'
  BY TypeStep
<1>3. QED
  BY <1>1, <1>2, PTL DEF Spec

\* The variables have their types in every state the secrets half reaches,
\* whatever names, values and numbers of workers, requests and faults there are.
THEOREM TypeCorrect == Spec => []TypeOK
<1>1. TypeInv => TypeOK
  BY DEF TypeInv
<1>2. QED
  BY <1>1, TypeInvariant, PTL

-----------------------------------------------------------------------------
(***************************************************************************)
(* Deletions can be repeated.  DeleteRepeatable speaks of answered         *)
(* requests; the strengthening says what a deletion under way may rely on, *)
(* as long as nothing is lost and its namespace is there: the engine is    *)
(* mounted when the answer it has, or the phase it is in, says so.         *)
(***************************************************************************)
DeleteOK(w) ==
  LET j == job[w]
      a == ans[w]
  IN  j.op = "delete" /\ faults = 0 /\ kept[w] =>
        /\ j.status # "gateway"
        /\ j.phase # "idle" => j.to.ns \in live
        /\ j.phase = "mounts" =>
             a = Pending \/ (a.st = "ok" /\ (a.body = "mounted" => j.to.ns \in kv))
        /\ j.phase = "enable" => a = Pending \/ j.to.ns \in kv
        /\ j.phase = "call" => j.to.ns \in kv /\ (a = Pending \/ a.st = "ok")

DeleteInv == \A w \in Workers : DeleteOK(w)

\* A call mounts an engine or none; none goes, and no namespace does.
LEMMA ServeKeepsEngines ==
  ASSUME NEW c, Serve(c)
  PROVE  kv \subseteq kv' /\ live' = live
BY DEF Serve, Apply

\* A deletion goes on from an answer it may rely on.
LEMMA HandledDelete ==
  ASSUME NEW j \in GoodJobs, NEW a, j.op = "delete", j.status # "gateway",
         j.phase # "idle",
         j.phase = "mounts" => a.st = "ok" /\ (a.body = "mounted" => j.to.ns \in kv),
         j.phase = "enable" => j.to.ns \in kv,
         j.phase = "call" => j.to.ns \in kv /\ a.st = "ok"
  PROVE  LET i == Handled(j, a)
         IN  /\ i.op = "delete" /\ i.to = j.to /\ i.status # "gateway"
             /\ i.phase # "mounts"
             /\ i.phase = "call" => j.to.ns \in kv
<1> DEFINE i == Handled(j, a)
<1>1. /\ j.phase \in {"mounts", "enable", "call"} /\ j.op = "delete"
      /\ j \in Jobs
  BY DEF GoodJobs, Jobs
<1>2. CASE j.phase = "mounts"
  <2>1. i = [j EXCEPT !.phase = IF a.body = "mounted" THEN "call" ELSE "enable"]
    BY <1>1, <1>2 DEF Handled, MountsAnswered, EngineReady
  <2>2. QED
    BY <1>1, <1>2, <2>1 DEF Jobs
<1>3. CASE j.phase = "enable"
  <2>1. i = [j EXCEPT !.phase = "call"]
    BY <1>1, <1>3 DEF Handled, EnableAnswered, EngineReady, MountFailed
  <2>2. QED
    BY <1>1, <1>3, <2>1 DEF Jobs
<1>4. CASE j.phase = "call"
  <2>1. i = [j EXCEPT !.phase = "idle", !.status = "ok"]
    BY <1>1, <1>4 DEF Handled, DeleteAnswered, Reply
  <2>2. QED
    BY <1>1, <2>1 DEF Jobs
<1>5. QED
  BY <1>1, <1>2, <1>3, <1>4

\* One step of the server, a worker, a fault or a namespace keeps it so.
LEMMA DeleteStep ==
  ASSUME TypeInv, TypeInv', DeleteInv, [Next]_vars
  PROVE  DeleteInv'
<1>1. \A u \in Workers : job[u] \in GoodJobs
  BY DEF TypeInv, TypeOK, AnswerFits, GoodJobs, Busy
<1>2. ASSUME NEW w \in Workers, Reject(w)
      PROVE  DeleteInv'
  <2>1. /\ job' = [job EXCEPT ![w] = [Idle EXCEPT !.status = "rejected"]]
        /\ UNCHANGED <<ans, kept, live, kv, faults>>
    BY <1>2 DEF Reject, Sent, kvVars, history
  <2>2. [Idle EXCEPT !.status = "rejected"].op = "none"
    BY DEF Idle
  <2>3. QED
    BY <2>1, <2>2 DEF DeleteInv, DeleteOK, TypeInv, TypeOK
<1>3. ASSUME NEW w \in Workers, SecretsCollection(w) \/ SecretsItem(w) \/ CliOperation(w)
      PROVE  DeleteInv'
  <2>1. CASE Reject(w)
    BY <1>2, <2>1
  <2>2. ASSUME NEW op \in SecretOps \cup {"enable"}, NEW at \in Slots, NEW to \in Places,
               NEW v \in Values, NEW phase \in {"mounts", "call"},
               Begin(w, op, at, to, v, phase)
        PROVE  DeleteInv'
    <3>1. /\ job'[w].op = op /\ job'[w].to = to /\ job'[w].phase = phase
          /\ job'[w].status = "none" /\ ans'[w] = Pending
          /\ kept'[w] = (phase = "mounts" /\ to.ns \in live)
      BY <2>2 DEF Begin, Sent, Idle, TypeInv, TypeOK, AnswerFits
    <3>2. \A u \in Workers \ {w} : job'[u] = job[u] /\ kept'[u] = kept[u]
      BY <2>2 DEF Begin, TypeInv, TypeOK
    <3>3. UNCHANGED <<ans, live, kv, faults>>
      BY <2>2 DEF Begin, Sent, kvVars
    <3>4. DeleteOK(w)'
      BY <3>1, <3>3 DEF DeleteOK
    <3>5. ASSUME NEW u \in Workers \ {w}
          PROVE  DeleteOK(u)'
      BY <3>2, <3>3 DEF DeleteOK, DeleteInv
    <3>6. QED
      BY <3>4, <3>5 DEF DeleteInv
  <2>3. QED
    BY <1>3, <2>1, <2>2, RequestBegins DEF Begins
<1>4. ASSUME NEW w \in Workers, Exec(w)
      PROVE  DeleteInv'
  <2> DEFINE c == CallOf(job[w])
  <2>1. /\ kv \subseteq kv' /\ live' = live
        /\ UNCHANGED <<job, kept, faults>>
        /\ ans' = [ans EXCEPT ![w] = IF Accepts(c) THEN [st |-> "ok", body |-> Body(c)]
                                                   ELSE Failure]
    BY <1>4, ServeKeepsEngines DEF Exec
  <2>2. ASSUME job[w].op = "delete", faults = 0, kept[w]
        PROVE  DeleteOK(w)'
    <3>1. /\ job[w].phase \in {"mounts", "enable", "call"} /\ job[w].status # "gateway"
          /\ job[w].to.ns \in live /\ c.to = job[w].to
      BY <1>1, <1>4, <2>2 DEF Exec, Busy, DeleteInv, DeleteOK, GoodJobs, Jobs, CallOf
    <3>2. CASE job[w].phase = "mounts"
      <4>1. c.kind = "mounts" /\ Accepts(c)
        BY <3>1, <3>2 DEF CallOf, Accepts
      <4>2. ans'[w].st = "ok" /\ (ans'[w].body = "mounted" => c.to.ns \in kv)
        BY <2>1, <4>1 DEF Body, TypeInv, TypeOK
      <4>3. QED
        BY <2>1, <3>1, <3>2, <4>2 DEF DeleteOK
    <3>3. CASE job[w].phase = "enable"
      <4>1. c.kind = "enable"
        BY <3>3 DEF CallOf
      <4>2. c.to.ns \in kv'
        BY <1>4, <2>1, <3>1, <4>1 DEF Exec, Serve, Apply, Accepts
      <4>3. QED
        BY <2>1, <3>1, <3>3, <4>2 DEF DeleteOK
    <3>4. CASE job[w].phase = "call"
      <4>1. c.kind = "delete" /\ job[w].to.ns \in kv
        BY <2>2, <3>4 DEF CallOf, DeleteInv, DeleteOK
      <4>2. ans'[w].st = "ok"
        BY <2>1, <3>1, <4>1 DEF Accepts, TypeInv, TypeOK
      <4>3. QED
        BY <2>1, <3>1, <3>4, <4>1, <4>2 DEF DeleteOK
    <3>5. QED
      BY <3>1, <3>2, <3>3, <3>4
  <2>3. DeleteOK(w)'
    BY <2>1, <2>2 DEF DeleteOK
  <2>4. ASSUME NEW u \in Workers \ {w}
        PROVE  DeleteOK(u)'
    <3>1. ans'[u] = ans[u]
      BY <2>1 DEF TypeInv, TypeOK
    <3>2. QED
      BY <2>1, <3>1 DEF DeleteInv, DeleteOK
  <2>5. QED
    BY <2>3, <2>4 DEF DeleteInv
<1>5. ASSUME NEW w \in Workers, Recv(w)
      PROVE  DeleteInv'
  <2> DEFINE j == job[w]
  <2>1. /\ job' = [job EXCEPT ![w] = Handled(j, ans[w])]
        /\ ans' = [ans EXCEPT ![w] = Pending]
        /\ UNCHANGED <<live, kv, kept, faults>>
        /\ j.phase # "idle"
    BY <1>5 DEF Recv, Handle, kvVars, history, TypeInv, TypeOK, AnswerFits, Busy
  <2>2. DeleteOK(w)'
    <3>1. ASSUME job'[w].op = "delete", faults = 0, kept[w]
          PROVE  j.op = "delete"
      <4>1. j \in Jobs
        BY <1>1 DEF GoodJobs
      <4>2. Handled(j, ans[w]).op = j.op
        BY <4>1 DEF Handled, MountsAnswered, EnableAnswered, MountFailed, EngineReady, PutAnswered,
           GetAnswered, DeleteAnswered, Reply, Jobs
      <4>3. QED
        BY <2>1, <3>1, <4>2 DEF TypeInv, TypeOK
    <3>2. ASSUME j.op = "delete", faults = 0, kept[w]
          PROVE  DeleteOK(w)'
      <4>1. /\ j.status # "gateway" /\ j.to.ns \in live /\ ans[w] # Pending
            /\ j.phase = "mounts" =>
                 ans[w].st = "ok" /\ (ans[w].body = "mounted" => j.to.ns \in kv)
            /\ j.phase = "enable" => j.to.ns \in kv
            /\ j.phase = "call" => j.to.ns \in kv /\ ans[w].st = "ok"
        BY <1>5, <2>1, <3>2 DEF Recv, DeleteInv, DeleteOK
      <4> DEFINE i == Handled(j, ans[w])
      <4>2. /\ i.to = j.to /\ i.status # "gateway" /\ i.phase # "mounts"
            /\ i.phase = "call" => j.to.ns \in kv
        BY <1>1, <2>1, <3>2, <4>1, HandledDelete
      <4>3. job'[w] = i /\ ans'[w] = Pending
        BY <2>1 DEF TypeInv, TypeOK
      <4> HIDE DEF i
      <4>4. QED
        BY <2>1, <4>1, <4>2, <4>3 DEF DeleteOK
    <3>3. QED
      BY <2>1, <3>1, <3>2 DEF DeleteOK
  <2>3. ASSUME NEW u \in Workers \ {w}
        PROVE  DeleteOK(u)'
    <3>1. ans'[u] = ans[u] /\ job'[u] = job[u]
      BY <2>1 DEF TypeInv, TypeOK
    <3>2. QED
      BY <2>1, <3>1 DEF DeleteInv, DeleteOK
  <2>4. QED
    BY <2>2, <2>3 DEF DeleteInv
<1>6. ASSUME NEW w \in Workers, Fault(w)
      PROVE  DeleteInv'
  <2>1. faults' # 0
    BY <1>6 DEF Fault, TypeInv, TypeOK
  <2>2. QED
    BY <2>1 DEF DeleteInv, DeleteOK
<1>7. ASSUME NEW c \in orphans, ExecOrphan(c)
      PROVE  DeleteInv'
  <2>1. kv \subseteq kv' /\ live' = live /\ UNCHANGED <<job, ans, kept, faults>>
    BY <1>7, ServeKeepsEngines DEF ExecOrphan, history
  <2>2. QED
    BY <2>1 DEF DeleteInv, DeleteOK
<1>8. ASSUME NEW n \in Namespaces, NamespaceChanges(n)
      PROVE  DeleteInv'
  <2>1. ASSUME NEW u \in Workers, kept'[u], job[u].to.ns \in live
        PROVE  kept[u] /\ job[u].to.ns \in live' /\ (job[u].to.ns \in kv => job[u].to.ns \in kv')
    BY <1>8, <2>1 DEF NamespaceChanges, NamespaceComes, NamespaceGoes
  <2>2. \A u \in Workers : kept'[u] => kept[u]
    BY <1>8 DEF NamespaceChanges
  <2>3. UNCHANGED <<job, ans, faults>>
    BY <1>8 DEF NamespaceChanges
  <2>4. ASSUME NEW u \in Workers
        PROVE  DeleteOK(u)'
    <3>1. job[u].phase \in {"idle", "mounts", "enable", "call"}
      BY <1>1 DEF GoodJobs, Jobs
    <3>2. QED
      BY <2>1, <2>2, <2>3, <3>1 DEF DeleteInv, DeleteOK
  <2>5. QED
    BY <2>4 DEF DeleteInv
<1>9. CASE UNCHANGED vars
  BY <1>9 DEF DeleteInv, DeleteOK, vars, kvVars, history
<1>10. QED
  BY <1>2, <1>3, <1>4, <1>5, <1>6, <1>7, <1>8, <1>9
     DEF Next, Timeout, Retry, Garble, Crash

\* A REST deletion can be repeated: in a namespace that is there all along it
\* succeeds, however many other handlers look for the engine, mount it and lose
\* that race at the same time, and whether the secret is still there or not.
THEOREM DeleteCanBeRepeated == Spec => []DeleteRepeatable
<1>1. Init => DeleteInv
  BY DEF Init, Idle, DeleteInv, DeleteOK
<1>2. TypeInv /\ TypeInv' /\ DeleteInv /\ [Next]_vars => DeleteInv'
  BY DeleteStep
<1>3. DeleteInv => DeleteRepeatable
  BY DEF DeleteInv, DeleteOK, DeleteRepeatable
<1>4. QED
  BY <1>1, <1>2, <1>3, TypeInvariant, PTL DEF Spec
=============================================================================
