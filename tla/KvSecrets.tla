------------------------------ MODULE KvSecrets ------------------------------
(***************************************************************************)
(* The secrets half of openbao/main.go: the REST handlers and the CLI      *)
(* operations that write, read and delete one KV secret.  A worker is a    *)
(* handler goroutine or a CLI process; it sends one call after another to  *)
(* the server and shares nothing else.  A handler looks for the engine     *)
(* first (phases "mounts" and "enable"); the CLI leaves that to its        *)
(* operation enable-kv.                                                    *)
(***************************************************************************)
EXTENDS KvServer

CONSTANTS
  Workers,      \* handlers and CLI processes
  MaxRequests,  \* bound: requests sent in a behaviour
  MaxFaults     \* bound: lost calls, retries, bad bodies and crashes

ASSUME BoundAssumption == MaxRequests \in Nat /\ MaxFaults \in Nat

VARIABLES
  job,      \* job[w]: the request worker w handles or last handled
  ans,      \* ans[w]: the server's answer to w's call, not yet handled
  orphans,  \* writes left behind by an abandoned attempt, still under way
  reqs,     \* requests sent so far
  faults,   \* faults so far
  \* History variables, read by the properties only.
  took,     \* took[w]: has the server done what w's request asks for?
  saw,      \* saw[w]: what was in w's slot when it last did
  kept,     \* kept[w]: w is a handler, its namespace exists ever since it began
  asked     \* the slots that clients have asked to delete

history == <<took, saw, kept, asked>>
vars    == <<kvVars, job, ans, orphans, reqs, faults, history>>

SecretOps == {"put", "read", "delete"}
Jobs == [op : SecretOps \cup {"enable", "none"}, at : Places, to : Places,
         val : Values, phase : {"idle", "mounts", "enable", "call"},
         status : {"none", "ok", "gateway", "rejected"},
         got : Values \cup {Absent}]
Answers == [st : {"pending", "ok", "err"},
            body : Values \cup {Absent, "mounted", "unmounted"}]

Pending == [st |-> "pending", body |-> Absent]
Failure == [st |-> "err", body |-> Absent]
Idle    == [op |-> "none", at |-> NoTarget, to |-> NoTarget, val |-> Empty,
            phase |-> "idle", status |-> "none", got |-> Absent]

Busy(w) == job[w].phase # "idle"

Init ==
  /\ KvInit
  /\ job = [w \in Workers |-> Idle]
  /\ ans = [w \in Workers |-> Pending]
  /\ orphans = {} /\ reqs = 0 /\ faults = 0
  /\ took = [w \in Workers |-> FALSE]
  /\ saw = [w \in Workers |-> Absent]
  /\ kept = [w \in Workers |-> FALSE]
  /\ asked = {}

-----------------------------------------------------------------------------
\* Requests.  "at" is what the client means, "to" what the handler acts on.
Sent ==
  /\ reqs < MaxRequests /\ reqs' = reqs + 1
  /\ UNCHANGED <<kvVars, ans, orphans, faults>>

Begin(w, op, at, to, v, phase) ==
  /\ ~Busy(w) /\ Sent
  /\ job' = [job EXCEPT ![w] = [Idle EXCEPT !.op = op, !.at = at, !.to = to,
                                            !.val = v, !.phase = phase]]
  /\ took' = [took EXCEPT ![w] = FALSE]
  /\ saw' = [saw EXCEPT ![w] = Absent]
  /\ kept' = [kept EXCEPT ![w] = phase = "mounts" /\ to.ns \in live]
  /\ asked' = IF op = "delete" THEN asked \cup {at} ELSE asked

\* A malformed request, a wrong method, a redirect: no call is made.
Reject(w) ==
  /\ ~Busy(w) /\ Sent
  /\ job' = [job EXCEPT ![w] = [Idle EXCEPT !.status = "rejected"]]
  /\ UNCHANGED history

\* POST and GET name the slot in the body and in the query; not in the root.
SecretsCollection(w) ==
  \E s \in Slots : s.ns # Root /\
    \/ \E v \in Values : Begin(w, "put", s, s, v, "mounts")
    \/ Begin(w, "read", s, s, Empty, "mounts")

\* DELETE names it in the path, which the handler takes apart.  A client that
\* is redirected may send its request again to the path it is given.
SecretsItem(w) ==
  \E s \in Slots, escaped, follows \in BOOLEAN :
    LET path   == ItemPath(s.ns, s.name)
        target == ItemTarget(Cleaned(path, escaped))
    IN  IF target = NoTarget \/ (Redirected(path, escaped) /\ ~follows)
          THEN Reject(w)
          ELSE Begin(w, "delete", s, target, Empty, "mounts")

\* put-secret, read-secret, delete-secret and enable-kv.
CliOperation(w) ==
  \E s \in Slots : s.ns # Root /\
    \/ \E v \in Values : Begin(w, "put", s, s, v, "call")
    \/ Begin(w, "read", s, s, Empty, "call")
    \/ Begin(w, "delete", s, s, Empty, "call")
    \/ Begin(w, "enable", s, s, Empty, "mounts")

-----------------------------------------------------------------------------
\* What a handler does with an answer.
\* Mutant: the handler answers and goes on.
ReplyGoesOn(j, st) == [j EXCEPT !.status = st]

Reply(j, st) == [j EXCEPT !.phase = "idle", !.status = st]

\* Mutant: the error of a read or a delete is not ignored either.
MountFailedReplies(j) == Reply(j, "gateway")

\* enableKVIfNeeded returned: nil, or an error that only some callers heed.
EngineReady(j) ==
  IF j.op = "enable" THEN Reply(j, "ok") ELSE [j EXCEPT !.phase = "call"]

MountFailed(j) ==
  IF j.op \in {"enable", "put"} THEN Reply(j, "gateway")
                                ELSE [j EXCEPT !.phase = "call"]

MountsAnswered(j, a) ==
  IF a.st # "ok" THEN MountFailed(j)
  ELSE IF a.body = "mounted" THEN EngineReady(j)
  ELSE [j EXCEPT !.phase = "enable"]

EnableAnswered(j, a) == IF a.st = "ok" THEN EngineReady(j) ELSE MountFailed(j)

PutAnswered(j, a) == Reply(j, IF a.st = "ok" THEN "ok" ELSE "gateway")

\* Mutant: the answer is not looked at, as if every error were a 404.
DeleteAnsweredAlways(j, a) == Reply(j, "ok")

\* A 404 comes from the client library as an error, like any other.
DeleteAnswered(j, a) == Reply(j, IF a.st = "ok" THEN "ok" ELSE "gateway")

GetAnswered(j, a) ==
  IF a.st = "ok" THEN [Reply(j, "ok") EXCEPT !.got = a.body]
                 ELSE Reply(j, "gateway")

Handled(j, a) ==
  IF j.phase = "mounts" THEN MountsAnswered(j, a)
  ELSE IF j.phase = "enable" THEN EnableAnswered(j, a)
  ELSE CASE j.op = "put"  -> PutAnswered(j, a)
         [] j.op = "read" -> GetAnswered(j, a)
         [] OTHER         -> DeleteAnswered(j, a)

Handle(w, a) ==
  /\ job' = [job EXCEPT ![w] = Handled(@, a)]
  /\ ans' = [ans EXCEPT ![w] = Pending]
  /\ UNCHANGED <<kvVars, reqs, history>>

Recv(w) ==
  /\ ans[w] # Pending
  /\ Handle(w, ans[w])
  /\ UNCHANGED <<orphans, faults>>

-----------------------------------------------------------------------------
\* The server.
CallOf(j) == [kind |-> IF j.phase = "call" THEN j.op ELSE j.phase,
              to |-> j.to, val |-> j.val]

Exec(w) ==
  /\ Busy(w) /\ ans[w] = Pending
  /\ LET c == CallOf(job[w])
     IN  /\ Serve(c)
         /\ ans' = [ans EXCEPT ![w] = IF Accepts(c)
                      THEN [st |-> "ok", body |-> Body(c)] ELSE Failure]
         /\ IF Accepts(c) /\ job[w].phase = "call"
              THEN /\ took' = [took EXCEPT ![w] = TRUE]
                   /\ saw' = [saw EXCEPT ![w] = secret[job[w].at]]
              ELSE UNCHANGED <<took, saw>>
  /\ UNCHANGED <<job, orphans, reqs, faults, kept, asked>>

ExecOrphan(c) ==
  /\ Serve(c)
  /\ orphans' = orphans \ {c}
  /\ UNCHANGED <<job, ans, reqs, faults, history>>

\* createNamespace and deleteNamespace, called by other handlers.
NamespaceChanges(n) ==
  /\ NamespaceComes(n) \/ NamespaceGoes(n)
  /\ kept' = [w \in Workers |-> kept[w] /\ job[w].to.ns \in live']
  /\ UNCHANGED <<job, ans, orphans, reqs, faults, took, saw, asked>>

-----------------------------------------------------------------------------
\* Faults.  A write that is given up may be under way to the server still.
Abandoned(w) ==
  {c \in {CallOf(job[w])} : ans[w] = Pending /\ c.kind \in {"enable", "put", "delete"}}

Fault(w) ==
  /\ Busy(w) /\ faults < MaxFaults
  /\ faults' = faults + 1

\* The call fails: no answer within 30 seconds, a broken connection, a 5xx.
Timeout(w) ==
  /\ Fault(w)
  /\ orphans' = orphans \cup Abandoned(w)
  /\ Handle(w, Failure)

\* The client library sends the call again by itself.
Retry(w) ==
  /\ Fault(w)
  /\ orphans' = orphans \cup Abandoned(w)
  /\ ans' = [ans EXCEPT ![w] = Pending]
  /\ UNCHANGED <<kvVars, job, reqs, history>>

\* A body that does not decode: no mounts, a secret without fields.
Garble(w) ==
  /\ Fault(w) /\ ans[w].st = "ok" /\ CallOf(job[w]).kind \in {"mounts", "read"}
  /\ Handle(w, [st |-> "ok",
                body |-> IF job[w].phase = "mounts" THEN "unmounted" ELSE Empty])
  /\ UNCHANGED orphans

\* The process is gone; the caller gets no answer.
Crash(w) ==
  /\ Fault(w)
  /\ orphans' = orphans \cup Abandoned(w)
  /\ job' = [job EXCEPT ![w] = Idle]
  /\ ans' = [ans EXCEPT ![w] = Pending]
  /\ UNCHANGED <<kvVars, reqs, history>>

Next ==
  \/ \E w \in Workers : SecretsCollection(w) \/ SecretsItem(w) \/ CliOperation(w)
  \/ \E w \in Workers : Reject(w)
  \/ \E w \in Workers : Exec(w) \/ Recv(w)
  \/ \E w \in Workers : Timeout(w) \/ Retry(w) \/ Garble(w) \/ Crash(w)
  \/ \E c \in orphans : ExecOrphan(c)
  \/ \E n \in Namespaces : NamespaceChanges(n)

Spec == Init /\ [][Next]_vars

-----------------------------------------------------------------------------
\* The request as the abstract store sees it: enable-kv and what is rejected
\* are no business of the store.
RequestOf(w) ==
  LET j == job[w]
  IN  IF j.op \notin SecretOps THEN [status |-> "none"]
      ELSE [what |-> [op |-> j.op, at |-> j.at, val |-> j.val],
            status |-> CASE j.status = "none" -> "asked"
                         [] j.status = "ok"   -> "ok"
                         [] OTHER             -> "failed",
            took |-> took[w], saw |-> saw[w], got |-> j.got]

WritesLeft == {[op |-> c.kind, at |-> c.to, val |-> c.val] :
                 c \in {d \in orphans : d.kind \in SecretOps}}

Store == INSTANCE SecretStore WITH
           Clients <- Workers, store <- secret,
           req <- [w \in Workers |-> RequestOf(w)],
           late <- WritesLeft, lossy <- faults > 0

\* The handlers and the CLI together are a store of secrets: each request
\* takes effect at one instant while it runs, whatever others do meanwhile,
\* and what faults may add to that is what the abstract store allows.
ImplementsStore == Store!Spec

\* The variables have their types; a worker that is idle has answered.
TypeOK ==
  /\ KvTypeOK
  /\ job \in [Workers -> Jobs]
  /\ \A w \in Workers : Busy(w) <=> job[w].op # "none" /\ job[w].status = "none"
  /\ ans \in [Workers -> Answers]
  /\ orphans \subseteq Calls
  /\ reqs \in 0..MaxRequests /\ faults \in 0..MaxFaults
  /\ took \in [Workers -> BOOLEAN] /\ kept \in [Workers -> BOOLEAN]
  /\ saw \in [Workers -> Values \cup {Absent}]
  /\ asked \subseteq Slots

\* A REST deletion in a namespace that is there all along succeeds, though the
\* engine is missing, or another request mounts it first, and though the secret
\* is gone already: it can be repeated.
DeleteRepeatable ==
  \A w \in Workers : LET j == job[w] IN
    j.op = "delete" /\ j.status = "gateway" /\ faults = 0 => ~kept[w]

\* "DELETE /secrets/{namespace}/{name}": a secret disappears only if someone
\* asked to delete that secret, or with its namespace.
OnlyNamedSecretsGo ==
  [][\A s \in Slots : secret[s] # Absent /\ secret'[s] = Absent
       => s \in asked \/ s.ns \notin live']_vars
=============================================================================
