----------------------------- MODULE SecretStore -----------------------------
(***************************************************************************)
(* What the secrets interface promises: a store of secrets in namespaces   *)
(* that come, and go with all they hold.  A request takes effect at one    *)
(* instant between asking and a positive answer, in a namespace that is    *)
(* there, and a request answered negatively has none.  Once something was  *)
(* lost (a call, an answer, a process) an effect may be repeated, may come *)
(* with a negative answer or after it, and a read may show nothing.        *)
(***************************************************************************)
CONSTANTS Clients, Namespaces, Root, Slots, Values, Empty, Absent

VARIABLES
  live,   \* the namespaces that exist
  store,  \* store[s]: the secret in slot s
  req,    \* req[c]: the request of client c, asked or answered
  late,   \* effects that may still come of requests given up
  lossy   \* has anything been lost yet?

storeVars == <<live, store, req, late, lossy>>

Requests == [op : {"put", "read", "delete"}, at : Slots, val : Values]
NoReq    == [status |-> "none"]
Asked(c) == req[c].status = "asked"

AsksFor(r) == [what |-> r, status |-> "asked", took |-> FALSE,
               saw |-> Absent, got |-> Absent]

Init ==
  /\ live \in {L \in SUBSET Namespaces : Root \in L}
  /\ store = [s \in Slots |-> Absent]
  /\ req = [c \in Clients |-> NoReq]
  /\ late = {} /\ lossy = FALSE

Effect(r) ==
  CASE r.op = "put"    -> [store EXCEPT ![r.at] = r.val]
    [] r.op = "delete" -> [store EXCEPT ![r.at] = Absent]
    [] r.op = "read"   -> store

Ask(c, r) ==
  /\ ~Asked(c)
  /\ req' = [req EXCEPT ![c] = AsksFor(r)]
  /\ UNCHANGED <<live, store, late, lossy>>

\* The client turns to something that is no business of the store.
Leave(c) ==
  /\ ~Asked(c)
  /\ req' = [req EXCEPT ![c] = NoReq]
  /\ UNCHANGED <<live, store, late, lossy>>

Take(c) ==
  /\ Asked(c) /\ (req[c].took => lossy)
  /\ LET r == req[c].what
     IN  /\ IF r.op = "read" THEN store[r.at] # Absent ELSE r.at.ns \in live
         /\ store' = Effect(r)
         /\ req' = [req EXCEPT ![c].took = TRUE, ![c].saw = store[r.at]]
  /\ UNCHANGED <<live, late, lossy>>

Grant(c) ==
  /\ Asked(c) /\ req[c].took
  /\ req' = [req EXCEPT ![c].status = "ok",
                        ![c].got = IF req[c].what.op = "read" THEN req[c].saw ELSE Absent]
  /\ UNCHANGED <<live, store, late, lossy>>

Refuse(c) ==
  /\ Asked(c) /\ (req[c].took => lossy)
  /\ req' = [req EXCEPT ![c].status = "failed"]
  /\ UNCHANGED <<live, store, late, lossy>>

NamespaceComes(n) ==
  /\ n \notin live /\ live' = live \cup {n}
  /\ UNCHANGED <<store, req, late, lossy>>

\* A namespace takes its secrets with it.
Wipe(n) ==
  /\ n \in live \ {Root} /\ live' = live \ {n}
  /\ store' = [s \in Slots |-> IF s.ns = n THEN Absent ELSE store[s]]
  /\ UNCHANGED <<req, late, lossy>>

\* Something is lost: the request goes on, or is answered, or forgotten.
Lose(c) ==
  /\ Asked(c) /\ lossy' = TRUE
  /\ req' \in {req, [req EXCEPT ![c].status = "failed"],
               [req EXCEPT ![c].status = "ok", ![c].got = Empty],
               [req EXCEPT ![c] = NoReq]}
  /\ req'[c].status = "ok" => req[c].took
  /\ late' \in {late, late \cup {req[c].what}}
  /\ UNCHANGED <<live, store>>

\* Something is lost that no request of the store depends on.
LoseElsewhere == lossy' = TRUE /\ UNCHANGED <<live, store, req, late>>

TakeLate(r) ==
  /\ \/ r.at.ns \in live /\ store' = Effect(r)
     \/ UNCHANGED store
  /\ late' = late \ {r}
  /\ UNCHANGED <<live, req, lossy>>

Next ==
  \/ \E c \in Clients : \/ ~Asked(c) /\ \E r \in Requests : Ask(c, r)
                        \/ Leave(c) \/ Take(c) \/ Grant(c) \/ Refuse(c) \/ Lose(c)
  \/ \E n \in Namespaces : NamespaceComes(n) \/ Wipe(n)
  \/ LoseElsewhere
  \/ \E r \in late : TakeLate(r)

Spec == Init /\ [][Next]_storeVars
=============================================================================
