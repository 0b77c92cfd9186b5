------------------------------ MODULE BaoServer ------------------------------
(***************************************************************************)
(* The OpenBao server as openbao/main.go uses it: namespaces, the transit  *)
(* engine mounted (or not) in each of them, and the transit keys.  The     *)
(* server is not part of the repository; what is said of it here is what   *)
(* the code, its comments and its Makefile tests rely on.  One call is     *)
(* atomic: the server serialises calls.                                    *)
(***************************************************************************)
EXTENDS Integers

CONSTANTS
  Namespaces,           \* names a request may use, existing or not
  Root,                 \* the root namespace, "" in the code
  Keys,                 \* transit key names
  CanListNamespaces,    \* FALSE: the listing is unsupported or denied
  CreateSetsDeletable   \* does key creation honour deletion_allowed?

ASSUME RootAssumption == Root \in Namespaces
ASSUME KeysAssumption == Keys # {}
ASSUME FlagAssumption == /\ CanListNamespaces \in BOOLEAN
                         /\ CreateSetsDeletable \in BOOLEAN

VARIABLES
  live,     \* the namespaces that exist
  mounted,  \* those with the transit engine mounted
  keys      \* keys[n][k]: version (0: no such key) and deletion_allowed

baoVars == <<live, mounted, keys>>

Absent   == [version |-> 0, deletable |-> FALSE]
KeyState == [version : Nat, deletable : BOOLEAN]

Reads   == {"mounts", "info", "list", "namespaces"}
Writes  == {"enable", "create", "config", "delete", "rotate",
            "createNs", "deleteNs"}
Kinds   == Reads \cup Writes
Calls   == [kind : Kinds, ns : Namespaces, key : Keys, arg : BOOLEAN]
Names   == Namespaces \cup Keys \cup {"transit"}
Answers == [st : {"pending", "ok", "notfound", "denied", "err"},
            set : SUBSET Names]
Pending == [st |-> "pending", set |-> {}]

BaoInit ==
  /\ live \in {L \in SUBSET Namespaces : Root \in L}
  /\ mounted = {}
  /\ keys = [n \in Namespaces |-> [k \in Keys |-> Absent]]

BaoTypeOK ==
  /\ live \subseteq Namespaces
  /\ mounted \subseteq Namespaces
  /\ keys \in [Namespaces -> [Keys -> KeyState]]

Usable(n)     == n \in live /\ n \in mounted
Present(n, k) == keys[n][k] # Absent

(***************************************************************************)
(* Whether the server carries a call out.  Mounting over a mounted path,   *)
(* touching a missing key and deleting a key whose deletion is not allowed *)
(* are refused; creating a key that exists succeeds and changes nothing;   *)
(* a listing with nothing in it is a 404.  What becomes of a namespace     *)
(* created twice or deleted twice differs between servers: both verdicts.  *)
(***************************************************************************)
Accepts(c) ==
  CASE c.kind = "mounts"     -> c.ns \in live
    [] c.kind = "enable"     -> c.ns \in live /\ c.ns \notin mounted
    [] c.kind = "create"     -> Usable(c.ns)
    [] c.kind = "delete"     -> Present(c.ns, c.key) /\ keys[c.ns][c.key].deletable
    [] c.kind = "list"       -> Usable(c.ns) /\ \E k \in Keys : Present(c.ns, k)
    [] c.kind = "namespaces" -> CanListNamespaces /\ live # {Root}
    [] c.kind = "createNs"   -> c.ns \notin live
    [] c.kind = "deleteNs"   -> c.ns \in live
    [] OTHER                 -> Present(c.ns, c.key)

Verdicts(c) ==
  IF c.kind \in {"createNs", "deleteNs"}
    THEN {TRUE} \cup {Accepts(c)}
    ELSE {Accepts(c)}

Listing(c) ==
  CASE c.kind = "mounts"     -> IF c.ns \in mounted THEN {"transit"} ELSE {}
    [] c.kind = "list"       -> {k \in Keys : Present(c.ns, k)}
    [] c.kind = "namespaces" -> live \ {Root}
    [] OTHER                 -> {}

\* The code tells a 404 and a 403 from other errors only when it lists.
Refusal(c) ==
  CASE c.kind = "list" -> "notfound"
    [] c.kind = "namespaces" /\ CanListNamespaces  -> "notfound"
    [] c.kind = "namespaces" /\ ~CanListNamespaces -> "denied"
    [] OTHER -> "err"

AnswerTo(c, ok) ==
  IF ok THEN [st |-> "ok", set |-> Listing(c)]
        ELSE [st |-> Refusal(c), set |-> {}]

-----------------------------------------------------------------------------
\* The effect of each call the server accepts.
EnableTransit(c) ==
  /\ c.kind = "enable"
  /\ mounted' = mounted \cup {c.ns}
  /\ UNCHANGED <<live, keys>>

CreateKey(c) ==
  /\ c.kind = "create"
  /\ keys' = IF Present(c.ns, c.key) THEN keys
             ELSE [keys EXCEPT ![c.ns][c.key] =
                     [version |-> 1, deletable |-> CreateSetsDeletable]]
  /\ UNCHANGED <<live, mounted>>

ConfigKey(c) ==
  /\ c.kind = "config"
  /\ keys' = [keys EXCEPT ![c.ns][c.key].deletable = c.arg]
  /\ UNCHANGED <<live, mounted>>

DeleteKey(c) ==
  /\ c.kind = "delete"
  /\ keys' = [keys EXCEPT ![c.ns][c.key] = Absent]
  /\ UNCHANGED <<live, mounted>>

RotateKey(c) ==
  /\ c.kind = "rotate"
  /\ keys' = [keys EXCEPT ![c.ns][c.key].version = @ + 1]
  /\ UNCHANGED <<live, mounted>>

CreateNamespace(c) ==
  /\ c.kind = "createNs"
  /\ live' = live \cup {c.ns}
  /\ UNCHANGED <<mounted, keys>>

DeleteNamespace(c) ==
  /\ c.kind = "deleteNs"
  /\ live' = live \ {c.ns}
  /\ mounted' = mounted \ {c.ns}
  /\ keys' = [keys EXCEPT ![c.ns] = [k \in Keys |-> Absent]]

Apply(c) ==
  \/ c.kind \in Reads /\ UNCHANGED baoVars
  \/ EnableTransit(c)
  \/ CreateKey(c)
  \/ ConfigKey(c)
  \/ DeleteKey(c)
  \/ RotateKey(c)
  \/ CreateNamespace(c)
  \/ DeleteNamespace(c)

\* The server handles call c with verdict ok.
Serve(c, ok) ==
  /\ ok \in Verdicts(c)
  /\ IF ok THEN Apply(c) ELSE UNCHANGED baoVars
=============================================================================
