------------------------------- MODULE KvServer -------------------------------
(***************************************************************************)
(* The OpenBao server as the secrets half of openbao/main.go uses it: the  *)
(* namespaces, the KV engine mounted (or not) in each, and the secrets.    *)
(* It is not part of the repository.  One call is atomic.                  *)
(***************************************************************************)
EXTENDS Routing

CONSTANTS
  Namespaces,   \* namespaces a request may name, existing or not
  SecretNames,  \* names of secrets
  Values,       \* what a secret holds: a map from fields to strings
  Empty,        \* the map without fields
  Absent        \* what is in the place of a secret that does not exist

ASSUME NamesAssumption ==
  /\ Root \in Namespaces
  /\ Namespaces \subseteq Seq(STRING \ {""})
  /\ SecretNames \subseteq Seq(STRING \ {""}) \ {<<>>}
ASSUME ValuesAssumption == Empty \in Values /\ Absent \notin Values

VARIABLES
  live,    \* the namespaces that exist
  kv,      \* those with the KV engine mounted
  secret   \* secret[s]: what the secret in slot s holds

kvVars == <<live, kv, secret>>

Slots  == [ns : Namespaces, name : SecretNames]
Places == [ns : Seq(STRING), name : Seq(STRING)]
Kinds  == {"mounts", "enable", "put", "read", "delete"}
Calls  == [kind : Kinds, to : Places, val : Values]

KvInit ==
  /\ live \in {L \in SUBSET Namespaces : Root \in L}
  /\ kv = {}
  /\ secret = [s \in Slots |-> Absent]

KvTypeOK ==
  /\ live \subseteq Namespaces
  /\ kv \subseteq live
  /\ secret \in [Slots -> Values \cup {Absent}]

\* Mounting over a mounted path is refused, and so is reading what is not
\* there.  Deleting the metadata of a secret that does not exist succeeds.
Accepts(c) ==
  CASE c.kind = "mounts" -> c.to.ns \in live
    [] c.kind = "enable" -> c.to.ns \in live \ kv
    [] c.kind = "read"   -> c.to \in Slots /\ secret[c.to] # Absent
    [] OTHER             -> c.to.ns \in kv

Write(to, v) == secret' = [s \in Slots |-> IF s = to THEN v ELSE secret[s]]

Apply(c) ==
  \/ c.kind \in {"mounts", "read"} /\ UNCHANGED <<kv, secret>>
  \/ c.kind = "enable" /\ kv' = kv \cup {c.to.ns} /\ UNCHANGED secret
  \/ c.kind = "put" /\ Write(c.to, c.val) /\ UNCHANGED kv
  \/ c.kind = "delete" /\ Write(c.to, Absent) /\ UNCHANGED kv

Serve(c) ==
  /\ IF Accepts(c) THEN Apply(c) ELSE UNCHANGED <<kv, secret>>
  /\ UNCHANGED live

\* What the answer to an accepted call holds.
Body(c) ==
  CASE c.kind = "mounts" -> IF c.to.ns \in kv THEN "mounted" ELSE "unmounted"
    [] c.kind = "read"   -> secret[c.to]
    [] OTHER             -> Empty

\* Other requests create namespaces, and delete them with all they hold.
NamespaceComes(n) ==
  /\ n \notin live /\ live' = live \cup {n}
  /\ UNCHANGED <<kv, secret>>

NamespaceGoes(n) ==
  /\ n \in live \ {Root} /\ live' = live \ {n}
  /\ kv' = kv \ {n}
  /\ secret' = [s \in Slots |-> IF s.ns = n THEN Absent ELSE secret[s]]
=============================================================================
