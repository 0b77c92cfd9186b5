------------------------------- MODULE Routing -------------------------------
(***************************************************************************)
(* How the item handlers of openbao/main.go find out what a path names.    *)
(* A namespace and a secret name are sequences of segments (a name may     *)
(* hold a slash, the root namespace is empty); the handlers split what     *)
(* follows their prefix, after percent-decoding, and look at the first two *)
(* parts.  ServeMux first redirects a path with an empty segment to the    *)
(* path without it, unless the slash beside it is escaped.                 *)
(***************************************************************************)
EXTENDS Sequences, Naturals

Root     == <<>>
NoTarget == [ns |-> <<>>, name |-> <<>>]

\* What a client writes after "/secrets/" or "/keys/": {namespace}/{name}.
ItemPath(ns, name) == (IF ns = Root THEN <<"">> ELSE ns) \o name

Cleaned(p, escaped) == IF p[1] = "" /\ ~escaped THEN Tail(p) ELSE p

Redirected(p, escaped) == Cleaned(p, escaped) # p

\* parts[0] and parts[1]; fewer parts are a bad request.
ItemTarget(p) ==
  IF Len(p) < 2 THEN NoTarget
  ELSE [ns |-> IF p[1] = "" THEN Root ELSE <<p[1]>>, name |-> <<p[2]>>]
=============================================================================
