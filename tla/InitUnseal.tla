------------------------------ MODULE InitUnseal ------------------------------
(***************************************************************************)
(* openbao/init-unseal.sh: initialise an OpenBao, store its keys in a      *)
(* file, unseal it; then the health operation of openbao/main.go.  The     *)
(* script is run again at will, two runs may overlap, the server stops and *)
(* starts (sealed) between any two commands.  "set -e" ends a run at the   *)
(* first command that fails, unless "|| true" follows it.                  *)
(***************************************************************************)
EXTENDS Naturals

CONSTANTS
  Runs,       \* runs of the script
  Threshold,  \* OPENBAO_INIT_THRESHOLD: shares it takes to unseal
  MaxStops,   \* bound: how often the server stops
  MaxFaults   \* bound: failed commands and killed runs

ASSUME BoundAssumption ==
  Threshold \in Nat \ {0} /\ MaxStops \in Nat /\ MaxFaults \in Nat

VARIABLES
  up, inited, sealed,  \* the server
  file,    \* OUT_FILE: missing, the keys, "{}", or cut off while written
  pc,      \* pc[r]: the command run r is at
  holds,   \* holds[r]: does r have an unseal key in its variable?
  stops,   \* how often the server has stopped
  faults,  \* failed commands and killed runs so far
  \* History variables, read by the properties only.
  lost,    \* the answer to the initialisation was lost before it was stored
  noted,   \* some run found the server initialised
  calm     \* calm[r]: the server has not stopped since run r began

server  == <<up, inited, sealed, stops>>
history == <<lost, noted, calm>>
vars    == <<server, file, pc, holds, faults, history>>

Steps == {"off", "status", "init", "store", "note", "seal", "unseal", "final",
          "done", "failed", "healthy", "unhealthy"}
Running(r) == pc[r] \notin {"off", "done", "failed", "healthy", "unhealthy"}

Init ==
  /\ up \in BOOLEAN /\ inited = FALSE /\ sealed = TRUE
  /\ file = "missing"
  /\ pc = [r \in Runs |-> "off"]
  /\ holds = [r \in Runs |-> FALSE]
  /\ stops = 0 /\ faults = 0
  /\ lost = FALSE /\ noted = FALSE
  /\ calm = [r \in Runs |-> FALSE]

Goes(r, from, to) == pc[r] = from /\ pc' = [pc EXCEPT ![r] = to]

-----------------------------------------------------------------------------
\* The commands of the script.
Begin(r) ==
  /\ Goes(r, "off", "status")
  /\ calm' = [calm EXCEPT ![r] = up]
  /\ UNCHANGED <<server, file, holds, faults, lost, noted>>

\* No answer reads like "not initialised" (and so does "false": jq's // skips it).
CheckInit(r) ==
  /\ Goes(r, "status", IF up /\ inited THEN "note" ELSE "init")
  /\ UNCHANGED <<server, file, holds, faults, history>>

\* Mutant: no "set -e": a refused initialisation is stored as the output.
PostInitGoesOn(r) ==
  /\ Goes(r, "init", "store")
  /\ inited' = (inited \/ up)
  /\ holds' = [holds EXCEPT ![r] = up /\ ~inited]
  /\ UNCHANGED <<up, sealed, stops, file, faults, history>>

PostInit(r) ==
  /\ IF up /\ ~inited
       THEN /\ Goes(r, "init", "store") /\ inited' = TRUE
            /\ holds' = [holds EXCEPT ![r] = TRUE]
       ELSE Goes(r, "init", "failed") /\ UNCHANGED <<inited, holds>>
  /\ UNCHANGED <<up, sealed, stops, file, faults, history>>

Store(r) ==
  /\ Goes(r, "store", "seal") /\ file' = IF holds[r] THEN "keys" ELSE "cut"
  /\ UNCHANGED <<server, holds, faults, history>>

\* "Already initialized": the output becomes an empty object.
Note(r) ==
  /\ Goes(r, "note", "seal") /\ file' = "{}" /\ noted' = TRUE
  /\ UNCHANGED <<server, holds, faults, lost, calm>>

\* Mutant: unseal with whatever the variable holds.
SealStatusUnchecked(r) ==
  /\ Goes(r, "seal", IF ~up THEN "failed" ELSE IF sealed THEN "unseal" ELSE "final")
  /\ UNCHANGED <<server, file, holds, faults, history>>

\* Mutant: "false" and "true" both read as not sealed.
SealStatusMisread(r) ==
  /\ Goes(r, "seal", IF up THEN "final" ELSE "failed")
  /\ UNCHANGED <<server, file, holds, faults, history>>

SealStatus(r) ==
  /\ Goes(r, "seal", IF ~up THEN "failed"
                     ELSE IF ~sealed THEN "final"
                     ELSE IF holds[r] THEN "unseal" ELSE "failed")
  /\ UNCHANGED <<server, file, holds, faults, history>>

\* The script enters one share, always the first: more would be needed when
\* the threshold is higher, and the server accepts the share all the same.
Unseal(r) ==
  /\ Goes(r, "unseal", IF up THEN "final" ELSE "failed")
  /\ sealed' = (sealed /\ ~(up /\ Threshold = 1))
  /\ UNCHANGED <<up, inited, stops, file, holds, faults, history>>

\* The script's own health check fails nothing.
Final(r) ==
  /\ Goes(r, "final", "done")
  /\ UNCHANGED <<server, file, holds, faults, history>>

\* openbao-tool --op=health, or GET /health: an error status is an error.
Health(r) ==
  /\ Goes(r, "done", IF up /\ inited /\ ~sealed THEN "healthy" ELSE "unhealthy")
  /\ UNCHANGED <<server, file, holds, faults, history>>

-----------------------------------------------------------------------------
\* The server stops, and starts again sealed.
Stop ==
  /\ up /\ stops < MaxStops
  /\ up' = FALSE /\ stops' = stops + 1
  /\ calm' = [r \in Runs |-> FALSE]
  /\ UNCHANGED <<inited, sealed, file, pc, holds, faults, lost, noted>>

Start ==
  /\ ~up /\ up' = TRUE /\ sealed' = TRUE
  /\ UNCHANGED <<inited, stops, file, pc, holds, faults, history>>

Fault(r) == Running(r) /\ faults < MaxFaults /\ faults' = faults + 1

\* A request or its answer is lost: the check goes on, other commands end the
\* run, with or without their effect on the server.
CurlFails(r) ==
  /\ Fault(r)
  /\ \/ Goes(r, "status", "init") /\ UNCHANGED <<inited, sealed, lost>>
     \/ /\ Goes(r, "init", "failed")
        /\ inited' \in {inited, up \/ inited}
        /\ lost' = (lost \/ inited' # inited)
        /\ UNCHANGED sealed
     \/ Goes(r, "seal", "failed") /\ UNCHANGED <<inited, sealed, lost>>
     \/ /\ Goes(r, "unseal", "failed")
        /\ sealed' \in {sealed, sealed /\ ~(up /\ Threshold = 1)}
        /\ UNCHANGED <<inited, lost>>
  /\ UNCHANGED <<up, stops, file, holds, noted, calm>>

\* The run is killed, perhaps while the shell writes the file it has opened.
Kill(r) ==
  /\ Fault(r)
  /\ pc' = [pc EXCEPT ![r] = "failed"]
  /\ file' \in {file} \cup (IF pc[r] \in {"store", "note"} THEN {"cut"} ELSE {})
  /\ lost' = (lost \/ pc[r] = "store")
  /\ noted' = (noted \/ pc[r] = "note")
  /\ UNCHANGED <<server, holds, calm>>

ScriptStep(r) ==
  \/ Begin(r) \/ CheckInit(r) \/ PostInit(r) \/ Store(r) \/ Note(r)
  \/ SealStatus(r) \/ Unseal(r) \/ Final(r) \/ Health(r)

Next ==
  \/ \E r \in Runs : ScriptStep(r) \/ CurlFails(r) \/ Kill(r)
  \/ Stop \/ Start

Spec == Init /\ [][Next]_vars

-----------------------------------------------------------------------------
\* The variables have their types; only an initialised server is unsealed, and
\* the script unseals with a key it has.
TypeOK ==
  /\ up \in BOOLEAN /\ inited \in BOOLEAN /\ sealed \in BOOLEAN
  /\ ~sealed => inited
  /\ file \in {"missing", "keys", "{}", "cut"}
  /\ pc \in [Runs -> Steps]
  /\ holds \in [Runs -> BOOLEAN]
  /\ \A r \in Runs : /\ pc[r] \in {"store", "unseal"} => holds[r]
                     /\ holds[r] => inited
  /\ stops \in 0..MaxStops /\ faults \in 0..MaxFaults
  /\ lost \in BOOLEAN /\ noted \in BOOLEAN
  /\ calm \in [Runs -> BOOLEAN]

\* With one share to enter, a run that says "Done" leaves an instance that the
\* health operation accepts, whatever other runs do, unless the server stopped.
DoneMeansHealthy ==
  Threshold = 1 => \A r \in Runs : pc[r] = "unhealthy" => ~calm[r]

\* The keys of an initialised server are in the file, or in a run about to
\* store them, however many runs race: only a lost answer or a run that found
\* the server initialised takes them away.
KeysKept ==
  inited /\ ~lost /\ ~noted =>
    file = "keys" \/ \E r \in Runs : pc[r] = "store"

\* "Output: JSON written to openbao-init-output.json containing root token &
\* unseal key": so says a run that ended well, of an instance that this script
\* initialised and stored the keys of.
OutputHasKeys == \A r \in Runs : pc[r] = "done" /\ ~lost => file = "keys"
=============================================================================
