--------------------------- MODULE InitUnsealProofs ---------------------------
(***************************************************************************)
(* Theorems about InitUnseal, for any set of overlapping runs, any number  *)
(* of stops of the server and of lost commands and killed runs.            *)
(***************************************************************************)
EXTENDS InitUnseal, TLAPS

\* A command of the script keeps the types.
LEMMA TypeCommand ==
  ASSUME TypeOK, NEW r \in Runs, ScriptStep(r)
  PROVE  TypeOK'
<1> USE DEF TypeOK, Goes, server, history
<1>1. CASE Begin(r)
  BY <1>1 DEF Begin, Steps
<1>2. CASE CheckInit(r)
  BY <1>2 DEF CheckInit, Steps
<1>3. CASE PostInit(r)
  BY <1>3 DEF PostInit, Steps
<1>4. CASE Store(r)
  BY <1>4 DEF Store, Steps
<1>5. CASE Note(r)
  BY <1>5 DEF Note, Steps
<1>6. CASE SealStatus(r)
  BY <1>6 DEF SealStatus, Steps
<1>7. CASE Unseal(r)
  BY <1>7 DEF Unseal, Steps
<1>8. CASE Final(r)
  BY <1>8 DEF Final, Steps
<1>9. CASE Health(r)
  BY <1>9 DEF Health, Steps
<1>10. QED
  BY <1>1, <1>2, <1>3, <1>4, <1>5, <1>6, <1>7, <1>8, <1>9 DEF ScriptStep

\* What a failed command may do: it moves its own run, initialises or unseals,
\* and remembers a lost initialisation.
LEMMA FailedCommand ==
  ASSUME TypeOK, NEW r \in Runs, CurlFails(r)
  PROVE  /\ \E to \in {"init", "failed"} : pc' = [pc EXCEPT ![r] = to]
         /\ pc[r] \in {"status", "init", "seal", "unseal"}
         /\ inited' \in BOOLEAN /\ (inited => inited') /\ (inited' /\ ~inited => lost')
         /\ lost' \in BOOLEAN /\ (lost => lost')
         /\ sealed' \in {sealed, FALSE} /\ (sealed /\ ~sealed' => pc[r] = "unseal")
         /\ UNCHANGED <<up, stops, file, holds, noted, calm>>
         /\ faults' = faults + 1 /\ faults < MaxFaults
<1>1. UNCHANGED <<up, stops, file, holds, noted, calm>> /\ faults' = faults + 1
      /\ faults < MaxFaults
  BY DEF CurlFails, Fault
<1>2. CASE Goes(r, "status", "init") /\ UNCHANGED <<inited, sealed, lost>>
  BY <1>1, <1>2 DEF Goes, TypeOK
<1>3. CASE /\ Goes(r, "init", "failed")
           /\ inited' \in {inited, up \/ inited}
           /\ lost' = (lost \/ inited' # inited)
           /\ UNCHANGED sealed
  <2>1. lost' \in BOOLEAN /\ (lost => lost') /\ (inited' /\ ~inited => lost')
    BY <1>3 DEF TypeOK
  <2>2. inited' \in BOOLEAN /\ (inited => inited')
    BY <1>3 DEF TypeOK
  <2>3. QED
    BY <1>1, <1>3, <2>1, <2>2 DEF Goes, TypeOK
<1>4. CASE Goes(r, "seal", "failed") /\ UNCHANGED <<inited, sealed, lost>>
  BY <1>1, <1>4 DEF Goes, TypeOK
<1>5. CASE /\ Goes(r, "unseal", "failed")
           /\ sealed' \in {sealed, sealed /\ ~(up /\ Threshold = 1)}
           /\ UNCHANGED <<inited, lost>>
  <2>1. sealed' \in {sealed, FALSE}
    BY <1>5 DEF TypeOK
  <2>2. QED
    BY <1>1, <1>5, <2>1 DEF Goes, TypeOK
<1>6. QED
  BY <1>2, <1>3, <1>4, <1>5 DEF CurlFails

\* A killed run is over; it may leave half a file behind.
LEMMA KilledRun ==
  ASSUME TypeOK, NEW r \in Runs, Kill(r)
  PROVE  /\ pc' = [pc EXCEPT ![r] = "failed"]
         /\ file' \in {file, "cut"} /\ (file' # file => pc[r] \in {"store", "note"})
         /\ lost' = (lost \/ pc[r] = "store")
         /\ noted' = (noted \/ pc[r] = "note")
         /\ UNCHANGED <<server, holds, calm>>
         /\ faults' = faults + 1 /\ faults < MaxFaults
BY DEF Kill, Fault

\* A fault, and the server's stops and starts, keep the types.
LEMMA TypeFault ==
  ASSUME TypeOK,
         Stop \/ Start \/ (\E r \in Runs : CurlFails(r) \/ Kill(r)) \/ UNCHANGED vars
  PROVE  TypeOK'
<1> MaxStops \in Nat /\ MaxFaults \in Nat
  BY BoundAssumption DEF BoundAssumption
<1> stops \in 0..MaxStops /\ faults \in 0..MaxFaults
  BY DEF TypeOK
<1>1. CASE Stop
  <2>1. calm' \in [Runs -> BOOLEAN] /\ stops' \in 0..MaxStops /\ up' = FALSE
    BY <1>1 DEF Stop
  <2>2. UNCHANGED <<inited, sealed, file, pc, holds, faults, lost, noted>>
    BY <1>1 DEF Stop
  <2>3. QED
    BY <2>1, <2>2 DEF TypeOK
<1>2. CASE Start
  BY <1>2 DEF Start, TypeOK, history
<1>3. ASSUME NEW r \in Runs, CurlFails(r)
      PROVE  TypeOK'
  <2>1. pc' \in [Runs -> Steps] /\ \A q \in Runs : q # r => pc'[q] = pc[q]
    <3>1. PICK to \in {"init", "failed"} : pc' = [pc EXCEPT ![r] = to]
      BY <1>3, FailedCommand
    <3>2. QED
      BY <3>1 DEF TypeOK, Steps
  <2>2. pc'[r] \in {"init", "failed"}
    BY <1>3, FailedCommand DEF TypeOK
  <2>3. inited' \in BOOLEAN /\ (inited => inited')
    BY <1>3, FailedCommand DEF TypeOK
  <2>4. sealed' \in BOOLEAN /\ (sealed /\ ~sealed' => pc[r] = "unseal")
    BY <1>3, FailedCommand DEF TypeOK
  <2>5. lost' \in BOOLEAN
    BY <1>3, FailedCommand
  <2>6. faults' = faults + 1 /\ faults < MaxFaults
    BY <1>3, FailedCommand
  <2>7. UNCHANGED <<up, stops, file, holds, noted, calm>>
    BY <1>3, FailedCommand
  <2>8. faults' \in 0..MaxFaults
    BY <2>6
  <2>9. ~sealed' => inited'
    BY <2>3, <2>4 DEF TypeOK
  <2>10. \A q \in Runs : /\ pc'[q] \in {"store", "unseal"} => holds'[q]
                         /\ holds'[q] => inited'
    BY <2>1, <2>2, <2>3, <2>7 DEF TypeOK
  <2>11. QED
    BY <2>1, <2>3, <2>4, <2>5, <2>7, <2>8, <2>9, <2>10 DEF TypeOK
<1>4. ASSUME NEW r \in Runs, Kill(r)
      PROVE  TypeOK'
  <2>1. pc' \in [Runs -> Steps] /\ pc'[r] = "failed" /\ \A q \in Runs : q # r => pc'[q] = pc[q]
    BY <1>4, KilledRun DEF TypeOK, Steps
  <2>2. file' \in {"missing", "keys", "{}", "cut"}
    <3>1. file' \in {file, "cut"}
      BY <1>4, KilledRun
    <3>2. QED
      BY <3>1 DEF TypeOK
  <2>3. faults' \in 0..MaxFaults
    BY <1>4, KilledRun
  <2>4. lost' \in BOOLEAN /\ noted' \in BOOLEAN
    BY <1>4, KilledRun
  <2>5. UNCHANGED <<up, inited, sealed, stops, holds, calm>>
    BY <1>4, KilledRun DEF server
  <2>6. QED
    BY <2>1, <2>2, <2>3, <2>4, <2>5 DEF TypeOK
<1>5. CASE UNCHANGED vars
  BY <1>5 DEF vars, TypeOK, server, history
<1>6. QED
  BY <1>1, <1>2, <1>3, <1>4, <1>5

\* The type invariant: among others, a run that unseals has a key, and only an
\* initialised server is unsealed.
THEOREM TypeCorrect == Spec => []TypeOK
<1>1. Init => TypeOK
  <2> SUFFICES ASSUME Init PROVE TypeOK
    OBVIOUS
  <2>1. pc \in [Runs -> Steps] /\ holds \in [Runs -> BOOLEAN] /\ calm \in [Runs -> BOOLEAN]
    BY DEF Init, Steps
  <2>2. stops \in 0..MaxStops /\ faults \in 0..MaxFaults
    BY BoundAssumption DEF BoundAssumption, Init
  <2>3. up \in BOOLEAN /\ inited \in BOOLEAN /\ sealed \in BOOLEAN /\ sealed
        /\ lost \in BOOLEAN /\ noted \in BOOLEAN
    BY DEF Init
  <2>4. \A r \in Runs : pc[r] = "off" /\ ~holds[r]
    BY DEF Init
  <2>5. QED
    BY <2>1, <2>2, <2>3, <2>4 DEF Init, TypeOK
<1>2. TypeOK /\ [Next]_vars => TypeOK'
  BY TypeCommand, TypeFault DEF Next
<1>3. QED
  BY <1>1, <1>2, PTL DEF Spec

-----------------------------------------------------------------------------
(***************************************************************************)
(* "Done".  DoneMeansHealthy speaks of a run whose health operation has    *)
(* failed; the strengthening says what such a run saw before: as long as   *)
(* the server has not stopped it is up, and from the moment the run is     *)
(* past its unseal step the server is unsealed, for only a start seals it. *)
(***************************************************************************)
Unsealed(r) == /\ up
               /\ pc[r] \in {"final", "done"} => inited /\ ~sealed
               /\ pc[r] # "unhealthy"

CalmInv == Threshold = 1 => \A r \in Runs : calm[r] => Unsealed(r)

\* The step of another run, too, can only unseal.
LEMMA CalmStep ==
  ASSUME TypeOK, CalmInv, [Next]_vars
  PROVE  CalmInv'
<1> SUFFICES ASSUME Threshold = 1, NEW q \in Runs, calm'[q]
             PROVE  Unsealed(q)'
  BY DEF CalmInv
<1> USE DEF CalmInv, Unsealed, Goes, server, history
<1> pc \in [Runs -> Steps]
  BY DEF TypeOK
<1>1. ASSUME NEW r \in Runs, ScriptStep(r)
      PROVE  Unsealed(q)'
  <2>1. CASE Begin(r)
    BY <2>1 DEF Begin, TypeOK
  <2>2. CASE CheckInit(r)
    BY <2>2 DEF CheckInit, TypeOK
  <2>3. CASE PostInit(r)
    BY <2>3 DEF PostInit, TypeOK
  <2>4. CASE Store(r) \/ Note(r) \/ Final(r)
    <3>1. PICK to \in {"seal", "done"} :
            pc' = [pc EXCEPT ![r] = to] /\ (to = "done" => pc[r] = "final")
      BY <2>4 DEF Store, Note, Final
    <3>2. UNCHANGED <<up, inited, sealed>> /\ calm[q]
      BY <2>4 DEF Store, Note, Final
    <3>3. pc'[q] = (IF q = r THEN to ELSE pc[q])
      BY <3>1
    <3>4. QED
      BY <3>1, <3>2, <3>3
  <2>5. CASE SealStatus(r)
    <3>1. PICK to \in Steps : pc' = [pc EXCEPT ![r] = to] /\ to # "unhealthy"
                             /\ (to \in {"final", "done"} => ~sealed)
      BY <2>5 DEF SealStatus, Steps
    <3>2. UNCHANGED <<up, inited, sealed>> /\ calm[q]
      BY <2>5 DEF SealStatus
    <3>3. ~sealed => inited
      BY DEF TypeOK
    <3>4. QED
      BY <3>1, <3>2, <3>3
  <2>6. CASE Unseal(r)
    <3>1. up => ~sealed'
      BY <2>6 DEF Unseal
    <3>2. pc' = [pc EXCEPT ![r] = IF up THEN "final" ELSE "failed"]
      BY <2>6 DEF Unseal
    <3>3. UNCHANGED <<up, inited, calm>> /\ inited
      BY <2>6 DEF Unseal, TypeOK
    <3>4. QED
      BY <3>1, <3>2, <3>3
  <2>7. CASE Health(r)
    BY <2>7 DEF Health, TypeOK
  <2>8. QED
    BY <1>1, <2>1, <2>2, <2>3, <2>4, <2>5, <2>6, <2>7 DEF ScriptStep
<1>2. ASSUME NEW r \in Runs, CurlFails(r)
      PROVE  Unsealed(q)'
  <2>1. pc' \in [Runs -> Steps] /\ \A p \in Runs : p # r => pc'[p] = pc[p]
    <3>1. PICK to \in {"init", "failed"} : pc' = [pc EXCEPT ![r] = to]
      BY <1>2, FailedCommand
    <3>2. QED
      BY <3>1 DEF Steps
  <2>2. pc'[r] \in {"init", "failed"} /\ up' = up /\ calm' = calm
    BY <1>2, FailedCommand
  <2>3. (inited => inited') /\ (~sealed => ~sealed')
    BY <1>2, FailedCommand
  <2>4. QED
    BY <2>1, <2>2, <2>3
<1>3. ASSUME NEW r \in Runs, Kill(r)
      PROVE  Unsealed(q)'
  BY <1>3, KilledRun
<1>4. CASE Stop \/ Start
  BY <1>4 DEF Stop, Start, TypeOK
<1>5. CASE UNCHANGED vars
  BY <1>5 DEF vars
<1>6. QED
  BY <1>1, <1>2, <1>3, <1>4, <1>5 DEF Next

\* With a threshold of one share, a run that ends with "Done" on a server that
\* did not stop meanwhile leaves it healthy, whatever other runs did.
THEOREM DoneIsHealthy == Spec => []DoneMeansHealthy
<1>1. Init => CalmInv
  BY DEF Init, CalmInv
<1>2. TypeOK /\ CalmInv /\ [Next]_vars => CalmInv'
  BY CalmStep
<1>3. CalmInv => DoneMeansHealthy
  BY DEF CalmInv, Unsealed, DoneMeansHealthy
<1>4. QED
  BY <1>1, <1>2, <1>3, TypeCorrect, PTL DEF Spec

-----------------------------------------------------------------------------
\* KeysKept is inductive beside TypeOK: the server initialises for one run only,
\* which then holds a key until it has stored it.
LEMMA KeysStep ==
  ASSUME TypeOK, KeysKept, [Next]_vars
  PROVE  KeysKept'
<1> USE DEF TypeOK, KeysKept, Goes, server, history
<1>1. ASSUME NEW r \in Runs, ScriptStep(r)
      PROVE  KeysKept'
  <2>1. CASE Begin(r)
    BY <2>1 DEF Begin
  <2>2. CASE CheckInit(r)
    BY <2>2 DEF CheckInit
  <2>3. CASE PostInit(r)
    BY <2>3 DEF PostInit
  <2>4. CASE Store(r)
    BY <2>4 DEF Store
  <2>5. CASE Note(r)
    BY <2>5 DEF Note
  <2>6. CASE SealStatus(r)
    BY <2>6 DEF SealStatus
  <2>7. CASE Unseal(r)
    BY <2>7 DEF Unseal
  <2>8. CASE Final(r) \/ Health(r)
    BY <2>8 DEF Final, Health
  <2>9. QED
    BY <1>1, <2>1, <2>2, <2>3, <2>4, <2>5, <2>6, <2>7, <2>8 DEF ScriptStep
<1>2. ASSUME NEW r \in Runs, CurlFails(r)
      PROVE  KeysKept'
  <2>1. pc[r] # "store" /\ \A p \in Runs : p # r => pc'[p] = pc[p]
    BY <1>2, FailedCommand
  <2>2. (inited' /\ ~inited => lost') /\ (lost => lost')
    BY <1>2, FailedCommand
  <2>3. file' = file /\ noted' = noted
    BY <1>2, FailedCommand
  <2>4. QED
    BY <2>1, <2>2, <2>3
<1>3. ASSUME NEW r \in Runs, Kill(r)
      PROVE  KeysKept'
  <2>1. \A p \in Runs : p # r => pc'[p] = pc[p]
    BY <1>3, KilledRun
  <2>2. pc[r] \in {"store", "note"} => lost' \/ noted'
    BY <1>3, KilledRun
  <2>3. (lost => lost') /\ (noted => noted') /\ inited' = inited
    BY <1>3, KilledRun
  <2>4. file' # file => pc[r] \in {"store", "note"}
    BY <1>3, KilledRun
  <2>5. QED
    BY <2>1, <2>2, <2>3, <2>4
<1>4. CASE Stop \/ Start
  BY <1>4 DEF Stop, Start
<1>5. CASE UNCHANGED vars
  BY <1>5 DEF vars
<1>6. QED
  BY <1>1, <1>2, <1>3, <1>4, <1>5 DEF Next

\* However many runs race to initialise, the keys end up in the file unless an
\* answer or a run was lost, or a later run put "{}" in their place.
THEOREM KeysAreKept == Spec => []KeysKept
<1>1. Init => KeysKept
  BY DEF Init, KeysKept
<1>2. TypeOK /\ KeysKept /\ [Next]_vars => KeysKept'
  BY KeysStep
<1>3. QED
  BY <1>1, <1>2, TypeCorrect, PTL DEF Spec
=============================================================================
