# A verification project for openkcm/blueprints

TLA+ models of the programs in this repository, the TLC runs that check them on
small instances, and proofs, checked by TLAPS, of theorems about them for every
instance. `PROJECT.json` maps every definition that models code to the lines it
models, and lists runs, findings, hazards and theorems in machine-readable form.
Paths below are relative to the repository.

## 1. The system

| Component | State | Operations | Talks to |
|---|---|---|---|
| **OpenBao REST server** (`openbao/main.go`, `-server`) | none of its own but the shared `http.Client` and token; each request is a goroutine that works through a list of calls | `/namespaces`, `/keys`, `/ensure-key-all-namespaces`, `/secrets`, `/health` | OpenBao, over HTTP, one blocking call after another |
| **OpenBao CLI** (`openbao/main.go`, `-op`) | none | the same helpers, one operation per process | OpenBao |
| **init-unseal** (`openbao/init-unseal.sh`) | the file `openbao-init-output.json`, a key in a shell variable | initialise, store keys, unseal, health check | OpenBao's `sys/init`, `sys/seal-status`, `sys/unseal` |
| **SIS plugin hosts** (`cmk/plugins/sis`, `cmk/plugins/sis-builtin`) | process stage, signal context, status goroutine, plugin catalog, HTTP server, requests in flight | start, serve `/ping`, stop | plugins (an external binary over go-plugin; a built-in one), telemetry, the status server |
| **Service repository and wrappers** (`internal/service/wrapper` of both) | the bound `SystemInformation` instance | bind, clear, reconfigure, close | the plugin SDK's catalog |
| **SIS plugins** (`external-plugin-binary`, `internal/builtin`) | build info | Configure, Get | called by the hosts |
| Makefiles, Dockerfile, `deploy.yaml`, CI | | build, test drivers, deployment | |

What makes each hard, and what makes it right:

* **REST server: keys and namespaces.** Every operation is a read followed by
  writes that depend on it, on a server that other handlers, other replicas of
  the process (`deploy.yaml`) and other clients change in between
  (`ensureTransitMounted`, `ensureTransitKey`, the sweeps over all namespaces);
  creation is three writes of which only the first is reported; a call may time
  out (30 s, `main.go:68`), be repeated by the client library or be carried out
  after it was given up; a body that does not decode is an empty map. Right
  means: an answer tells the truth about what was done, the report of a sweep is
  accurate and complete, an acknowledged creation or deletion stays true, no
  request waits for ever.
* **REST server and CLI: secrets.** The same read-then-mount on KV, with its
  error ignored by reads and deletes and fatal for writes; writes that are given
  up may land later. Right means: the requests together behave like one store of
  secrets, and a deletion can be repeated.
* **Routing.** What ServeMux's path cleaning and `strings.Split` make of a path:
  a request acts on what its client named, or on nothing.
* **CLI: keys and namespaces.** The helpers of the handlers in another process,
  beside the server's.
* **init-unseal.** Keys that exist nowhere else are written after the server
  has committed to them; runs overlap and repeat; the server restarts sealed.
  Right means: the keys are kept, and a run that says it is done leaves a server
  that works.
* **SIS hosts.** Start-up that fails half way; three kinds of goroutine beside
  main; a signal before main waits for one; shutdown that closes the plugins,
  then the server, while requests are in flight. Right means: an exit code 0
  tells the truth, plugins are not left behind in silence, clients read what
  happened, requests get their time, the process serves until it is told to stop
  and ends when it is.

## 2. Modules

| Module | What it is |
|---|---|
| `BaoServer` | the OpenBao server as `main.go` uses it (external: not in this repository) |
| `TransitKeys` | the handlers of `/namespaces`, `/keys` and `/ensure-key-all-namespaces`, composed with `BaoServer` |
| `MCTransitKeys` | `TransitKeys` for TLC, with the symmetry of the workers |
| `TransitKeysProofs` | types of `TransitKeys`, and that the report of ensure-all is sound: theorems and proofs |
| `TransitRepliesProofs` | that its replies are truthful, its engines left mounted, its sweeps complete |
| `TransitPromisesProofs` | that what it acknowledges holds |
| `Routing` | what the item handlers make of a path (operators only) |
| `KvServer` | the OpenBao server as the secrets half of `main.go` uses it (external) |
| `SecretStore` | the abstract specification: a store of secrets, one instant per request |
| `KvSecrets` | the handlers of `/secrets` and the CLI's secret operations, composed with `KvServer` and `Routing`; implements `SecretStore` |
| `MCKvSecrets` | `KvSecrets` for TLC: names with and without a slash, symmetry |
| `KvSecretsProofs` | types of `KvSecrets`, and that a deletion can be repeated: theorems and proofs |
| `KvRefinementProofs` | that `KvSecrets` implements `SecretStore`, and that only secrets somebody named go |
| `InitUnseal` | `init-unseal.sh`, the server's seal, and the health operation |
| `InitUnsealProofs` | theorems about `InitUnseal` and their proofs |
| `SisHost` | a process of `sis` or `sis-builtin` with its plugins, from start to exit |
| `SisHostProofs` | theorems about `SisHost` and their proofs |

### BaoServer

State: the namespaces that exist (`live`), those with transit mounted
(`mounted`), and `keys[n][k]`, a version and `deletion_allowed`. A call is
served atomically (`Serve`) with a verdict. What is assumed of the server, each
from how the code uses it:

* mounting over a mounted path is refused (the reason `ensureTransitMounted`
  reads first), creating an existing key succeeds and changes nothing (the
  reason repeated creation is answered 201), deletion needs
  `deletion_allowed` (comment at `main.go:340`), an empty list is a 404 (the
  reason `listTransitKeys` and `listNamespaces` look for "404");
* the namespace listing has the children, not the root. So a sweep covers the
  root exactly when there is no child or the listing is refused;
  `SweepCovers` is about the children for that reason;
* whether creating or deleting a namespace twice is refused differs between
  servers: both verdicts are possible;
* `CreateSetsDeletable`: whether the creation call already honours
  `deletion_allowed` of its body. A constant; OpenBao ignores it, and the runs
  have it FALSE;
* `CanListNamespaces`: the token may list namespaces. FALSE is a listing that
  is denied or unsupported.

### TransitKeys

A handler is a record `job[w]`: the request, the *stage* (the helper of
`main.go` it is in), the *phase* in it (`mounts` and `enable` are the two calls
of `ensureTransitMounted`, `call` is the helper's own call), the reply, and for
a sweep the namespaces listed, still to do, done and failed. `ans[w]` is an
answer that the server has given and the handler has not handled: between the two
the server may change, which is what makes a list or a mount table stale.

| Action | Code |
|---|---|
| `NamespacesCollection`, `NamespaceItem`, `KeysCollection`, `KeysItem`, `EnsureAllNamespaces` | the five handlers, up to their first call |
| `CliOperation` | `main`'s one-shot operations on keys and namespaces: the same helpers, the namespace always given, an exit code instead of a reply |
| `Reject` | the early 400/405 replies |
| `Exec` | the server handles the call a handler waits for |
| `Recv` | the handler handles the answer: one disjunct of `Handle` for each place a handler waits at (`MountsAnswered`, `CreateAnswered`, `ListAnswered`, ...), everything up to the next call or the reply |
| `Timeout` | a call fails: timeout, broken connection, 5xx. It may have been carried out, or be carried out later (`orphans`, `ExecOrphan`) |
| `Retry` | the client library repeats a call (its default: `MaxRetries`) |
| `Garble` | the body does not decode, the error is dropped (`main.go:801`, `main.go:265`) |
| `Crash` | the process dies |

`Onward`, `Succeed` and `Fail` are the loops of the sweeps with their
`continue`; `Configured` is what follows a creation in the handler (the
override of `allow_delete`) or in a sweep; `MountFailed` is where an error of
`ensureTransitMounted` is ignored (`listTransitKeys`), logged (the two
configurations) or returned. An item handler is given the root namespace by a
path whose first slash is escaped (without that, ServeMux redirects).

History variables, which no guard reads: `eff` (how often the server did what
the request asks), `seen` (where the key has existed since the request began),
`kept` (the namespaces there all along), `alone` and `promise` (what has been
acknowledged of a key with nobody else creating it meanwhile).

### Routing, KvServer, KvSecrets, SecretStore

A worker of `KvSecrets` is a handler goroutine or a CLI process. Its job has the
slot that the client means (`at`) and the one the handler acts on (`to`): equal for
`SecretsCollection` (body, query) and `CliOperation` (flags), and whatever
`Routing` makes of the path for `SecretsItem`. A namespace and a name are
sequences of segments, so that a name with a slash is one of two segments.
`Routing` has `strings.Split` with `parts[0]`, `parts[1]` (`ItemTarget`) and
ServeMux's redirect of a path with an empty segment, which an escaped slash
avoids (`Cleaned`, `Redirected`); a client follows a redirect or does not.

A handler looks for the engine first (phases `mounts`, `enable`: the two calls of
`enableKVIfNeeded`); `EngineReady` and `MountFailed` are its two outcomes, of which
the second is an error for a write and for `enable-kv` and ignored by a read and
a deletion (`main.go:939`, `main.go:1005`). The CLI goes to its own call at once.
`PutAnswered`, `GetAnswered` and `DeleteAnswered` are the ends of the helpers. The
client library turns a status from 400 on into an error, so the 404 that
`main.go:522` lets pass never gets there; that a deletion of nothing succeeds
is the server's doing (`KvServer`: metadata deletion is idempotent). A secret is
its map of fields, of which only the empty one is told apart: it is what a
body that does not decode reads like (`Garble`). The `mount` parameter is one
mount. Faults are those of `TransitKeys`; a worker that gives up a write leaves
it in `orphans`.

`SecretStore` says what a client may expect: each request takes effect at one
instant between the asking and a positive answer (`Ask`, `Take`, `Grant`), a
negative answer means no effect (`Refuse`), a read returns what was there at
its instant. Namespaces come and go (`live`, `NamespaceComes`, `Wipe`): nothing is
written, early or late, in one that is not there, and one that goes takes its
secrets with it; the root stays. After a
loss, and only then, an effect may be repeated, come with a negative answer
(`Lose`), or come late (`TakeLate`), and a read may show no fields. The refinement
mapping of `KvSecrets` is: `live` and `store` are the server's `live` and `secret`; `req[w]` is `job[w]`
with what the server has done for it so far (`took`, `saw`); `late` are the
abandoned puts and deletions; `lossy` is that a fault has happened. Looking for the
engine, mounting it, losing that race and the late mounts are stutters: the
abstract store has no engine.

### InitUnseal

One step for each command of the script that asks or changes the server or the
output file, with `set -e` as the transition to `failed` and `|| true` as
none. `up`, `inited` and `sealed` are the server, `file` the output, `holds[r]` the
shell variable `unseal_key` of run `r`. Any number of runs overlap or follow
each other; the server stops between any two commands and starts sealed.
`CurlFails` loses a request or its answer: the status check then reads like "not
initialised" (as does `false`, which jq's `//` skips), the other commands end
the run. `Kill` may leave half a file. `Unseal` enters the first share only, which
unseals the server if `Threshold = 1`. `Health` is `doHealth`, used by
`-op health` and by `GET /health`.

### SisHost

Variables: where main is (`main`), its errors and exit code, the signal context,
the status goroutine, the catalog and which of the two ways to the sis plugin it
has filled (`found`: by type and name for `sis`, bound to the repository for
`sis-builtin`), the HTTP server, and for each ping its place and what was
written to its client. `answered`, which no guard reads, is the pings whose plugin
has answered. `Close` may fail, and then some of the plugins may still be open
(`catalog = "half"`): the error is kept for the end, the shutdown goes on, and a ping
served meanwhile finds its plugin open or closed. `program` says which of the two
programs it is. They differ in the way to the plugin (`Available`), in an
external plugin being a process that may not come up (`PluginExits`), in the
validation of the request by `sis-builtin`'s wrapper (`InvalidRequest`), and in
`pingHandlerFunc`: `sis-builtin` goes on to write the result after it wrote an error.
What `catalog.New` enforces is the plugin SDK's: any of the two ways may be
empty once it succeeds. The actions of main are the statements
of `run`, `business.Main` and `StartHTTPServer` that can fail or block, in their
order, up to `os.Exit`; the others are the status goroutine (`StatusFails`,
`StatusTerminates`), the server goroutine (`Serve`, `ServeFails`), the signal and
the steps of a ping. Facts of Go's library it uses: `Shutdown` with a context that
is done closes the listeners and returns nil only if no connection is busy;
`Serve` after `Shutdown` returns `ErrServerClosed`; a signal after the first is
swallowed by the registered context.

## 3. Runs

Passing runs:

| Run | Question | Bounds |
|---|---|---|
| `keys_faults` | Does a 2xx mean it was done, and (without faults) a 502 that it was not, whatever is lost, repeated, garbled or crashes? `TypeOK`, `TruthfulReply` | 2 workers, 3 requests, 1 fault, root and one namespace, one key; token may not list namespaces |
| `keys_policy` | Does what is acknowledged hold, and is the engine left mounted? `AcknowledgedHolds`, `EngineLeftMounted` | 2 workers, 4 requests, no fault |
| `sweep` | Is the report of a sweep accurate and complete while namespaces and keys come and go, and does every request end? `ReportSound`, `SweepCovers`, `EveryRequestAnswered` | 2 workers, 2 requests, 1 fault, root and two namespaces |
| `secrets` | Do the handlers and the CLI together implement the abstract store, and can a deletion be repeated? `TypeOK`, `ImplementsStore`, `DeleteRepeatable` | 2 workers, 3 requests, 1 fault, root and one namespace that comes and goes, one name, two values |
| `init_unseal` | Does "Done" mean healthy, and where are the keys? `TypeOK`, `DoneMeansHealthy`, `KeysKept` | 3 runs, 2 stops, 2 faults, threshold 1 |
| `sis_lifecycle` | Exit code, plugins and replies of a host, that it serves until it is told to stop, and that it ends then: `TypeOK`, `CleanExit`, `OpenPluginsReported`, `ServesUntilTold`, `TruthfulPing`, `StopsWhenTold`, `StopsWithoutStatus` | 2 pings, both programs |

Runs that show a disagreement of the code with its documentation (TLC finds the
property violated):

| Run | Property | What happens |
|---|---|---|
| `mount_race` | `EngineMountedIfNeeded` | two first creations in a namespace: both find no engine, the second mount is refused, 502 |
| `ensure_race` | `ProtectionSurvivesEnsure` | ensure-all acts on a list from before the key was created protected, and makes it deletable |
| `wrong_secret` | `OnlyNamedSecretsGo` | `DELETE /secrets/n1/a/b` deletes the secret `a` |
| `init_overwrite` | `OutputHasKeys` | a second run of the script writes `{}` over the keys and ends well |
| `sis_refused_ping` | `PluginsOutliveRequests` | plugins are closed while the server still accepts requests |
| `sis_shutdown_timeout` | `GracefulStop` | the shutdown context derives from the cancelled one: the configured timeout never applies |

**Why the bounds are enough.** Handlers interact through the server only, on one
key and one namespace's engine at a time, so two handlers show every race of a
read with a write; a third would only repeat the second. Two requests are needed
for a race, a third for what it leaves behind, a fourth (`keys_policy`) for
an earlier acknowledgement that two racing requests could break. A second key
behaves like a second namespace. Two child namespaces are the fewest for which a
sweep has one behind it, one at hand and one to come. One fault is enough to
separate a handler from what the server did; that more faults, workers, names and
requests change nothing is proved for every safety property of these runs. For `secrets` the third request is what an
acknowledged one could be broken by after a first was given up and lands late;
the refinement is checked and proved for names without a slash, and
`wrong_secret` shows that it does not hold with one. Three runs of the script are two that race and one that
follows; that no number of runs, stops and faults matters is proved, and so it is
for the pings of a host.

**Symmetry** is used for the workers, in runs without liveness properties only.
**Deadlock** is not checked in these runs because the system may stop: when the
bounds `MaxRequests` and `MaxFaults` are used up and all handlers have
answered, and when a host has exited.

**Fairness.** `TransitKeys` (`FairSpec`, run `sweep`): weak fairness of `Exec(w)` and `Recv(w)`: a call is
answered or, after 30 seconds (`main.go:68`), fails, and goroutines are
scheduled; nothing is assumed of clients, faults or orphans. `SisHost`: weak
fairness of main's steps and of `StatusTerminates`; nobody promises a signal, a
client or that a plugin answers, and the host ends all the same, because
main waits for none of them.

Every property of a passing run has a mutant: a plausible mistake in one mapped
definition (an operator named in the module, marked "Mutant") under which TLC
finds the property violated.

## 4. Proofs

Every safety property that a passing run checks is also a theorem, for every
value of the constants, and so is the refinement of `SecretStore`. The
invariants below were checked by TLC on the bounds of the runs before they were
proved.

### Keys and namespaces

For any sets of workers, namespaces, keys and operations and any bounds.

`TransitKeysProofs`:

* `TypeCorrect == Spec => []TypeOK`. `TypeOK` is inductive. It ties a job's
  stage to its phase and a busy job to having no status. One lemma for each
  layer (`EnterType`, `OutcomeType`, `MountType`: the jobs a step leads
  to; `ServeType`: the server; `HandleType`: one case for each place a
  handler waits at; `BeginType`: requests), then `TypeStep`, one step per action.
* `ReportIsSound == Spec => []ReportSound`. `ReportSound` speaks of finished
  sweeps and is not inductive. The invariant `ReportInv` says of a sweep under
  way that the listed namespaces are split, without overlap, into done,
  failed, still to do and the one at hand, that a key is only configured where it
  has been seen, and that an answer not yet handled which will be taken for
  "the key is there" comes from a server on which it was. The lemmas
  follow the code: `OnwardSweep` and `OutcomeSweep` (the loop), `HandleSweep` (the
  places a handler waits at), `ServeSeen` (what the server does is seen).

`TransitRepliesProofs` starts from `StageInv` (the stages a request of each kind
can be in; an answer waits for a busy worker only) and from `HandleForm`, which
says once what the twelve disjuncts of `Handle` come to: the others' jobs and
answers stay, the request keeps its operation, its key and, unless it is a sweep,
its namespace, and a request for one namespace moves as the relation `Moves`
says, given the answer. Then each property has an invariant about requests under
way, a lemma for what a handler does with it, one for what the server's answer
adds, and a step lemma with one case per action:

* `RepliesAreTruthful == Spec => []TruthfulReply`, from `TruthInv`: how often the
  server did what is asked is told by the stage (a request that configures its
  key has created it) and by the answer to its own call, exactly before the first
  fault and from below after it (`MovesTruth`, `ExecTruth`).
* `EngineIsLeftMounted == Spec => []EngineLeftMounted`, from `EngineInv`: before the
  first fault and in a namespace that is there all along, a handler whose mount
  was refused lost that race, so the engine is there (`ServeEngine`,
  `ExecEngine`, `MovesEngine`).
* `SweepsCover == Spec => []SweepCovers`, from `CoverInv`: each child that is there
  all along is in the answer to the listing, and then done, failed, at hand or
  still to do (`OnwardCover`, `OutcomeCover`, `MountCover`, `ExecCover`). The reply of
  list-all has no place for failures; `ListInv` says that of the children that are
  there all along it fails on none before the first fault (`OnwardLists`,
  `HandleLists`, `ListStep`).

`TransitPromisesProofs`:

* `AcknowledgementsHold == Spec => []AcknowledgedHolds`. What is acknowledged rests
  on what the handler learnt of the server one or two calls earlier. `PromiseInv`
  says why it is still so: a key is in an engine and an engine in a namespace
  (`ServerInv`, so a mount that fails means that there is no key to configure); a
  worker that is alone is (`AloneInv`); what a lone worker knows of its key
  (`SetOK`: a configuration that failed found no key, one that succeeded did as
  it was told); nobody is asking for a key that something is promised of
  (`QuietInv`); and without faults no call is left behind. `ServeKey` is the
  reason others do no harm: a call that neither creates nor configures a key
  deletes it or leaves its policy alone. The property is stated up to the first
  fault because it is false after one: the override of `allow_delete` may be lost
  and is only logged (section 5).

### Secrets

For any workers, namespaces, names, values and bounds.

`KvSecretsProofs`:

* `TypeCorrect == Spec => []TypeOK`, from `TypeInv`: what a read hands on is the
  body of an answer, so the invariant adds that an answer fits the call it
  answers. The first attempt failed for a reason worth knowing: two guards of a `CASE`
  in `Handled` overlapped, and TLA+ does not say which one counts. The operator
  now has the order of the code, an `IF` for each helper.
* `DeleteCanBeRepeated == Spec => []DeleteRepeatable`, from `DeleteInv`: before the
  first fault and in a namespace that is there, a deletion that gets to its own
  call has an engine, whoever mounted it.

`KvRefinementProofs` assumes `SingleSegments`: namespaces have at most one segment
and secret names one. The constants of run `secrets` satisfy it; those of run
`wrong_secret`, with a name of two segments, do not, and there the conclusion of
`OnlyNamedDisappear` fails: it is the code that needs the hypothesis. It is used once, in `PathNamesSlot`: a path that an item handler accepts names
the slot its client means.

* `SecretsImplementStore == Spec => ImplementsStore`: initial states map to initial
  states and each step to a step or a stutter of `SecretStore`, one lemma per
  action (`BeginRefines`: `Ask`; `ExecRefines`: `Take`; `RecvRefines`: `Grant` or `Refuse`;
  `FaultRefines`: `Lose`; `OrphanRefines`: `TakeLate`; `NamespaceRefines`: `NamespaceComes`,
  `Wipe`). The
  invariant is `EffectInv`: before its own call nothing is done of a request, a
  positive answer says that it is and what a read saw, and before the first fault
  nothing is done that is not answered positively.
* `OnlyNamedDisappear == Spec => OnlyNamedSecretsGo`, an action property, from
  `NamedInv`: a deletion under way or left behind names a secret somebody asked to
  delete.

### Plugin hosts and script

`SisHostProofs`, for any set of ping requests:

* `TypeCorrect == Spec => []TypeOK`;
* `ExitIsClean == Spec => []CleanExit` and
  `OpenPluginsAreReported == Spec => []OpenPluginsReported`, both from the
  inductive invariant `StopInv`: the two properties speak of an ended process, the
  invariant of what main has left behind at each stage before. `Quiet` is an
  error-free end (plugins and server closed, no request in flight and no server
  that could accept one), `Excused` says why plugins may be open in the graceful
  sleep. `StopMain` is about main's steps, `StopOthers` about all the rest;
* `HostServesUntilTold == Spec => []ServesUntilTold`, from `ToldInv`: there is a
  server only from the listener on, and before a signal main is at most waiting for
  one, with its plugins open;
* `PingsAreTruthful == Spec => []TruthfulPing`, from `ReplyInv`: what has been
  written for a request fits the place it is at, one case for each step of the
  handler (`HandlerReplies`).

`InitUnsealProofs`, for any set of runs and any bounds:

* `TypeCorrect == Spec => []TypeOK`, which has the facts the others rest on: a run
  that stores or unseals has a key, a key exists only of an initialised server,
  and only an initialised server is unsealed. `FailedCommand` and `KilledRun`
  say what a fault may do;
* `DoneIsHealthy == Spec => []DoneMeansHealthy`, from `CalmInv`: while the server has
  not stopped since a run began, the run is past its unseal step only if the
  server is unsealed, and the steps of other runs can only unseal;
* `KeysAreKept == Spec => []KeysKept`, inductive beside `TypeOK`.

### Assumptions, and what is only model-checked

Assumptions used are the named ones of the modules: `RootAssumption`,
`KeysAssumption`, `FlagAssumption`, `OpsAssumption` and `BoundAssumption` for the
keys, `NamesAssumption` (segments are not empty, and the root namespace, the empty
sequence, is one of the namespaces), `ValuesAssumption` and `BoundAssumption` for
the secrets, `BoundAssumption` for the script; none for the hosts.

Model-checked only: liveness (`EveryRequestAnswered`, `StopsWhenTold`,
`StopsWithoutStatus`), which needs fairness and is outside of what the prover does.
The properties of the other violation runs are false of the code, so there is
nothing to prove.

## 5. Findings

Beside the six runs above, met while reading and not run:

* a body of `sys/namespaces` that does not decode makes `ensure-all` a sweep of
  nothing that answers 200 (`main.go:265`); `SweepCovers` excludes faults;
* a token that may not list namespaces makes `ensure-all` handle the root only
  and answer 200 (`main.go:252`, a fallback its comment announces);
* `sis-builtin` writes the result after an error (`ping_handler.go:71`);
* the override of `allow_delete` is the last of three writes, and its failure is
  logged only: with one lost call a creation is answered 201 and the key may be
  deleted all the same (`main.go:779`); `AcknowledgedHolds` is stated up to the first fault;
* a host whose start-up fails after the plugins were loaded, or panics because the
  sis plugin is not among them, does not close them (`http_server.go:40`, `:50`); `OpenPluginsReported` says that
  it ends with an error then;
* with `OPENBAO_INIT_THRESHOLD` above 1 the script enters one share of several and
  says "Done" of a server that stays sealed (`init-unseal.sh:33`, `:51`), so
  `DoneMeansHealthy` is for the default, 1;
* the comment at `main.go:522` says that a 404 is fine; the client library has
  made an error of it before.

## 6. Not modelled

TLS set-up, flags, logging, tracing, the request counter and the duration
histogram have no
effect on the state the properties are about. `-op` values are the actions
`CliOperation` and `Health`; what is printed is left out. The plugins keep no
state but their build info: to `SisHost` a plugin is a process that may not
start, a configuration it may not parse, and a call that returns or fails, or
never returns. `Repository.Clear` and `Reconfigure` are called by nothing in the
repository. Build and deployment files have no behaviour. Namespaces are children
of the root, one key name and one mount stand for all, and versions of a KV
secret are not kept apart.

## 7. Plan

Every safety property checked is proved. What could follow:

1. the progress arguments under the liveness properties, as far as they are
   safety: a sweep's namespaces still to do get fewer with each one done, a host
   past its signal only moves on;
2. what the disagreements of section 3 become when the code changes: a mount that
   is refused and looked up again (`mount_race`), an ensure-all that leaves a
   key's policy alone if it exists (`ensure_race`);
3. facts about `SecretStore` alone, which `SecretsImplementStore` then carries
   over to the handlers.
