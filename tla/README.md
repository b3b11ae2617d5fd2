# A TLA+ verification of mcp-rust-libs

The repository is a set of Rust crates (and some JavaScript and Python tooling) on which a fleet
of MCP servers is built. This directory holds TLA+ models of the parts in which concurrency,
failure and order decide whether the program is right, TLC configurations that check them on
small instances, and TLAPS proofs that carry the most important results to every value of the
constants. Paths below are relative to the repository; `crates/` stands for
`packages/rust/crates/`.

## 1. Inventory

| Component | State it keeps | Operations | Who it talks to |
|---|---|---|---|
| Remote MCP middleware, `crates/ore-mcp-remote/src/router.rs` | table of session bindings with `last_seen`, a semaphore of new-session permits | `authorize_mcp` and its helpers; `readiness`; header and origin checks | calls the verifier, forwards to the rmcp streamable-HTTP service, tells the rmcp session manager to close a session |
| Shared Auth verifier, `verifier.rs`, `policy.rs` | `CachedJwks`, refresh mutex, instant of the last attempt | `verify_bearer`, `warm`, `current_keys`, `refresh_keys`, claims authorization | fetches the key set of Shared Auth over HTTPS |
| Bounded subprocesses, `crates/ore-mcp-process` | child handle, two `BoundedBytes`/prefix buffers, deadline | `run_bounded`, `run_truncating` | the kernel: pipes, signals, wait |
| Line-capped stdio reader, `crates/ore-mcp-org-server/src/lib.rs` | gathered line, skip flag, pending frame and offset | `LineCappedReader::poll_read` | stdin below, the rmcp codec above |
| Conformance transport, `tooling/org-mcp-contract/stdio.mjs` | pending requests, failure, closing, byte count, line buffer | `request`, `notify`, `close`, event callbacks, timers | the compiled server it spawned |
| Conformance runner, `index.mjs`, `json.mjs` | digests, collected evidence | `checkImplementation`, contract admission, strict JSON | the transport; files on disk |
| Provider posture, `crates/ore-mcp-org-server/src/providers.rs`, `crates/ore-mcp-integrations` | configuration captured at start | eight provider reads and the posture tool | AWS, Kubernetes, NATS, GitHub, GCP, Supabase, Neon, Cloudflare |
| Organization server, `lib.rs`, `augment.rs`, `catalog.rs`, `remote.rs` | launch options, product catalog | merge of the parity catalog, `run_stdio`, `run_http` | runtime, stdio reader, remote router |
| Runtime lifecycle, `crates/ore-mcp-runtime` | bootstrap phase, telemetry guard | `prepare_stdio`, `serve_stdio`, `run_stdio`, exact protocol | bootstrap, telemetry, rmcp |
| Telemetry, `crates/ore-mcp-telemetry` | provider bundle, process-global subscriber, status | `init`, `shutdown`, drop of the guard | OTLP exporters |
| Outbound HTTP, bounded values, configuration, bootstrap: `ore-mcp-http`, `ore-mcp-safety`, `ore-mcp-config`, `ore-mcp-bootstrap` | none, or local to a call | endpoint admission, body bound, resolution of layered configuration, path and identity checks | called by all the others |
| Test kit, graph, fleet audit, Python gates: `ore-mcp-testkit`, `ore-mcp-zed-graph`, `ore-mcp-fleet-audit`, `tooling/*.py` | documents at rest | audits and validators | files |

What is hard, and what makes each component correct:

- **Middleware.** Every request is a task that is suspended at each await and dropped when its
  client goes away. The table lock is not held between the sweep of expired bindings, the
  reservation of a permit, the forwarded call and the insertion of the binding. Correct: no permit
  is lost or freed twice; a session serves only the principal that created it; a bound session
  never changes hands; deletions and 404s leave nothing bound; a session rmcp holds without a
  binding has a known cause; abandoned bindings are reclaimed.
- **Verifier.** Concurrent verifications, an ageing cache, key rotation, fetches that fail, time
  out or are abandoned in the middle. Correct: one fetch at a time, spaced by the backoff; a
  withdrawn key is not accepted beyond grace; an outage is never reported as a bad credential; the
  cache never goes back to an earlier key set.
- **Subprocesses.** Two pipes, a wait and a deadline race; descendants may hold the pipes after
  the child is gone. Correct: success means everything was read and the child reaped; no error
  leaves the child behind; nobody blocks on a full pipe; the call ends.
- **Stdio reader.** Chunks cut lines, CR LF pairs and oversized lines anywhere. Correct: what is
  handed out depends on the bytes alone, and memory is bounded by a frame.
- **Transport.** Replies, timeouts, exits, overflow and `close()` come in any order. Correct: every
  request is settled once, nobody waits on a dead transport, health after `close()` means all
  output was seen.
- **Posture.** Two checks per provider, in parallel or in sequence, under one deadline or their
  own. Correct: never better than its worst check, a refusal is not hidden, an outage is not called
  missing configuration.
- **Runtime and telemetry.** Several servers of one process contend for its one subscriber;
  providers fail to build or to shut down; callbacks fail and futures are dropped anywhere. Correct:
  the guard outlives the service on every path, of several initializations one owns the globals and
  the others shut their providers down, the status says which, and each provider is shut down once.
- **Admission.** Layers of policy, headers, token and claims in front of the product. Correct: what
  is served is entitled in every respect, nothing is looked at before its turn, and a refusal says
  what is so.
- **Outbound reads.** Redirects, a declared length that the body disagrees with, a body that
  overflows or breaks off. Correct: a state is told of a whole answer only, and secrets go where the
  caller said.
- **Catalogs.** A product lists page by page what it may not answer. Correct: an entry of the fleet
  is never hidden or doubled on a page, and who lists a tool answers it.
- **Conformance runner.** Files change while it runs, and may change back. Correct: what the
  certificate names is what ran and what judged it, unless the executable was put back meanwhile.
- **Configuration and launch.** A contract is read three times, and values come from four sources.
  Correct: no secret comes from argv, ranks are kept, nothing is bound before policy and keys stand.
- **Audits.** One pass over what they judge, which stops at the first complaint. Correct: the
  ruling is what a look at the whole would say.

`PROJECT.json` lists the hazards at their lines with the properties that would catch each of them.

## 2. Modules

| Module | Models | State and actions in terms of the code |
|---|---|---|
| `SessionLeases` | abstract: what stateful `/mcp` promises | leases and requests in service |
| `RemoteSessions` | `authorize_mcp` | `pc` is where a request is between two awaits; `binding`, `age`, `permits` are the table and the semaphore; `holding` the requests that own an `OwnedSemaphorePermit`. `live` and the `Serve*`/`Create*` actions are rmcp, modelled from what the middleware is ready to receive: a creation that succeeds or fails, whether or not a session was made for it, and a session header that names it, a bound one, none, or cannot be read. `Cancel` is the dropped future, wherever it waits |
| `RemoteSessionsProofs` | proofs | |
| `JwksVerifier` | `current_keys`, `refresh_keys`, `verify_bearer` up to the claims, `warm` | `cache` (immutable when its `gen` is 0), `attempt` and the mutex (`holder`, first-in first-out `queue`) are the fields of `RefreshState`; each stretch between awaits is an action; upstream publishes and withdraws keys at any time |
| `JwksVerifierProofs` | proofs | |
| `BoundedProcess` | one call of `run_bounded` or `run_truncating` | three futures (wait, two drains), deadline, kill, reap, and `Abandon` for the dropped call; child and grandchild write, close, fork and die as the kernel lets them |
| `FramedStream` | abstract: a line-framed stream | frames are a function of the bytes |
| `StdioFrames` | `LineCappedReader::poll_read` | one action per branch of the loop; bytes are three classes: CR, LF, other |
| `StdioTransport` | `connectStdio` | one action per callback; the event loop chooses the next one |
| `ProviderPosture` | eight provider reads and the posture | each piece of configuration is absent, invalid or valid; each check ends with an answer, a local decision or a failure |
| `OrgServerProofs` | proofs about `ProviderPosture`, `StdioFrames` and `AugmentedCatalog` | |
| `ServerLifecycle` | `prepare_stdio`, `PreparedStdio::serve`, telemetry `init`, `TelemetryGuard` | `phase` is where each server's task is; `retained`, `taken`, `alive` follow the two providers of a server from its bundle to its guard, its shutdown thread and their end; `subscriber` and `globals` are the process's; `DropFuture` is the dropped future, wherever it waits |
| `RemoteAdmission` | `RemoteAuthPolicy::new`, `RemoteMcpConfig::new`, the layers of `protected_mcp_router`, `authorize_claims` | `layer` is the layer a request has reached; each layer is one action that passes it or answers |
| `ServerProofs` | proofs about `ServerLifecycle`, `RemoteAdmission` and `ServerStartup` | |
| `HttpRead` | `HardenedHttpClient::new`, `get`, `BoundedBody`, `classify_status` | a client, one call, one response chunk by chunk |
| `BoundedReadProofs` | proofs about `BoundedProcess` and `HttpRead` | |
| `AugmentedCatalog` | `ParityAugmented` | composition, one action per page listed, one question |
| `ConformanceRun` | `checkImplementation`, `json.mjs` | one action per demand; `Edit` is somebody who changes one of the five files involved, to new contents or to those it had before |
| `ConformanceProofs` | proofs about `StdioTransport` and `ConformanceRun` | |
| `ServerStartup` | `resolve_config_path`, `StrictConfig`, resource attributes, `run_augmented_http` | one action per step from the search for the contract to the listener; `Rewrite` is somebody who edits a contract. Uses the policy of `RemoteAdmission` |
| `Audits` | the audits of the test kit, `zed-graph`, `fleet-audit`, and the redaction of external messages | a judge checks the head of its exhibit, then walks through its parts, one action per part |
| `AuditsProofs` | proofs | |
| `Lists` | | sums, selections and flattenings of sequences, as folds, for `ConformanceRun`, `Audits`, `AugmentedCatalog`, `ServerStartup` and the framed stream |
| `SequenceFacts` | lemmas on numbers, folds and sequences | |

An `MC` module beside each instantiates it for TLC: symmetry sets and the values a `.cfg` cannot
express. `MCLibraries` instantiates the six modules that work on one call at a time, and in which no
two calls share state: a behaviour of it is one of one of them, its `subject`. Many modules have operators named `X_Slip` in front of a decision `X`: the slip a rewrite
could make there. They are used by the mutants in `PROJECT.json`, each of which must violate its
property, and by nothing else.

Each decision of the code is one operator, so that a guard appears once. Variables whose comment
begins with *history* are not in the program: they record what a property speaks of (who created a
session, when a key was withdrawn, what a process has written) and no guard reads them, except
that rmcp never reuses an id it has used (`owner`), and that a bound on the length of a run is
stated on a history (`gen`, `written`, `sent`).

## 3. Runs

### Sessions (`RemoteSessions`)

| Run | Instance | Shows |
|---|---|---|
| `remote_sessions` | 2 requests, 2 principals, 2 sessions, 2 permits, either `mode`; bindings idle out at the next tick; rmcp answers a creation with any status, having made a session or not, and any session header | `PermitsConserved`: every permit is in the semaphore, in one creating request or in one binding. `ServedAsOwner`: a request past the lookup runs in a session its own principal created. `CapacityTestIsFresh`: an idle session refuses nobody. `EndedIsGone`: after a deletion or a 404 the session is not bound, whichever of two racing deletions came first. `NoSilentOrphan`: a session alive in rmcp is bound, about to be bound or closed, or was swept, abandoned by its creator, not closed when asked, or never named by rmcp. `ImplementsLeases`: the middleware implements `SessionLeases`, where a lease never passes from one principal to another |
| `remote_sessions_live` | 1 principal, 2 sessions, 1 permit | `AbandonedIsReclaimed`, provided creations keep coming |

Two requests are enough for every pair of stretches to interleave, and two sessions with two
permits for one to be swept while the other is created or served; a request that holds one of the
permits lets the other be the last. The clock is capped above the idle time, so expired and not
expired are both reached. `ServedAsOwner` and `EndedIsGone` leave out the sessions whose id rmcp itself gave
to a second creation while they were bound (`mistaken`): there the request of the first session and
the refused reply of the second cannot be told apart. The other properties are checked for every
answer above, and `NoSilentOrphan` states what they leave open.

`NoSilentOrphan` makes facts of the code visible. `max_sessions` bounds the bindings, not the
sessions of rmcp. One that no binding and no permit counts may live until its own keep-alive ends
it, and the property tells how it came to that:

- its binding was swept, which does not close it (`router.rs` 369-374; `orphans`);
- its creator disconnected between the response and the insertion, or while the handler waited for
  it to be closed (`orphans`);
- its creation failed and named it, but closing it failed, which nobody looks at (425; `orphans`);
- rmcp did not name it. A success without a session header, or any response whose header is
  malformed or doubled, is refused with 503 (394-406), a failure without the header is passed on
  (423), and a success under an id that is bound is refused (408-414). Whatever session was made for
  such a request stays alive (`unnamed`).

So the property does *not* say that a refusal leaves no session behind: it says that a session which
the response to its creation names is bound or closed, unless its creator leaves or closing it fails.

Likewise a request in a session that is answered with a header that cannot be read, or with that of
another session, gets 503 before the handler looks at the status (393-399, 427-433). A session
deleted by such a request, or gone, keeps its binding until the sweep. `EndedIsGone` speaks of
requests answered otherwise.

### Keys (`JwksVerifier`)

| Run | Instance | Shows |
|---|---|---|
| `jwks_verifier` | 2 tasks, 2 keys, ttl 1, grace 2, backoff 1, fetch deadline 1, 2 key sets served; a cache that is empty or was given to the constructor | `FetchesSpaced`, `WithdrawnKeysAgeOut`, `CacheNeverRegresses`, `VerdictsAreTrue`: a token is called bad for its key only if the key was unpublished at some instant of the call, and a static verifier asks nobody and never ages |
| `jwks_verifier_live` | 2 tasks, 1 key, 1 key set served, grace 1 | `EveryCallReturns` |

The constants keep the order of the real ones (ttl < grace; the deadline shorter than grace), and
two key sets are what a key needs to be published, withdrawn and seen withdrawn.
`WithdrawnKeysAgeOut` has a bound of grace plus one fetch: a key set is dated when the response is
complete, so what it says may be older by the time of the fetch. Keys given to the constructor are
the key set with order of service 0; they are immutable and never age.

### Subprocesses (`BoundedProcess`)

| Run | Instance | Shows |
|---|---|---|
| `bounded_process` | either function, limits 1 and 2 bytes, pipes and reads of 2, up to 4 bytes a stream | `CaptureIsTrue`: no byte is lost or counted twice, success means that every byte was seen, and an overflow is real. `NoPipeDeadlock`, `NoChildLeftBehind`, `EveryRunEnds`: a call that is not dropped returns, and the child of one that is dropped dies |

The limits are one below and one at the size of a pipe and of a read, so a chunk may end before,
at and across a limit, and the child may fill a pipe.

### Stdio (`StdioFrames`, `StdioTransport`)

| Run | Instance | Shows |
|---|---|---|
| `stdio_frames` | every input of up to 6 bytes, frames of 2, buffer of 3 | `ImplementsFramedStream`: the frames handed out are a function of the bytes, however they were cut; `AllFramesArrive` |
| `stdio_transport` | 2 requests, 4 tokens of output, bound of 3 | `NobodyWaitsInVain`, `HealthyMeansClean`, `SettledOnce`, `EveryRequestSettles`, `CloseEndsWithoutHeir` |
| `stdio_transport_heir` | 1 request, a process may be left behind | **violated**: `CloseIsBounded` (see section 6) |

Six bytes hold a line that ends exactly at the cap, one that passes it inside the first chunk, in a
later one or by its CR alone, and a good line after a skipped one.

### Posture (`ProviderPosture`)

| Run | Instance | Shows |
|---|---|---|
| `provider_posture` | any one or two of the eight providers, every configuration and answer | `NeverSyntheticSuccess`, `RefusalBlocks`, `PostureArrives`, `GapsAreTold`: what is called not configured is, and what is not configured is called so, AWS apart |
| `provider_posture_missing` | any one provider | **violated**: `MissingIsSaid` (see section 6) |

A report depends on its own provider only and the posture on the set of states, so two providers
show every pair of states that the fold has to rank. `RefusalBlocks` states its exception: the
common deadline of AWS and Kubernetes drops what one check had heard when the other is late.

### Lifecycle (`ServerLifecycle`)

| Run | Instance | Shows |
|---|---|---|
| `server_lifecycle` | 2 servers in one process, each with or without exporters, any of the two providers built, three protocol versions of which one is exact; a subscriber of somebody else's may come first | `StatusIsTrue`, `ProvidersEndOnce`, `ServiceKeepsItsTelemetry`, `OneVersionSpoken`, `TeardownEnds` |

Two servers are a winner and a loser of the race for the subscriber, and the other's subscriber
makes both lose. One version below the exact one and one above are what an order of versions can
tell apart; rmcp alone would settle on the lower one.

### One call at a time (`MCLibraries`)

| Property of `libraries` | Instance | Shows |
|---|---|---|
| `AdmissionIsEntitled` | a sound policy and those that differ from it in one item; under the sound one every request that differs from a good one in up to two items, else in one | `ServedIsEntitled`, `LookedInTurn`, `BlameIsTrue`, `ServesItself` |
| `HttpReadIsTrue` | every policy around its bounds, calls two items from a good one, limits of 2 and 3 bytes, chunks and declared lengths of up to 4, five statuses | `SecretsGoWhereTold`, `AnswersAreWhole`, `RefusalsAreRead`, `OverflowIsTrue` |
| `CatalogIsCallable` | primaries of one or two pages of up to two of five names, two of them the fleet's and one in its scope only; what a primary finds by name and what it serves are not what it lists | `PagesAreWhole`, `OwnersAnswer` |
| `EvidenceIsCurrent` | manifests and answers two items from a good one (one, when the text of an answer is not JSON, or too long or deep), up to two edits of five files, which may put back what was there | `CertifiedIsWhatRan`, `EveryCallCounted`, `AnswersAreAsDeclared` |
| `StartupIsTrue` | deployments two items from a good one, three contracts, two edits | `SecretsStayOutOfArgv`, `RanksAreKept`, `OwnedContract`, `DiagnosticsHoldNames`, `AttributesAreOwned`, `BoundBehindPolicy` |
| `AuditsAgree` | outputs of up to three lines, catalogs of up to three tools, graphs of up to four dependencies, repositories of up to two sources, texts of up to four characters, each around a bound of 2 | `StdoutIsJudged`, `SessionIsJudged`, `GraphIsJudged`, `FleetIsJudged`, `BracesAreMatched`, `NoSecretRemains` |

Two deviations from what is good show every pair of faults, hence the order in which they are
found and whether one hides the other; a third adds no decision, as each decision here reads one
item or two. The reference of each property is written over the whole of its subject at once, not
step by step as the code is.

What these models made visible:

- An allowlist that spells the server's own host in Unicode passes `validate_hosts`, which reads it as
  a URL, and never matches a `Host` header, which is ASCII (`ServesItself` states the exception).
- `parse_bearer_endpoint` is documented to ignore one terminal dot of a host; it ignores all.
- A refusal with an oversized body is reported as an oversized body, since the body is bounded
  before the status is classified (`RefusalsAreRead`).
- Parity entries come again on every page of a paginated primary, and a primary that lists a tool
  its `get_tool` does not find escapes the collision test (`FindsWhatItLists`).
- A conformance run digests the executable before it starts it and after it has drained it
  (`index.mjs` 167, 178, 209). An executable that is replaced in between is noticed as long as it
  stays; if the file is given back its first contents before the second digest, the certificate
  names an executable that never ran. The run reaches this with two edits, and `CertifiedIsWhatRan`
  makes the exception (`restored`) explicit.
- Of a structured operation the text beside `structuredContent` is never read (`index.mjs` 143-146), so an
  answer that contradicts itself is taken, although the comment at `index.mjs` 152 says "Reject
  disagreement rather than trusting one of two output representations": that is done for text
  operations alone. `AnswersAreAsDeclared` says what is known of either kind.
- The audit, the parse and the coercion of a configuration each read the contract anew. That secrets
  stay out of argv does not rest on the audit, as the parse itself is asked (`Sensitive`).
- A list of clients or origins in the environment that is blank counts as absent, and opens the
  defaults; one of nothing but commas is refused (`EnvValue`, `Csv`, `BoundBehindPolicy`).
- Resource pairs are capped before reserved and repeated keys are dropped, so those can crowd out
  later ones.
- A secret that contains a control character is not found in a message, because controls are blanked
  before the search (`NoSecretRemains` states the exemption).
- An unreadable source file is skipped by the fleet audit, and one closed schema anywhere settles the
  question for a repository.
- A frame with an id, a result and a method counts as a notification in the audit of stdout.

## 4. Fairness

- Tokio polls a task that is ready, so the steps a task takes without another party are weakly
  fair (`ReservePermit \/ RefuseCapacity`, `Progress`, the steps of a subprocess call, `PollRead`,
  the steps of a provider read). Nothing is assumed of clients, of rmcp, of upstream systems or of
  child processes, which may stop at any point.
- The clock runs (`Tick`, the kill timer, request timeouts).
- A fetch, a connection and an HTTP or NATS request end because their clients have deadlines of
  their own; the AWS and Kubernetes reads have none but the common deadline (`Expire`).
- The kernel ends a process that was sent `SIGKILL`, and tokio's orphan queue reaps.
- The mutex of the verifier is tokio's, which is handed over in the order of arrival.
- `AbandonedIsReclaimed` assumes that creations recur, since nothing else sweeps.
- The task of a server and its shutdown thread run when they can; nothing is asked of clients, of the
  callbacks of a product or of whoever drops a future (`ServerLifecycle`). A shutdown of a provider
  returns, with a result or a panic.

Deadlock is checked everywhere except in the runs of `BoundedProcess`, `StdioFrames`,
`StdioTransport`, `ServerLifecycle` and `MCLibraries`, which model one call, one stream, one transport,
servers that run once and one call at a time, and really end.

## 5. Proofs

All proofs hold for every value of the constants that satisfies the named assumptions of the
module (finitely many requests, distinct sentinels, the ranges of the bounds).

**`RemoteSessionsProofs`.** `PermitsConserved` is not inductive: a reservation must not find its
request among the holders, an insertion must come from a holder, and cardinalities mean nothing
for infinite sets. `AccountInv` adds the types, the finiteness of `Bound`, `HoldersCreate` (who owns
a permit came without a session and is past the reservation) and `CallersKnown`. Each action is
shown to preserve it by its effect on the three counts. `IdentityInv`, on top of it, says that a
binding names the principal that created the session, unless rmcp gave its id to two creations, and
that requests past the lookup are the caller's own; it gives `ServedAsOwner`. The refinement of
`SessionLeases` is proved step by step, faults of rmcp included: a sweep maps to `Release`, an insertion to `Grant`, whose
capacity guard follows from `AccountInv`, a lookup to `BeginService`, the end of a request to
`EndService` or `EndAndRelease`. `DisposalInv` follows sessions to their end: what is known anywhere
was created once (`OwnersKnown`), a session that waits to be bound or closed is known to its creator alone
(`RepliesFresh`), a response that ends a binding finds its session gone from rmcp (`EndedInRmcp`), and
what lives is accounted for (`LiveAccounted`): in the table, in the hands of a creator, or in one of the
two histories of what was left behind. Without `RepliesFresh` a deleted session could be bound again by a late
insertion; with it `EndedIsGone` and `NoSilentOrphan` follow. `CapacityTestIsFresh` is inductive by
itself. That no step hands a bound session to another principal (`BindingsNeverHandedOver`) follows from the refinement.

**`JwksVerifierProofs`.** What makes `WithdrawnKeysAgeOut` inductive is that keys and key sets age together:
`KeysAge` says of every key set in the cache, in the hands of a task or on its way that each of its
keys was withdrawn no longer ago than the age of the set plus the time of one fetch, and that a set
on its way is as old as its fetch. `StampIsTrue` (the stamp of the attempt is the age of the last
request) gives `FetchesSpaced`; `ServedInOrder` (the holder of the mutex has the newest key set) gives
`CacheNeverRegresses`; `AbsenceSeen` (an unpublished key was noted, when the call began, when upstream
answered and now) gives the part of `VerdictsAreTrue` about unknown keys. Every task that leaves with a
verdict does so by `Become`, so one lemma (`BecomeKeeps`) covers six actions.

**`BoundedReadProofs`.** `CaptureInv` adds to the properties of a subprocess call what links them: a result
fits the phase of the call, bytes are dropped only beyond the limit, and a drain that has returned left an
empty pipe that nobody can write to, which also gives `NoPipeDeadlock`. The arithmetic of one read is the
lemma `ReadSplits`. While the body of a response streams, all that has arrived is held, within the limit,
and a length that was announced is within it too (`HttpInv`); so the two overflows cannot be confused and
a state is told of a whole body.

**`ServerProofs`.** `LifecycleInv` follows the providers of each server: `Custody` says who
has them (bundle or guard, thread, or nobody any more) and counts their ends, `Progress` what a phase
says of them and of the race for the subscriber, `Reported` what the status says in each phase, and
`Session` that a running service has its task waiting for it. `GlobalsOfWinner` ties the globals to the
subscriber, which is what lets a loser leave them alone. One lemma per action keeps all of them, and
the four safety properties are read off the invariant, for any number of servers.
`AdmissionInv` says what is known of a request behind each layer. The
lemma `ClaimsEntitle` shows that what the layers ask of claims one by one is what `Entitled` says of
the token as a whole, and `OwnIsAllowed` that a policy without a complaint leaves the server reachable
under its own name. Assumed of policies: a client is named and an assurance level is 1, 2 or 3.
Of a start, `StartupInv` keeps the place of the contract and the policy launched (`Launched`) beside the five
properties of `StartupIsTrue` that hold in every state; the sixth, `BoundBehindPolicy`, is what `Launched`
says of a server that serves: a launch that passed every test of `remote_launch` (`FaultlessLaunch`) has a
policy without a complaint, and what it lets in was set (`PolicyStands`). `ParseResolves` is
about one parse, whatever the audit read: every argument of an acceptable parse is among the resolved
values, and none of a secret key is. `AttributesStand` says of the gathering of attributes, by induction over
its pushes (`GatheredMembers`), that it keeps the standard keys, repeats none and leaves one out only when
there is no more room. Assumed (`Ordinary`): no argument gives a value to a key that another gives one to, as the
parser decides between those, and a value is never the name of an option or a key, without which "a
diagnostic holds no value" would mean nothing.

**`OrgServerProofs`.** Of the posture, `PostureInv` says of every provider asked why it stands where it does:
`HeardIsEarned` (a check that was heard is one of the report's, and was decided here exactly when there was
something to decide here) and `Grounds` (a report is of missing, of unusable or of complete configuration,
and in the last case of all that was heard or of a deadline). `ReportIsWorst` says that the
report of all that was heard is as bad as the worst of it, and `RefusalCounts` that no refusal is lost in it; with these
`NeverSyntheticSuccess`, `RefusalBlocks` and `GapsAreTold` are read off the grounds. It is only that every
provider's grounds are kept while the others move that makes the posture what they say together.
Of the reader, `Worked(c)` says what state the bytes `c` consumed so far leave it in: what was sent is `c`, then
the buffer, then the pipe; what was handed out and what is pending are together the frames of `c`; and the line
gathered is the unfinished line of `c`, unless it is being skipped, when that line is longer than a frame. Three lemmas
about frames make this inductive: one more byte leaves them as they were or adds the line it ends (`OneByte`),
bytes without a newline add none (`WithinALine`), and more input never changes the frames there were
(`FramesGrow`). With them every step of the reader is `Give`, `Send`, `Close` or `End` of the framed stream,
or none (`FramesRefineStream`), however the bytes are cut and whatever room the caller has; that the stream
goes on giving, the fairness in `StreamSpec`, is model-checked.
Of the catalog, `CatalogInv` says that every page a client has got is the merge of the page of that number of
the primary with the catalog of the fleet, and that a name is asked for only of a composition that did not
collide. What a merge is, is a matter of sorting: an entry goes behind those that
come before it, so its place is a count, and no two have the same. `SortedIsOrdered` concludes that sorting is a
permutation and that the result is in order; `MergedIsWhole` that nothing of either side is lost, that nothing
is doubled which the primary did not double, and that the owner of an entry is the one who listed it. With that `ListedByOwner` and
`AnswersTell` compare who listed a name with who answers it. Assumed: the fleet shares finitely many names
of a kind, and a primary lists some pages.

**`ConformanceProofs`.** Of the transport, `TransportInv` adds to types and `NobodyWaitsInVain` that every
token written is counted or on its way, that a transport which has not failed is within its bound, and that
one which saw its child close without failing holds no half line; `HealthyMeansClean` is what this says after
`close()`. `Settling` (a step settles requests that are pending and touches no other) is shown once for
`fail()` and once for the data callback and gives `SettledOnce`. Of the run: whenever the server is
up or being judged, `RunInv` says that the executable started is the one digested, or the file on disk
differs from the digest, or it was given back the digested contents since; an edit that ends the second case
brings about the third. So equal digests leave only the first and the third (`CertifiedIsWhatRan`). `TakenAgrees`
reads off an answer that is taken what its encoding vouches for (`AnswersAreAsDeclared`). `CountInv` says that the calls made and those left, sort by
sort, are the sum over the manifest (`EveryCallCounted`); that the list of all calls holds as many of each
sort is the lemma `AllCallsCounted`, by induction over the tools. Together they are `EvidenceIsCurrent`.
Assumed: `Nil` is neither a text nor a code nor a number.

**`SequenceFacts`.** The induction theorems of the library take a predicate as a parameter, which no installed
prover can instantiate. Here the predicate is a set (`NatSetInduction`, from the well-foundedness of finite
sets under inclusion), and a fold over a sequence, which the community modules define by recursion over
finite sets, is shown to exist and to have the values its equation gives it (`FoldExists`,
`FoldPrefix`, `Recursion`). From that follow the laws of `SumSeq`, `Sifted` and `FlattenSeq` that the proofs
about runs and audits cite: what they give for the empty sequence, for one more element, for a concatenation,
where the elements of a flattened sequence are found (`FlattenPlaces`), which members a selection, a
concatenation and a list of a set have (`SiftedMembers`, `MembersOfConcat`, `ListOfSet`), and the induction over the length of a
sequence and the laws of concatenation that the framed stream needs (`SequenceInduction`, `Regroups`).

**`AuditsProofs`.** A judge sees one part at a time, so its invariant says what holds of the parts before
`place`, and the property is what this says once it rules. `BasicInv` is what all share: behind the head
nothing was wrong with the head. `StdoutInv` and `ResultInv` carry a sum of the parts passed, `CatalogInv`
and `GraphInv` the set of their names, `FleetInv` which findings, schemas and denials they gave.
- `BracesInv` has to know where in an object the scanner stands. An object is a sequence of
  tokens (`IsObject`), and the scanner is either between two of them, at the depth of what it has
  read, or inside a string, where it takes a byte for escaped exactly when it is (`Reading`). So a brace in
  a string is never counted, the depth does not reach zero before the last token, and does there.
- `TextInv` follows a scan for one secret by where its output comes from (`Traced`): neighbours come
  from neighbours, and none from the start of an occurrence. A secret in the output, of which no
  character is the mark, would therefore have stood in the text at a place where the scan stopped
  (`OccurrencesStay`); so one pass leaves none of its secret, and no later pass puts together one that was
  missing before. `TruncatedIs` says what truncation leaves, and cutting adds no occurrence.

Assumed of exhibits (`ExhibitsAreTyped`): each is what its judge is given, sizes are numbers, an object
that `balanced_object_end` is asked for begins with its brace, and secrets hold neither of the two marks
that redaction and truncation write. The last is a simplification: the marks are atoms of the model, while a secret that is a part of the
text "[REDACTED]" could be found in the mark itself. `NobodyIsNoWord`: the absent value is no verdict.

Liveness under fairness is out of the prover's reach: `EveryCallReturns`, `AbandonedIsReclaimed`,
`EveryRunEnds`, `AllFramesArrive`, `EveryRequestSettles`, `CloseEndsWithoutHeir`, `PostureArrives` and
`TeardownEnds` are model-checked only. So is the fairness of `FramedStream`. Every invariant that a run
checks is proved.

## 6. Disagreements between the code and its documentation

1. **`close()` of the conformance transport is not bounded** (`stdio_transport_heir`). `close()` signals
   the child alone and then awaits its `close` event (`tooling/org-mcp-contract/stdio.mjs:97-101`),
   which Node delivers when every holder of the stdio pipes has closed them. A process the server
   leaves behind keeps the await from ending, although `docs/mcp-wire-evidence.md:40` speaks of
   "the existing bounded child shutdown". Once no such process is left the await ends
   (`CloseEndsWithoutHeir`, `stdio_transport`).
2. **An AWS account without a cluster list is `degraded`, not `not_configured`**
   (`provider_posture_missing`). `crates/ore-mcp-org-server/src/providers.rs:137-146` passes an empty
   list to an adapter that refuses it, while `README.md:90-101` says that missing configuration
   returns `not_configured`. Every other provider does (`MissingIsSaidElsewhere`).

## 7. Not modelled

- The content of tool results, payload projections of the providers, rendering and logging: no
  property here depends on them.
- Key material and signatures: whether a signature verifies is an input, and a key id whose material
  was replaced is one of the kinds of key a token may have (`rekeyed`).
- The parser flags2env, the JSON schema validator and the OpenTelemetry SDK, except for what the code
  expects of them.
- Character-level grammars (names, versions, hosts, headers, JSON): an input is well-formed or not.
- Which files the fleet audit walks and the patterns it searches for; the recording of tool calls in
  telemetry, which changes no state.
- rmcp, tokio, Node and the kernel, except as the actions of an environment.
- Workflows, contracts and ledgers (`.github`, `contracts`, `fleet`): data, not a program.
- The Python auditors and validators: they check documents at rest, in sequence, and what could go
  wrong in them is in the patterns and tables they hold.

## 8. Plan

In order of importance; all but the last are done.

1. `SessionLeases`, `RemoteSessions`, their proofs.
2. `JwksVerifier`, its proofs.
3. `BoundedProcess`, its proofs.
4. `FramedStream`, `StdioFrames` refining it, its proofs.
5. `StdioTransport`, its proofs.
6. `ProviderPosture`, its proofs.
7. `ServerLifecycle`, its proofs.
8. `RemoteAdmission`, its proofs; `HttpRead`, its proofs; `AugmentedCatalog`, its
   proofs; `ConformanceRun`, its proofs.
9. `ServerStartup`, its proofs; `Audits`, its proofs.
10. The Python gates as further judges of `Audits`.
