--------------------------- MODULE ServerLifecycle ---------------------------
(***************************************************************************)
(* A stdio server from its RuntimeSpec to the flush of its telemetry       *)
(* (ore-mcp-runtime prepare_stdio and PreparedStdio::serve over            *)
(* ore-mcp-telemetry init and TelemetryGuard), for several servers started *)
(* in one process: embedders and tests do that, and they share the one     *)
(* subscriber and the two global providers a process has.                  *)
(*                                                                         *)
(* A server is one task; a stretch between two points at which another     *)
(* thread may step in is one action. Its future may be dropped wherever it *)
(* waits. The rmcp service and the OpenTelemetry SDK are external: a       *)
(* provider may fail to build, and its shutdown may fail or panic.         *)
(***************************************************************************)
EXTENDS Naturals

CONSTANTS
  Servers,   \* servers started in this process
  Nobody,    \* no subscriber, no global provider yet
  Foreign,   \* a subscriber that is not this crate's
  Versions,  \* protocol versions clients ask for, later ones larger
  Exact      \* the version ExactProtocol was made for

ASSUME LifecycleConstants ==
  /\ Nobody \notin Servers /\ Foreign \notin Servers /\ Nobody # Foreign
  /\ Versions \subseteq Nat /\ Exact \in Versions

VARIABLES
  phase,       \* where each server's task is
  service,     \* its rmcp service
  wanted,      \* servers with an OTLP endpoint
  built,       \* history: the providers that could be built
  retained,    \* the providers its bundle, later its guard, still owns
  taken,       \* the providers its shutdown thread owns
  thread,      \* the provider that thread is at
  alive,       \* providers that have not been shut down
  panicked,    \* servers whose shutdown thread has panicked
  shuts,       \* history: shutdown calls per provider
  status,      \* the ExporterStates of its TelemetryStatus
  negotiated,  \* the protocol version of its session
  accepted,    \* history: versions of the initialize requests it accepted
  subscriber,  \* owner of the process's tracing subscriber
  globals      \* owners of the process's global providers

taskVars == <<phase, service, negotiated, accepted>>
guardVars == <<wanted, built, retained, status>>
threadVars == <<taken, thread, alive, panicked, shuts>>
processVars == <<subscriber, globals>>
vars == <<phase, service, negotiated, accepted, wanted, built, retained, status,
          taken, thread, alive, panicked, shuts, subscriber, globals>>

Kinds == {"metrics", "traces"}
ExporterState == {"unknown", "disabled", "enabled", "build_failed", "suppressed"}

(* The shutdown of a guard, or of a bundle that came too late, runs in     *)
(* these phases; "armed" is a server whose TelemetryGuard is made.         *)
Stopping == {"lost", "shutdown", "dropping"}
Early == {"new", "spec", "configured", "built", "won"}
Guarded == {"armed", "prepared", "initializing", "waiting"}
Phases == Early \cup Guarded \cup Stopping \cup {"over"}

TypeOK ==
  /\ phase \in [Servers -> Phases]
  /\ service \in [Servers -> {"none", "running", "cancelled", "ended"}]
  /\ wanted \in SUBSET Servers
  /\ built \in [Servers -> SUBSET Kinds]
  /\ retained \in [Servers -> SUBSET Kinds]
  /\ taken \in [Servers -> SUBSET Kinds]
  /\ thread \in [Servers -> {"idle", "metrics", "traces", "done"}]
  /\ alive \in [Servers -> SUBSET Kinds]
  /\ panicked \in SUBSET Servers
  /\ shuts \in [Servers -> [Kinds -> 0..2]]
  /\ status \in [Servers -> [Kinds -> ExporterState]]
  /\ negotiated \in [Servers -> Versions \cup {0}]
  /\ accepted \in [Servers -> SUBSET Versions]
  /\ subscriber \in Servers \cup {Nobody, Foreign}
  /\ globals \in [Kinds -> Servers \cup {Nobody}]

Init ==
  /\ phase = [s \in Servers |-> "new"]
  /\ service = [s \in Servers |-> "none"]
  /\ wanted = {}
  /\ built = [s \in Servers |-> {}] /\ retained = [s \in Servers |-> {}]
  /\ taken = [s \in Servers |-> {}] /\ thread = [s \in Servers |-> "idle"]
  /\ alive = [s \in Servers |-> {}] /\ panicked = {}
  /\ shuts = [s \in Servers |-> [k \in Kinds |-> 0]]
  /\ status = [s \in Servers |-> [k \in Kinds |-> "unknown"]]
  /\ negotiated = [s \in Servers |-> 0]
  /\ accepted = [s \in Servers |-> {}]
  /\ subscriber \in {Nobody, Foreign}
  /\ globals = [k \in Kinds |-> Nobody]

-----------------------------------------------------------------------------
(* The decisions, each with the slip a rewrite could make. *)

(* RuntimeSpec::new: only stdio is served, and the version is a token.     *)
ValidSpec(transport, versionOk) == transport = "stdio" /\ versionOk

(* build_provider_bundle_with builds the two providers independently.      *)
BundleStatus(s, made) ==
  [k \in Kinds |-> CASE s \notin wanted -> "disabled"
                     [] s \in wanted /\ k \in made -> "enabled"
                     [] s \in wanted /\ k \notin made -> "build_failed"]

(* Only a bundle whose subscriber was installed becomes global.            *)
GlobalsAfter(s) == [k \in Kinds |-> IF k \in built[s] THEN s ELSE globals[k]]

(* A late bundle says which of its providers were built for nothing.       *)
LateStatus_All(s) == [k \in Kinds |-> "suppressed"]
LateStatus(s) ==
  [k \in Kinds |-> IF k \in built[s] THEN "suppressed" ELSE status[s][k]]

(* tracer_provider.take(), meter_provider.take(): what the guard has left. *)
LeftAfterTake_Cloned(s) == retained[s]
LeftAfterTake(s) == {}

(* ExactProtocol::accepts. *)
Accepts_Older(v) == v <= Exact
Accepts(v) == v = Exact

(* rmcp settles on the older of what the client asked and what get_info,   *)
(* which ExactProtocol overrides, answers.                                 *)
Settled(v) == IF v < Exact THEN v ELSE Exact

(* Where the shutdown thread is after provider k; a panic ends it too.     *)
AfterProvider_NoResult(k, panics) ==
  IF panics THEN "gone" ELSE IF k = "traces" THEN "done" ELSE "traces"
AfterProvider(k, panics) == IF panics \/ k = "traces" THEN "done" ELSE "traces"

(* The guard is a local of serve(), not of the caller that prepared it.    *)
AfterServe_GuardDropped == "dropping"
AfterServe == "waiting"

-----------------------------------------------------------------------------
Move(s, p) == phase' = [phase EXCEPT ![s] = p]

(* RuntimeSpec::new *)
NewSpec(s, transport, versionOk) ==
  /\ phase[s] = "new"
  /\ Move(s, IF ValidSpec(transport, versionOk) THEN "spec" ELSE "over")
  /\ UNCHANGED <<service, negotiated, accepted, guardVars, threadVars, processVars>>

(* parse_config *)
ParseConfig(s, endpoint) ==
  /\ phase[s] = "spec"
  /\ Move(s, "configured")
  /\ wanted' = IF endpoint THEN wanted \cup {s} ELSE wanted
  /\ UNCHANGED <<service, negotiated, accepted, built, retained, status>>
  /\ UNCHANGED <<threadVars, processVars>>

(* parse_config or initialize_telemetry returns an error: no guard is made. *)
CallbackFails(s) ==
  /\ phase[s] \in {"spec", "configured"}
  /\ Move(s, "over")
  /\ UNCHANGED <<service, negotiated, accepted, guardVars, threadVars, processVars>>

(* build_provider_bundle: without an endpoint nothing is built. *)
BuildProviders(s, made) ==
  /\ phase[s] = "configured"
  /\ s \notin wanted => made = {}
  /\ Move(s, "built")
  /\ built' = [built EXCEPT ![s] = made]
  /\ retained' = [retained EXCEPT ![s] = made]
  /\ alive' = [alive EXCEPT ![s] = made]
  /\ status' = [status EXCEPT ![s] = BundleStatus(s, made)]
  /\ UNCHANGED <<service, negotiated, accepted, wanted, processVars>>
  /\ UNCHANGED <<taken, thread, panicked, shuts>>

(* install_subscriber: try_init, the first of the process wins. *)
InstallSubscriber(s) ==
  /\ phase[s] = "built"
  /\ IF subscriber = Nobody
     THEN subscriber' = s /\ Move(s, "won")
     ELSE UNCHANGED subscriber /\ Move(s, "lost")
  /\ UNCHANGED <<service, negotiated, accepted, guardVars, threadVars, globals>>

(* install_globals, and the TelemetryGuard of the server that won. *)
InstallGlobals(s) ==
  /\ phase[s] = "won"
  /\ globals' = GlobalsAfter(s)
  /\ Move(s, "armed")
  /\ UNCHANGED <<service, negotiated, accepted, guardVars, threadVars, subscriber>>

(* The product, or another library, installs a subscriber of its own. *)
ForeignInstalls ==
  /\ subscriber = Nobody
  /\ subscriber' = Foreign
  /\ UNCHANGED <<taskVars, guardVars, threadVars, globals>>

(* build_server: its error drops the guard before it is returned. *)
BuildServer(s, ok) ==
  /\ phase[s] = "armed"
  /\ Move(s, IF ok THEN "prepared" ELSE "dropping")
  /\ UNCHANGED <<service, negotiated, accepted, guardVars, threadVars, processVars>>

(* PreparedStdio::into_parts, and the caller shuts the guard down itself. *)
IntoParts(s) ==
  /\ phase[s] = "prepared"
  /\ Move(s, "shutdown")
  /\ UNCHANGED <<service, negotiated, accepted, guardVars, threadVars, processVars>>

(* PreparedStdio::serve up to the wait for the client's initialize. *)
Serve(s) ==
  /\ phase[s] = "prepared"
  /\ Move(s, "initializing")
  /\ UNCHANGED <<service, negotiated, accepted, guardVars, threadVars, processVars>>

(* The client's initialize through ExactProtocol::handle_request: a        *)
(* refusal is an error of serve(), and the guard goes.                     *)
Initialize(s, v) ==
  /\ phase[s] = "initializing"
  /\ IF Accepts(v)
     THEN /\ Move(s, AfterServe)
          /\ service' = [service EXCEPT ![s] = "running"]
          /\ negotiated' = [negotiated EXCEPT ![s] = Settled(v)]
          /\ accepted' = [accepted EXCEPT ![s] = @ \cup {v}]
     ELSE Move(s, "dropping") /\ UNCHANGED <<service, negotiated, accepted>>
  /\ UNCHANGED <<guardVars, threadVars, processVars>>

(* A second initialize within the session passes the same test. *)
Reinitialize(s, v) ==
  /\ service[s] = "running"
  /\ Accepts(v)
  /\ accepted' = [accepted EXCEPT ![s] = @ \cup {v}]
  /\ UNCHANGED <<phase, service, negotiated, guardVars, threadVars, processVars>>

(* The transport fails before the session exists. *)
InitializationFails(s) ==
  /\ phase[s] = "initializing"
  /\ Move(s, "dropping")
  /\ UNCHANGED <<service, negotiated, accepted, guardVars, threadVars, processVars>>

(* The prepared server, or the future of serve(), is dropped. Dropping the *)
(* rmcp handle only cancels its service, which ends in its own time.       *)
DropFuture(s) ==
  /\ phase[s] \in {"armed", "prepared", "initializing", "waiting"}
  /\ Move(s, "dropping")
  /\ service' = [service EXCEPT ![s] = IF @ = "running" THEN "cancelled" ELSE @]
  /\ UNCHANGED <<negotiated, accepted, guardVars, threadVars, processVars>>

(* The client goes away, or the cancelled service notices. *)
ServiceEnds(s) ==
  /\ service[s] \in {"running", "cancelled"}
  /\ service' = [service EXCEPT ![s] = "ended"]
  /\ UNCHANGED <<phase, negotiated, accepted, guardVars, threadVars, processVars>>

(* service.waiting() returns, with a result or an error. *)
WaitReturns(s) ==
  /\ phase[s] = "waiting" /\ service[s] = "ended"
  /\ Move(s, "dropping")
  /\ UNCHANGED <<service, negotiated, accepted, guardVars, threadVars, processVars>>

-----------------------------------------------------------------------------
(* shutdown_providers: nothing to do, or a thread that is joined. *)
BeginShutdown(s) ==
  /\ phase[s] \in Stopping /\ thread[s] = "idle"
  /\ taken' = [taken EXCEPT ![s] = retained[s]]
  /\ retained' = [retained EXCEPT ![s] = LeftAfterTake(s)]
  /\ thread' = [thread EXCEPT ![s] = IF retained[s] = {} THEN "done" ELSE "metrics"]
  /\ UNCHANGED <<taskVars, wanted, built, status, alive, panicked, shuts, processVars>>

(* The thread shuts metrics down, then traces whether that worked or not;  *)
(* only a panic keeps it from the traces.                                  *)
ShutProvider(s, panics) ==
  LET k == thread[s] IN
  /\ k \in Kinds
  /\ panics => k \in taken[s]
  /\ alive' = [alive EXCEPT ![s] = @ \ ({k} \cap taken[s])]
  /\ shuts' = [shuts EXCEPT ![s][k] = IF k \in taken[s] THEN @ + 1 ELSE @]
  /\ panicked' = IF panics THEN panicked \cup {s} ELSE panicked
  /\ thread' = [thread EXCEPT ![s] = AfterProvider(k, panics)]
  /\ UNCHANGED <<taskVars, guardVars, taken, processVars>>

(* The thread is joined: a late bundle becomes a guard without providers;  *)
(* a guard shut down by hand is dropped and shut down again; a dropped     *)
(* guard is gone and the call returns.                                     *)
JoinShutdown(s) ==
  /\ phase[s] \in Stopping /\ thread[s] = "done"
  /\ thread' = [thread EXCEPT ![s] = "idle"]
  /\ taken' = [taken EXCEPT ![s] = {}]
  /\ Move(s, CASE phase[s] = "lost" -> "armed"
               [] phase[s] = "shutdown" -> "dropping"
               [] phase[s] = "dropping" -> "over")
  /\ status' = IF phase[s] = "lost"
               THEN [status EXCEPT ![s] = LateStatus(s)] ELSE status
  /\ UNCHANGED <<service, negotiated, accepted, wanted, built, retained>>
  /\ UNCHANGED <<alive, panicked, shuts, processVars>>

-----------------------------------------------------------------------------
ServerStep(s) ==
  \/ \E t \in {"stdio", "other"}, ok \in BOOLEAN : NewSpec(s, t, ok)
  \/ \E e \in BOOLEAN : ParseConfig(s, e)
  \/ CallbackFails(s)
  \/ \E made \in SUBSET Kinds : BuildProviders(s, made)
  \/ InstallSubscriber(s) \/ InstallGlobals(s)
  \/ \E ok \in BOOLEAN : BuildServer(s, ok)
  \/ IntoParts(s) \/ Serve(s)
  \/ \E v \in Versions : Initialize(s, v) \/ Reinitialize(s, v)
  \/ InitializationFails(s) \/ DropFuture(s) \/ ServiceEnds(s) \/ WaitReturns(s)
  \/ BeginShutdown(s)
  \/ \E panics \in BOOLEAN : ShutProvider(s, panics)
  \/ JoinShutdown(s)

Next == ForeignInstalls \/ \E s \in Servers : ServerStep(s)

(* A task that can run is run, and a thread too. Nothing is asked of the   *)
(* client, of the product's callbacks or of whoever drops a future.        *)
Fairness ==
  \A s \in Servers :
    /\ WF_vars(InstallSubscriber(s) \/ InstallGlobals(s) \/ WaitReturns(s))
    /\ WF_vars(BeginShutdown(s) \/ JoinShutdown(s))
    /\ WF_vars(ShutProvider(s, FALSE) \/ ShutProvider(s, TRUE))

Spec == Init /\ [][Next]_vars /\ Fairness

-----------------------------------------------------------------------------
(* A guard's status is true of the race it was made in: an exporter reads  *)
(* enabled exactly when it was built and this server's subscriber is the   *)
(* process's, suppressed when it was built for nothing, and build_failed   *)
(* or disabled whoever won. The globals belong to the subscriber's owner.  *)
StatusIsTrue ==
  /\ \A s \in Servers, k \in Kinds : phase[s] \in Guarded =>
       /\ status[s][k] = "enabled" <=> k \in built[s] /\ subscriber = s
       /\ status[s][k] = "suppressed" <=> k \in built[s] /\ subscriber # s
       /\ status[s][k] = "build_failed" <=> s \in wanted /\ k \notin built[s]
  /\ \A k \in Kinds : globals[k] # Nobody =>
       globals[k] = subscriber /\ k \in built[subscriber]

(* Whatever way a server ends, its providers are shut down once each, and  *)
(* none outlives it or is left with a guard that came too late; only a     *)
(* panic of the shutdown thread can leave one behind.                      *)
ProvidersEndOnce ==
  \A s \in Servers :
    /\ \A k \in Kinds : shuts[s][k] <= 1
    /\ phase[s] = "over" => retained[s] = {} /\ taken[s] = {}
    /\ \/ phase[s] = "over"
       \/ phase[s] \in Guarded /\ subscriber # s
       => alive[s] = {} \/ s \in panicked

(* While the session a server is waiting for goes on, the exporters its    *)
(* guard calls enabled are alive and are the process's.                    *)
ServiceKeepsItsTelemetry ==
  \A s \in Servers, k \in Kinds :
    service[s] = "running" /\ status[s][k] = "enabled"
      => k \in alive[s] /\ globals[k] = s

(* A session speaks the exact version only, although rmcp would settle on  *)
(* an older one, and no later initialize gets another one in.              *)
OneVersionSpoken ==
  \A s \in Servers :
    /\ accepted[s] \subseteq {Exact}
    /\ service[s] # "none" => negotiated[s] = Exact

(* A server whose session or guard is done with is over in the end, and a  *)
(* late bundle does not hold its server up, whatever the other servers do. *)
TeardownEnds ==
  \A s \in Servers :
    /\ phase[s] = "lost" ~> phase[s] \in Guarded
    /\ service[s] = "ended" \/ phase[s] \in {"shutdown", "dropping"} ~> phase[s] = "over"
=============================================================================
