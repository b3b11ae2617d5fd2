---------------------------- MODULE ProviderPosture ----------------------------
(***************************************************************************)
(* The organization posture of ore-mcp-org-server (providers.rs, lib.rs):  *)
(* eight providers are read at once, each from configuration captured at   *)
(* the start, through an adapter that may refuse it, over clients that may *)
(* not connect, answer late or be refused upstream; each report folds its  *)
(* checks into one of five states, and the posture folds the reports.      *)
(*                                                                         *)
(* A configured value is absent, invalid or valid: what its adapter or the *)
(* derivation from the organization's name makes of it. Upstream systems   *)
(* are external and answer what they like, or never.                       *)
(***************************************************************************)
EXTENDS Naturals, FiniteSets

CONSTANT MaxAsked   \* providers asked at once; the others are taken as ready

ASSUME MaxAskedNat == MaxAsked \in Nat

VARIABLES
  asked,    \* the providers under consideration
  config,   \* ProviderConfig: the scope, second scope and credential of each
  phase,    \* how far its read has come
  heard,    \* history: what ended each of its checks
  report,   \* the state of its report
  posture   \* the state of the organization

vars == <<asked, config, phase, heard, report, posture>>

Providers == {"github", "aws", "gcp", "supabase", "neon", "cloudflare",
              "k8s_cluster", "nats"}

(* What each provider is made of. *)
Dials == {"k8s_cluster", "nats"}                 \* connects a client first
Bounded == {"aws", "k8s_cluster"}                \* one deadline over all reads
OneByOne == {"neon", "cloudflare"}               \* an optional second read, later
Credentialed == Providers \ {"aws", "k8s_cluster", "nats"}
Named == {"github", "neon", "cloudflare"}        \* second read by its own name
Checks == {1, 2}

(* The pieces whose absence ends the read at once.                         *)
Required_ScopeOnly == [p \in Providers |->
  IF p \in {"github", "neon"} THEN {} ELSE {"scope"}]
Required == [p \in Providers |->
  CASE p \in {"github", "neon"} -> {}
    [] p = "gcp" -> {"scope", "second"}
    [] OTHER -> {"scope"}]

Values == {"absent", "invalid", "valid"}
Configs(p) ==
  [scope : CASE p = "github" -> {"invalid", "valid"}
             [] p \in Dials -> {"absent", "valid"}
             [] OTHER -> Values,
   second : CASE p \in {"github", "k8s_cluster", "nats"} -> {"invalid", "valid"}
              [] p = "supabase" -> {"valid"}
              [] OTHER -> Values,
   credential : IF p \in Credentialed THEN Values ELSE {"valid"}]

States == {"ready", "not_configured", "degraded", "unauthorized", "forbidden"}
Heard == {"none", "local", "ok", "refused", "denied", "failed"}
Postures == {"ready", "blocked", "degraded", "not_configured"}

Nothing == [i \in Checks |-> "none"]

Init ==
  /\ asked \in {S \in SUBSET Providers : Cardinality(S) \in 1..MaxAsked}
  /\ config \in {c \in [asked -> UNION {Configs(p) : p \in asked}] :
                   \A p \in asked : c[p] \in Configs(p)}
  /\ phase = [p \in asked |-> "setup"]
  /\ heard = [p \in asked |-> Nothing]
  /\ report = [p \in asked |-> "none"]
  /\ posture = "none"

-----------------------------------------------------------------------------
(* The decisions, each with the slip a rewrite could make. *)

Missing(p) == \E piece \in Required[p] : config[p][piece] = "absent"

(* The adapter refuses its scope; the second read of the named ones comes  *)
(* later. An empty list of clusters is refused like a malformed one.       *)
Unusable(p) ==
  \/ config[p].scope = "invalid"
  \/ p \notin Named /\ config[p].second = "invalid"
  \/ p = "aws" /\ config[p].second = "absent"

(* The checks a report is made of. *)
Present(p) == IF p \in OneByOne /\ config[p].second = "absent" THEN {1} ELSE Checks
Started(p, i) == i = 1 \/ p \notin OneByOne \/ heard[p][1] # "none"

(* A check that is decided before anything goes out: by a malformed name,  *)
(* then by a credential that is absent or does not fit a header.           *)
BadName(p, i) == i = 2 /\ p \in Named /\ config[p].second = "invalid"
Decided(p, i) == BadName(p, i) \/ config[p].credential # "valid"

LocalState_Optimistic(p, i) == IF BadName(p, i) THEN "degraded" ELSE "ready"
LocalState(p, i) ==
  IF BadName(p, i) THEN "degraded"
  ELSE IF config[p].credential = "absent" THEN "not_configured"
  ELSE "unauthorized"

(* What upstream can answer: NATS has no refusals, only silence. *)
Answers(p) == IF p = "nats" THEN {"ok", "failed"}
              ELSE {"ok", "refused", "denied", "failed"}

CheckState(p, i) ==
  CASE heard[p][i] = "ok" -> "ready"
    [] heard[p][i] = "refused" -> "unauthorized"
    [] heard[p][i] = "denied" -> "forbidden"
    [] heard[p][i] = "local" -> LocalState(p, i)
    [] OTHER -> "degraded"

(* The worst check is the state of a report. *)
Rank_AvailabilityFirst(s) ==
  CASE s = "ready" -> 0 [] s = "not_configured" -> 1 [] s = "unauthorized" -> 2
    [] s = "forbidden" -> 3 [] OTHER -> 4
Rank(s) ==
  CASE s = "ready" -> 0 [] s = "not_configured" -> 1 [] s = "degraded" -> 2
    [] s = "unauthorized" -> 3 [] OTHER -> 4

Worst(S) == CHOOSE s \in S : \A t \in S : Rank(t) <= Rank(s)

(* The organization's posture. *)
Overall(S) ==
  IF S = {"ready"} THEN "ready"
  ELSE IF S \cap {"unauthorized", "forbidden"} # {} THEN "blocked"
  ELSE IF "degraded" \in S THEN "degraded"
  ELSE "not_configured"

(* A deadline covers the reads of clients that have none of their own.     *)
DeadlineCovers_None(p) == FALSE
DeadlineCovers(p) == p \in Bounded

-----------------------------------------------------------------------------
Report(p, s) ==
  /\ phase' = [phase EXCEPT ![p] = "done"]
  /\ report' = [report EXCEPT ![p] = s]

(* Required configuration is absent. NATS builds its adapter before it asks. *)
ReportMissing(p) ==
  /\ phase[p] = "setup"
  /\ Missing(p)
  /\ p = "nats" => ~Unusable(p)
  /\ Report(p, "not_configured")
  /\ UNCHANGED <<asked, config, heard, posture>>

(* The adapter refuses its configuration. *)
ReportUnusable(p) ==
  /\ phase[p] = "setup"
  /\ Unusable(p)
  /\ p # "nats" => ~Missing(p)
  /\ Report(p, "degraded")
  /\ UNCHANGED <<asked, config, heard, posture>>

Begin(p) ==
  /\ phase[p] = "setup"
  /\ ~Missing(p) /\ ~Unusable(p)
  /\ phase' = [phase EXCEPT ![p] = IF p \in Dials THEN "connect" ELSE "read"]
  /\ UNCHANGED <<asked, config, heard, report, posture>>

Connect(p) ==
  /\ phase[p] = "connect"
  /\ phase' = [phase EXCEPT ![p] = "read"]
  /\ UNCHANGED <<asked, config, heard, report, posture>>

(* The client could not be made, or not in time. *)
ConnectFails(p) ==
  /\ phase[p] = "connect"
  /\ Report(p, "degraded")
  /\ UNCHANGED <<asked, config, heard, posture>>

Waiting(p, i) ==
  /\ phase[p] = "read" /\ i \in Present(p)
  /\ Started(p, i) /\ heard[p][i] = "none"

(* A check ends without a request. *)
DecideLocally(p, i) ==
  /\ Waiting(p, i) /\ Decided(p, i)
  /\ heard' = [heard EXCEPT ![p][i] = "local"]
  /\ UNCHANGED <<asked, config, phase, report, posture>>

(* A check ends with an answer of upstream, or with the failure or the     *)
(* deadline of its own request.                                            *)
Hear(p, i, a) ==
  /\ Waiting(p, i) /\ ~Decided(p, i)
  /\ a \in Answers(p)
  /\ heard' = [heard EXCEPT ![p][i] = a]
  /\ UNCHANGED <<asked, config, phase, report, posture>>

AllHeard(p) == \A i \in Present(p) : heard[p][i] # "none"

Finish(p) ==
  /\ phase[p] = "read" /\ AllHeard(p)
  /\ Report(p, Worst({CheckState(p, i) : i \in Present(p)}))
  /\ UNCHANGED <<asked, config, heard, posture>>

(* The common deadline passes: what was heard by then is dropped.          *)
Expire(p) ==
  /\ phase[p] = "read" /\ ~AllHeard(p)
  /\ DeadlineCovers(p)
  /\ Report(p, "degraded")
  /\ UNCHANGED <<asked, config, heard, posture>>

(* All reports are in. *)
Conclude ==
  /\ posture = "none"
  /\ \A p \in asked : phase[p] = "done"
  /\ posture' = Overall({report[p] : p \in asked})
  /\ UNCHANGED <<asked, config, phase, heard, report>>

(* The tool is called again: the configuration is the captured one.        *)
AskAgain ==
  /\ posture # "none"
  /\ phase' = [p \in asked |-> "setup"]
  /\ heard' = [p \in asked |-> Nothing]
  /\ report' = [p \in asked |-> "none"]
  /\ posture' = "none"
  /\ UNCHANGED <<asked, config>>

-----------------------------------------------------------------------------
SetUp(p) == ReportMissing(p) \/ ReportUnusable(p) \/ Begin(p)

Next ==
  \/ \E p \in asked :
       \/ SetUp(p)
       \/ Connect(p) \/ ConnectFails(p)
       \/ \E i \in Checks : DecideLocally(p, i) \/ \E a \in Answers(p) : Hear(p, i, a)
       \/ Finish(p) \/ Expire(p)
  \/ Conclude
  \/ AskAgain

Spec == Init /\ [][Next]_vars

(* A ready future is polled. Connections, HTTP requests and NATS requests  *)
(* end by a deadline of their own; the AWS and Kubernetes clients have none*)
(* but the one that Expire models.                                         *)
OwnEnd(p) == \E i \in Checks, a \in Answers(p) : Hear(p, i, a)
Decides(p) == \E i \in Checks : DecideLocally(p, i)

FairSpec ==
  /\ Spec
  /\ WF_vars(Conclude)
  /\ \A p \in Providers :
       /\ WF_vars(p \in asked /\ SetUp(p))
       /\ WF_vars(p \in asked /\ (Connect(p) \/ ConnectFails(p)))
       /\ WF_vars(p \in asked /\ Decides(p))
       /\ WF_vars(p \in asked /\ (Finish(p) \/ Expire(p)))
       /\ WF_vars(p \in asked \ Bounded /\ OwnEnd(p))

-----------------------------------------------------------------------------
(* PROPERTIES *)

(* Types, with the shape of a read: a provider is reported when it is done *)
(* and a provider that never began has heard nothing.                      *)
TypeOK ==
  /\ asked \subseteq Providers
  /\ \A p \in asked : config[p] \in Configs(p)
  /\ phase \in [asked -> {"setup", "connect", "read", "done"}]
  /\ heard \in [asked -> [Checks -> Heard]]
  /\ report \in [asked -> States \cup {"none"}]
  /\ posture \in Postures \cup {"none"}
  /\ \A p \in asked :
       /\ (report[p] # "none") <=> (phase[p] = "done")
       /\ phase[p] \in {"setup", "connect"} => heard[p] = Nothing
       /\ heard[p][2] # "none" /\ p \in OneByOne => heard[p][1] # "none"
  /\ posture # "none" => \A p \in asked : phase[p] = "done"

(* "it never becomes a synthetic success": an organization is ready only   *)
(* when every check of every provider was answered well by its upstream,   *)
(* from configuration that is complete (README.md 99-101, providers.rs     *)
(* 398-410, lib.rs 488-503).                                               *)
NeverSyntheticSuccess ==
  posture = "ready" =>
    \A p \in asked :
      /\ \A i \in Present(p) : heard[p][i] = "ok"
      /\ ~Missing(p) /\ ~Unusable(p)

(* An upstream that refuses a credential blocks the posture, whatever else *)
(* failed or is missing, unless the common deadline of its provider passed *)
(* before the other check was in and took the refusal with it              *)
(* (providers.rs 152-164, 307-320, 428-436, lib.rs 488-503).               *)
RefusalBlocks ==
  posture \notin {"none", "blocked"} =>
    \A p \in asked :
      (\E i \in Checks : heard[p][i] \in {"refused", "denied"})
        => p \in Bounded /\ ~AllHeard(p)

(* An organization is called not configured only when something is absent  *)
(* from its configuration and nothing that was tried failed (lib.rs        *)
(* 499-503).                                                               *)
GapIsReal ==
  posture = "not_configured" =>
    /\ \E p \in asked : \E piece \in DOMAIN config[p] : config[p][piece] = "absent"
    /\ \A p \in asked : \A i \in Checks : heard[p][i] \in {"none", "local", "ok"}

(* "Missing configuration returns not_configured" (README.md 90-101): the  *)
(* AWS account and the list of clusters that goes with it included.        *)
Needed(p) ==
  CASE p = "neon" -> {"credential"}
    [] p = "cloudflare" -> {"scope", "credential"}
    [] OTHER -> {"scope", "second", "credential"}
Lacking(p) ==
  /\ \E piece \in Needed(p) : config[p][piece] = "absent"
  /\ \A piece \in DOMAIN config[p] : config[p][piece] # "invalid"
MissingIsSaid ==
  \A p \in asked : phase[p] = "done" /\ Lacking(p) => report[p] = "not_configured"

(* ... which every provider but AWS does (providers.rs 115-133, 174-356).  *)
MissingIsSaidElsewhere ==
  \A p \in asked \ {"aws"} :
    phase[p] = "done" /\ Lacking(p) => report[p] = "not_configured"

(* Absence is said, and nothing else is said to be absence. *)
GapsAreTold == GapIsReal /\ MissingIsSaidElsewhere

(* The posture arrives, whichever upstream hangs (providers.rs 152, 307-320,*)
(* 347-348).                                                               *)
PostureArrives == (posture = "none") ~> (posture # "none")
=============================================================================
