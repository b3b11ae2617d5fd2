---------------------------- MODULE ConformanceRun ----------------------------
(***************************************************************************)
(* checkImplementation of the conformance runner: admission of a contract  *)
(* compiled from two authorities, a manifest of operations, an executable  *)
(* that is started and asked, and the certificate. The five files involved *)
(* may be edited between any two steps; the server may answer anything,    *)
(* fall silent or misbehave (StdioTransport says how that is noticed).     *)
(* What the schema validator (api) does is external.                       *)
(***************************************************************************)
EXTENDS Lists

CONSTANTS
  Manifests,   \* the manifests tried, as texts
  Catalogs(_), \* what the server may list, under a manifest
  Responses,   \* how it may answer a call
  MaxReply, MaxDepth,  \* the wire policy of parseStrictJson
  MaxEdits,    \* the edits tried
  Nil          \* an absent value

ASSUME ConformanceConstants == MaxReply \in Nat /\ MaxDepth \in Nat /\ MaxEdits \in Nat
(* What a run that does not pass is told.                                  *)
Failures ==
  {"parity did not pass", "IR evidence is not current", "schema inputs changed during admission",
   "unsupported operation manifest", "call contradicts contract", "protocol negotiation drift",
   "catalog", "call", "transport", "unhealthy", "executable changed", "manifest changed"}

ASSUME NilIsNoText == Nil \notin Failures \cup {"passed", "good"}
ASSUME NilIsNoCode == Nil # -32602
ASSUME NilIsNoNumber == Nil \notin Nat

Sources == {"typespec", "authored"}
Files == Sources \cup {"generated", "binary", "manifest"}

VARIABLES
  phase,     \* what is done next
  files,     \* the contents of each file, as a number
  rewrites,  \* how often each file was edited
  restored,  \* history: the files given back, once the server had started,
             \* the contents the run holds
  held,      \* the contents the run has read or digested, by file
  ran,       \* history: the executable that was started
  manifest,  \* the parsed manifest
  calls,     \* the calls still to make
  made,      \* how many calls of each sort were answered well
  last,      \* history: the last answer that was taken
  healthy,   \* whether the transport has nothing to complain of
  verdict    \* the certificate, or the code of the demand that failed

disk == <<files, rewrites, restored>>
runVars == <<ran, manifest, calls, made, last, healthy>>
conformanceVars == <<phase, disk, held, verdict, runVars>>

ConformanceInit ==
  /\ phase = "check" /\ files = [f \in Files |-> 0] /\ held = [f \in Files |-> Nil]
  /\ rewrites = [f \in Files |-> 0] /\ restored = {} /\ ran = Nil /\ manifest = Nil /\ calls = <<>>
  /\ made = [valid |-> 0, invalid |-> 0]
  /\ last = Nil /\ healthy = TRUE /\ verdict = Nil

Connected == {"initialize", "catalog", "call"}

(* A failed demand ends the run; the connection is closed first.           *)
FailWith(code) ==
  /\ verdict' = code
  /\ phase' = IF phase \in Connected THEN "close" ELSE "over"
Continue(next) == phase' = next /\ UNCHANGED verdict
Demand(condition, code, next) == IF condition THEN Continue(next) ELSE FailWith(code)

(* Somebody edits a file: new contents, or those it had before.            *)
Edit ==
  /\ phase # "over"
  /\ FoldFunction(+, 0, rewrites) < MaxEdits
  /\ \E f \in Files : \E contents \in 0..(rewrites[f] + 1) :
       /\ contents # files[f]
       /\ rewrites' = [rewrites EXCEPT ![f] = @ + 1]
       /\ files' = [files EXCEPT ![f] = contents]
       /\ restored' = IF ran # Nil /\ contents = held[f] THEN restored \cup {f} ELSE restored
  /\ UNCHANGED <<phase, held, verdict, runVars>>

-----------------------------------------------------------------------------
(* Admission *)

(* api.runCheck compiles both lanes, and emits the generated schemas.      *)
RunCheck ==
  /\ phase = "check"
  /\ held' = [f \in Files |-> IF f \in Sources \cup {"generated"} THEN files[f] ELSE Nil]
  /\ \E passed \in BOOLEAN : Demand(passed, "parity did not pass", "verify admission")
  /\ UNCHANGED <<disk, runVars>>

SourcesCurrent == \A f \in Sources : files[f] = held[f]

(* verifyCurrent, at admission, before the server starts and at the end    *)
VerifyCurrent ==
  /\ phase \in {"verify admission", "verify start", "verify end"}
  /\ Demand(SourcesCurrent, "IR evidence is not current",
            CASE phase = "verify admission" -> "load"
              [] phase = "verify start" -> "spawn"
              [] OTHER -> "digest binary again")
  /\ UNCHANGED <<disk, held, runVars>>

(* The schemas used from here on are those of the report.                  *)
LoadSchemas ==
  /\ phase = "load"
  /\ Demand(files["authored"] = held["authored"] /\ files["generated"] = held["generated"],
            "schema inputs changed during admission", "digest binary")
  /\ UNCHANGED <<disk, held, runVars>>

(* admitted.accepts: the lanes give one verdict, or the run fails (Split). *)
SchemaAccepts(instance) == instance = "good"
Split(instance) == instance = "split"

-----------------------------------------------------------------------------
(* The manifest *)

DigestBinary ==
  /\ phase = "digest binary"
  /\ held' = [held EXCEPT !["binary"] = files["binary"]]
  /\ Continue("read manifest")
  /\ UNCHANGED <<disk, runVars>>

(* parseStrictJson: one well-formed value of bounded size and depth, no    *)
(* member named twice, no lone surrogate, nothing after it.                *)
ParsesStrictly(text) ==
  /\ text.form = "json" /\ text.size <= MaxReply /\ text.depth <= MaxDepth
  /\ ~text.twice

Sorts == {"valid", "invalid"}
IsArray(list) == list \in Seq(ToSet(list))

ValidOperation(m, tool) ==
  /\ tool.name # Nil
  /\ m.coverage = "exact-tools" =>
       tool.surface \in {"regular", "admin"} /\ (m.class = "regular" => tool.surface = "regular")
  /\ tool.encoding \in {"json_text", "structured"}
  /\ \A sort \in Sorts : IsArray(tool[sort]) /\ tool[sort] # <<>>
  /\ tool.expected # Nil

ValidateManifest(m) ==
  /\ m.version # Nil
  /\ m.coverage \in {"declared-tools-only", "exact-tools"}
  /\ m.coverage = "exact-tools" => m.class \in {"regular", "admin"}
  /\ IsArray(m.tools) /\ m.tools # <<>>
  /\ \A i, j \in DOMAIN m.tools : m.tools[i].name = m.tools[j].name => i = j
  /\ \A i \in DOMAIN m.tools : ValidOperation(m, m.tools[i])

CallsOf(tool) ==
  [i \in DOMAIN tool.valid |-> [tool |-> tool, sort |-> "valid", args |-> tool.valid[i]]]
  \o [i \in DOMAIN tool.invalid |-> [tool |-> tool, sort |-> "invalid", args |-> tool.invalid[i]]]
AllCalls(m) == FlattenSeq([i \in DOMAIN m.tools |-> CallsOf(m.tools[i])])

(* Read once and kept; its calls are judged by the contract before use.    *)
ReadManifest ==
  /\ phase = "read manifest"
  /\ held' = [held EXCEPT !["manifest"] = files["manifest"]]
  /\ \E text \in Manifests :
       IF ~ParsesStrictly(text) \/ ~ValidateManifest(text.value)
       THEN FailWith("unsupported operation manifest") /\ UNCHANGED <<manifest, calls>>
       ELSE /\ manifest' = text.value /\ calls' = AllCalls(text.value)
            /\ Demand(\A i \in DOMAIN calls' :
                        /\ calls'[i].tool.declared /\ ~Split(calls'[i].args)
                        /\ SchemaAccepts(calls'[i].args) <=> calls'[i].sort = "valid",
                      "call contradicts contract", "verify start")
  /\ UNCHANGED <<disk, ran, made, last, healthy>>

-----------------------------------------------------------------------------
(* The server *)

Spawn ==
  /\ phase = "spawn"
  /\ ran' = files["binary"]
  /\ Continue("initialize")
  /\ UNCHANGED <<disk, held, manifest, calls, made, last, healthy>>

(* A request is rejected: a timeout, an exit, a malformed frame.           *)
RequestRejected ==
  /\ phase \in Connected
  /\ healthy' = FALSE /\ FailWith("transport")
  /\ UNCHANGED <<disk, held, ran, manifest, calls, made, last>>

(* Output nobody asked for, while the server lives                         *)
Misbehave ==
  /\ phase \in Connected \cup {"close"} /\ healthy
  /\ healthy' = FALSE
  /\ UNCHANGED <<phase, disk, held, ran, manifest, calls, made, last, verdict>>

Negotiate ==
  /\ phase = "initialize"
  /\ \E version \in {manifest.version, Nil} :
       Demand(version = manifest.version, "protocol negotiation drift", "catalog")
  /\ UNCHANGED <<disk, held, runVars>>

(* The contract's schemas and the advertised ones, up to normalization     *)
AssertCatalog(c) ==
  /\ ~c.cursor
  /\ \A i, j \in DOMAIN c.tools : c.tools[i].name = c.tools[j].name => i = j
  /\ manifest.coverage = "exact-tools" => Len(c.tools) = Len(manifest.tools)
  /\ \A i \in DOMAIN manifest.tools : \E j \in DOMAIN c.tools :
       /\ c.tools[j].name = manifest.tools[i].name
       /\ c.tools[j].input = "admitted" /\ c.tools[j].output \in {Nil, "admitted"}

ListCatalog ==
  /\ phase = "catalog"
  /\ \E c \in Catalogs(manifest) : Demand(AssertCatalog(c), "catalog", "call")
  /\ UNCHANGED <<disk, held, runVars>>

(* readToolPayload: the payload, or Nil when there is none to take. Of a   *)
(* structured operation the text is not looked at.                         *)
ReadPayload(r, encoding) ==
  IF r.error # Nil \/ r.isError = TRUE THEN Nil
  ELSE IF encoding = "structured" THEN r.structured
  ELSE IF r.text = Nil \/ ~ParsesStrictly(r.text) \/ r.structured \notin {Nil, r.text.value} THEN Nil
  ELSE r.text.value

(* assertInvalidCall *)
Refused(r) == r.error = -32602 \/ (r.error = Nil /\ r.isError = TRUE)

TakenAs(call, r) ==
  LET payload == ReadPayload(r, call.tool.encoding) IN
  IF call.sort = "valid"
  THEN payload # Nil /\ SchemaAccepts(payload) /\ r.identity = call.tool.expected
  ELSE Refused(r)

Call ==
  /\ phase = "call" /\ calls # <<>>
  /\ \E r \in Responses :
       IF TakenAs(Head(calls), r)
       THEN /\ last' = [call |-> Head(calls), response |-> r]
            /\ made' = [made EXCEPT ![Head(calls).sort] = @ + 1]
            /\ calls' = Tail(calls)
            /\ UNCHANGED <<phase, verdict>>
       ELSE FailWith("call") /\ UNCHANGED <<calls, made, last>>
  /\ UNCHANGED <<disk, held, ran, manifest, healthy>>

(* assertHealthy, before the connection is closed and after                *)
AssertHealthy ==
  /\ \/ phase = "call" /\ calls = <<>> /\ Demand(healthy, "unhealthy", "close")
     \/ phase = "closed" /\ Demand(healthy, "unhealthy", "verify end")
  /\ UNCHANGED <<disk, held, runVars>>

(* The finally block drains the server, and the first failure stands.      *)
CloseTransport ==
  /\ phase = "close"
  /\ phase' = IF verdict = Nil THEN "closed" ELSE "over"
  /\ UNCHANGED <<disk, held, verdict, runVars>>

-----------------------------------------------------------------------------
(* The certificate *)

(* The digest of a file is what it was at first.                           *)
StillIs_Unread(f) == f = "binary" \/ held[f] = files[f]
StillIs(f) == held[f] = files[f]

DigestBinaryAgain ==
  /\ phase = "digest binary again"
  /\ Demand(StillIs("binary"), "executable changed", "digest manifest again")
  /\ UNCHANGED <<disk, held, runVars>>

Certify ==
  /\ phase = "digest manifest again"
  /\ phase' = "over"
  /\ verdict' = IF StillIs("manifest") THEN "passed" ELSE "manifest changed"
  /\ UNCHANGED <<disk, held, runVars>>

ConformanceNext ==
  \/ Edit
  \/ RunCheck \/ VerifyCurrent \/ LoadSchemas
  \/ DigestBinary \/ ReadManifest
  \/ Spawn \/ RequestRejected \/ Misbehave \/ Negotiate \/ ListCatalog
  \/ Call \/ AssertHealthy \/ CloseTransport
  \/ DigestBinaryAgain \/ Certify

ConformanceSpec == ConformanceInit /\ [][ConformanceNext]_conformanceVars

-----------------------------------------------------------------------------
(* The executable whose digest is certified is the one that ran, although  *)
(* the digest was taken before it was started and the file may have been   *)
(* edited between any two steps, unless somebody gave the file back the    *)
(* digested contents after another had been started: the digests before    *)
(* and after are equal then, and the certificate names an executable that  *)
(* never ran (index.mjs 167, 178, 209). The manifest is the one on disk;   *)
(* nothing was left to ask, and the transport never complained, closing    *)
(* included (index.mjs 204-210).                                           *)
CertifiedIsWhatRan ==
  verdict = "passed" =>
    /\ ran = held["binary"] \/ "binary" \in restored
    /\ held["manifest"] = files["manifest"]
    /\ healthy
    /\ calls = <<>>

(* Every call of the manifest was made and counted (index.mjs 188-203).    *)
EveryCallCounted ==
  verdict = "passed" =>
    \A sort \in Sorts :
      LET numbers == [i \in DOMAIN manifest.tools |-> Len(manifest.tools[i][sort])]
      IN  made[sort] = SumSeq(numbers)

(* What an answer that was taken is known to say. Of a text operation:     *)
(* there is one text, it reads in one way and the contract admits it, and  *)
(* structured content beside it says the same. Of a structured operation:  *)
(* the contract admits its structured content, and nothing is known of the *)
(* text, which may say something else. A call the contract refuses was     *)
(* refused by the server as well (index.mjs 139-162).                      *)
Succeeded(r) == r.error = Nil /\ r.isError # TRUE
SaysGood(r, encoding) ==
  IF encoding = "structured" THEN r.structured = "good"
  ELSE /\ r.text # Nil /\ r.text.value = "good" /\ ~r.text.twice
       /\ r.structured \in {Nil, "good"}
AnswersAreAsDeclared ==
  last # Nil =>
    LET r == last.response IN
    IF last.call.sort = "valid"
    THEN Succeeded(r) /\ SaysGood(r, last.call.tool.encoding)
    ELSE ~Succeeded(r)

EvidenceIsCurrent == CertifiedIsWhatRan /\ EveryCallCounted /\ AnswersAreAsDeclared
=============================================================================
