---------------------------- MODULE OrgServerProofs ----------------------------
(***************************************************************************)
(* Proofs about the organization server: its posture, for any number of    *)
(* providers asked at once, the reader of its standard input, for any cap  *)
(* on a frame, any size of buffer and any bytes, and the catalog it        *)
(* merges, for any catalogs and cursors of the primary product.            *)
(***************************************************************************)
EXTENDS ProviderPosture, StdioFrames, AugmentedCatalog, SequenceFacts

(* The posture *)

(* A check that was heard is one of the report's, and it was decided here  *)
(* exactly when there was something to decide here.                        *)
HeardIsEarned(p) ==
  \A i \in Checks : heard[p][i] # "none" =>
    /\ i \in Present(p)
    /\ heard[p][i] = "local" <=> Decided(p, i)

(* Why a provider that is done reports what it does.                       *)
Complete(p) == ~Missing(p) /\ ~Unusable(p)
Grounds(p) ==
  \/ Missing(p) /\ heard[p] = Nothing /\ report[p] = "not_configured"
  \/ Unusable(p) /\ heard[p] = Nothing /\ report[p] = "degraded"
  \/ Complete(p) /\ p \in Dials /\ heard[p] = Nothing /\ report[p] = "degraded"
  \/ Complete(p) /\ AllHeard(p) /\ report[p] = Worst({CheckState(p, i) : i \in Present(p)})
  \/ Complete(p) /\ p \in Bounded /\ ~AllHeard(p) /\ report[p] = "degraded"

ReadIsTrue(p) ==
  /\ HeardIsEarned(p)
  /\ phase[p] \in {"connect", "read"} => Complete(p)
  /\ phase[p] = "connect" => p \in Dials
  /\ phase[p] = "done" => Grounds(p)

PostureInv ==
  /\ TypeOK
  /\ asked # {}
  /\ \A p \in asked : ReadIsTrue(p)
  /\ posture # "none" => posture = Overall({report[p] : p \in asked})

-----------------------------------------------------------------------------
(* Facts about the decisions *)

LEMMA CheckStates ==
  ASSUME NEW p, NEW i \in Checks PROVE CheckState(p, i) \in States
BY DEF CheckState, LocalState, States

(* The worst of one or two states is one of them, and none is worse.       *)
LEMMA WorstIsWorst ==
  ASSUME NEW a \in States, NEW b \in States
  PROVE  /\ Worst({a, b}) \in {a, b}
         /\ \A t \in {a, b} : Rank(t) <= Rank(Worst({a, b}))
<1>1. Rank(a) \in Nat /\ Rank(b) \in Nat
  BY DEF Rank
<1>2. \E s \in {a, b} : \A t \in {a, b} : Rank(t) <= Rank(s)
  <2>1. CASE Rank(a) <= Rank(b)
    BY <1>1, <2>1
  <2>2. CASE Rank(b) <= Rank(a)
    BY <1>1, <2>2
  <2> QED
    BY <1>1, <2>1, <2>2
<1> QED
  BY <1>2 DEF Worst

(* The report of a provider that was read to the end.                      *)
LEMMA ReportIsWorst ==
  ASSUME NEW p, AllHeard(p)
  PROVE  LET W == Worst({CheckState(p, i) : i \in Present(p)})
         IN  /\ \E i \in Present(p) : W = CheckState(p, i)
             /\ \A i \in Present(p) : Rank(CheckState(p, i)) <= Rank(W)
             /\ W \in States
<1> DEFINE a == CheckState(p, 1)
           b == IF Present(p) = {1} THEN a ELSE CheckState(p, 2)
<1>1. a \in States /\ b \in States
  BY CheckStates DEF Checks
<1>2. {CheckState(p, i) : i \in Present(p)} = {a, b}
  BY DEF Present, Checks
<1>3. /\ Worst({a, b}) \in {a, b}
      /\ \A t \in {a, b} : Rank(t) <= Rank(Worst({a, b}))
  BY <1>1, WorstIsWorst
<1> HIDE DEF a, b
<1> QED
  BY <1>1, <1>2, <1>3

-----------------------------------------------------------------------------
LEMMA InitPosture == Init => PostureInv
<1> SUFFICES ASSUME Init PROVE PostureInv
  OBVIOUS
<1>1. asked # {}
  BY FS_EmptySet DEF Init
<1>2. asked \subseteq Providers /\ \A p \in asked : config[p] \in Configs(p)
  BY DEF Init
<1>3. TypeOK
  BY <1>2 DEF Init, TypeOK, Nothing, Heard, Checks
<1>4. \A p \in asked : ReadIsTrue(p)
  BY DEF Init, ReadIsTrue, HeardIsEarned, Nothing, Checks
<1> QED
  BY <1>1, <1>3, <1>4 DEF PostureInv, Init

(* What a step leaves alone stays true of the providers it does not touch. *)
LEMMA OthersKeep ==
  ASSUME NEW q \in asked, ReadIsTrue(q), config' = config, heard'[q] = heard[q],
         phase'[q] = phase[q], report'[q] = report[q]
  PROVE  ReadIsTrue(q)'
BY DEF ReadIsTrue, HeardIsEarned, Grounds, Complete, AllHeard, Missing, Unusable, Present,
       Decided, BadName, CheckState, LocalState, Nothing

(* A step on one provider, before the posture is there.                    *)
LEMMA OneKeeps ==
  ASSUME PostureInv, NEW p \in asked, TypeOK', ReadIsTrue(p)',
         UNCHANGED <<asked, config, posture>>, posture = "none",
         \A q \in asked \ {p} :
           heard'[q] = heard[q] /\ phase'[q] = phase[q] /\ report'[q] = report[q]
  PROVE  PostureInv'
<1>1. \A q \in asked : ReadIsTrue(q)'
  <2> TAKE q \in asked
  <2>1. CASE q = p
    BY <2>1
  <2>2. CASE q # p
    BY <2>2, OthersKeep DEF PostureInv
  <2> QED
    BY <2>1, <2>2
<1> QED
  BY <1>1 DEF PostureInv

LEMMA UnfinishedMeansNone ==
  ASSUME PostureInv, NEW p \in asked, phase[p] # "done" PROVE posture = "none"
BY DEF PostureInv, TypeOK

(* A report is filed on grounds.                                           *)
LEMMA ReportKeeps ==
  ASSUME PostureInv, NEW p \in asked, NEW s \in States, phase[p] # "done", Report(p, s),
         UNCHANGED <<asked, config, heard, posture>>, ReadIsTrue(p)'
  PROVE  PostureInv'
<1>1. TypeOK'
  BY DEF PostureInv, TypeOK, Report, States, Nothing
<1>2. posture = "none"
  BY UnfinishedMeansNone
<1>3. \A q \in asked \ {p} :
        heard'[q] = heard[q] /\ phase'[q] = phase[q] /\ report'[q] = report[q]
  BY DEF PostureInv, TypeOK, Report
<1> QED
  BY <1>1, <1>2, <1>3, OneKeeps

LEMMA SetUpKeeps ==
  ASSUME PostureInv, NEW p \in asked, SetUp(p) PROVE PostureInv'
<1>1. phase[p] = "setup" /\ heard[p] = Nothing /\ HeardIsEarned(p)
  BY DEF SetUp, ReportMissing, ReportUnusable, Begin, PostureInv, TypeOK, ReadIsTrue
<1>2. CASE ReportMissing(p)
  <2>1. ReadIsTrue(p)'
    BY <1>1, <1>2
    DEF ReportMissing, Report, ReadIsTrue, HeardIsEarned, Grounds, PostureInv, TypeOK,
        Missing, Nothing
  <2> QED
    BY <1>1, <1>2, <2>1, ReportKeeps DEF ReportMissing, States
<1>3. CASE ReportUnusable(p)
  <2>1. ReadIsTrue(p)'
    BY <1>1, <1>3
    DEF ReportUnusable, Report, ReadIsTrue, HeardIsEarned, Grounds, PostureInv, TypeOK,
        Unusable, Nothing
  <2> QED
    BY <1>1, <1>3, <2>1, ReportKeeps DEF ReportUnusable, States
<1>4. CASE Begin(p)
  <2>1. TypeOK'
    BY <1>1, <1>4 DEF Begin, PostureInv, TypeOK
  <2>2. ReadIsTrue(p)'
    BY <1>1, <1>4
    DEF Begin, ReadIsTrue, HeardIsEarned, Complete, PostureInv, TypeOK, Missing, Unusable, Nothing
  <2>3. posture = "none"
    BY <1>1, UnfinishedMeansNone
  <2> QED
    BY <1>4, <2>1, <2>2, <2>3, OneKeeps DEF Begin, PostureInv, TypeOK
<1> QED
  BY <1>2, <1>3, <1>4 DEF SetUp

LEMMA ConnectKeeps ==
  ASSUME PostureInv, NEW p \in asked, Connect(p) PROVE PostureInv'
<1>1. TypeOK'
  BY DEF Connect, PostureInv, TypeOK, Nothing
<1>2. ReadIsTrue(p)'
  BY DEF Connect, ReadIsTrue, HeardIsEarned, Complete, PostureInv, TypeOK, Missing, Unusable,
         Present, Decided, BadName
<1>3. posture = "none"
  BY UnfinishedMeansNone DEF Connect
<1> QED
  BY <1>1, <1>2, <1>3, OneKeeps DEF Connect, PostureInv, TypeOK

LEMMA ConnectFailsKeeps ==
  ASSUME PostureInv, NEW p \in asked, ConnectFails(p) PROVE PostureInv'
<1>1. heard[p] = Nothing /\ p \in Dials /\ phase[p] = "connect" /\ Complete(p) /\ HeardIsEarned(p)
  BY DEF ConnectFails, PostureInv, TypeOK, ReadIsTrue
<1>2. ReadIsTrue(p)'
  BY <1>1
  DEF ConnectFails, Report, ReadIsTrue, HeardIsEarned, Grounds, Complete, PostureInv, TypeOK,
      Missing, Unusable, Nothing
<1> QED
  BY <1>1, <1>2, ReportKeeps DEF ConnectFails, States

(* A check ends; the report is not in yet.                                 *)
LEMMA HeardKeeps ==
  ASSUME PostureInv, NEW p \in asked, NEW i \in Checks, NEW a \in Heard \ {"none"},
         Waiting(p, i), heard' = [heard EXCEPT ![p][i] = a], a = "local" <=> Decided(p, i),
         UNCHANGED <<asked, config, phase, report, posture>>
  PROVE  PostureInv'
<1>1. TypeOK'
  BY DEF PostureInv, TypeOK, Waiting, Started, Present, Checks
<1>2. ReadIsTrue(p)'
  <2>1. HeardIsEarned(p)'
    BY DEF PostureInv, TypeOK, ReadIsTrue, HeardIsEarned, Waiting, Present, Decided, BadName
  <2> QED
    BY <2>1 DEF PostureInv, ReadIsTrue, Waiting, Complete, Missing, Unusable
<1>3. posture = "none"
  BY UnfinishedMeansNone DEF Waiting
<1> QED
  BY <1>1, <1>2, <1>3, OneKeeps DEF PostureInv, TypeOK

LEMMA DecideLocallyKeeps ==
  ASSUME PostureInv, NEW p \in asked, NEW i \in Checks, DecideLocally(p, i) PROVE PostureInv'
BY HeardKeeps DEF DecideLocally, Heard

LEMMA HearKeeps ==
  ASSUME PostureInv, NEW p \in asked, NEW i \in Checks, NEW a \in Answers(p), Hear(p, i, a)
  PROVE  PostureInv'
BY HeardKeeps DEF Hear, Answers, Heard

LEMMA FinishKeeps ==
  ASSUME PostureInv, NEW p \in asked, Finish(p) PROVE PostureInv'
<1> DEFINE W == Worst({CheckState(p, i) : i \in Present(p)})
<1>1. W \in States
  BY ReportIsWorst DEF Finish
<1>2. ReadIsTrue(p)'
  <2>1. W' = W
    BY DEF Finish, CheckState, LocalState, BadName, Present
  <2>2. HeardIsEarned(p)' /\ Complete(p)' /\ AllHeard(p)'
    BY DEF Finish, PostureInv, ReadIsTrue, HeardIsEarned, Complete, Missing, Unusable, AllHeard,
           Present, Decided, BadName
  <2>3. phase'[p] = "done" /\ report'[p] = W
    BY DEF Finish, Report, PostureInv, TypeOK
  <2> HIDE DEF W
  <2> QED
    BY <2>1, <2>2, <2>3 DEF ReadIsTrue, Grounds, W
<1> QED
  BY <1>1, <1>2, ReportKeeps DEF Finish

LEMMA ExpireKeeps ==
  ASSUME PostureInv, NEW p \in asked, Expire(p) PROVE PostureInv'
<1>1. ReadIsTrue(p)'
  <2>1. HeardIsEarned(p)' /\ Complete(p)' /\ ~AllHeard(p)'
    BY DEF Expire, PostureInv, ReadIsTrue, HeardIsEarned, Complete, Missing, Unusable, AllHeard,
           Present, Decided, BadName
  <2>2. phase'[p] = "done" /\ report'[p] = "degraded" /\ p \in Bounded
    BY DEF Expire, Report, DeadlineCovers, PostureInv, TypeOK
  <2> QED
    BY <2>1, <2>2 DEF ReadIsTrue, Grounds
<1> QED
  BY <1>1, ReportKeeps DEF Expire, States

LEMMA ConcludeKeeps ==
  ASSUME PostureInv, Conclude PROVE PostureInv'
<1>1. \A q \in asked : ReadIsTrue(q)'
  BY OthersKeep DEF Conclude, PostureInv
<1>2. posture' \in Postures
  BY DEF Conclude, Overall, Postures
<1> QED
  BY <1>1, <1>2 DEF Conclude, PostureInv, TypeOK

LEMMA AskAgainKeeps ==
  ASSUME PostureInv, AskAgain PROVE PostureInv'
<1>1. TypeOK'
  BY DEF AskAgain, PostureInv, TypeOK, Nothing, Heard, Checks
<1>2. \A q \in asked : ReadIsTrue(q)'
  BY DEF AskAgain, ReadIsTrue, HeardIsEarned, Nothing, Checks
<1> QED
  BY <1>1, <1>2 DEF AskAgain, PostureInv

LEMMA StutterKeeps ==
  ASSUME PostureInv, UNCHANGED vars PROVE PostureInv'
<1>1. \A q \in asked : ReadIsTrue(q)'
  BY OthersKeep DEF vars, PostureInv
<1> QED
  BY <1>1 DEF vars, PostureInv, TypeOK

LEMMA NextKeeps == PostureInv /\ [Next]_vars => PostureInv'
<1> SUFFICES ASSUME PostureInv, [Next]_vars PROVE PostureInv'
  OBVIOUS
<1>1. ASSUME NEW p \in asked,
             \/ SetUp(p) \/ Connect(p) \/ ConnectFails(p) \/ Finish(p) \/ Expire(p)
             \/ \E i \in Checks : DecideLocally(p, i) \/ \E a \in Answers(p) : Hear(p, i, a)
      PROVE  PostureInv'
  BY <1>1, SetUpKeeps, ConnectKeeps, ConnectFailsKeeps, FinishKeeps, ExpireKeeps,
     DecideLocallyKeeps, HearKeeps
<1> QED
  BY <1>1, ConcludeKeeps, AskAgainKeeps, StutterKeeps DEF Next

-----------------------------------------------------------------------------
(* The types, and that every report and the posture have their grounds.    *)
THEOREM PostureInvariance == Spec => []PostureInv
BY InitPosture, NextKeeps, PTL DEF Spec

(* Every state has its types, whatever the providers answer.               *)
THEOREM TypeCorrect == Spec => []TypeOK
<1>1. PostureInv => TypeOK
  BY DEF PostureInv
<1> QED
  BY <1>1, PostureInvariance, PTL

(* What a conclusion says of a provider: it is done, for a reason, and its *)
(* state is among those that were folded.                                  *)
LEMMA Concluded ==
  ASSUME PostureInv, posture # "none", NEW p \in asked
  PROVE  Grounds(p) /\ HeardIsEarned(p) /\ report[p] \in {report[q] : q \in asked}
BY DEF PostureInv, TypeOK, ReadIsTrue

(* A refusal that was counted makes a report that blocks.                  *)
LEMMA RefusalCounts ==
  ASSUME PostureInv, NEW p \in asked, Grounds(p), HeardIsEarned(p),
         NEW i \in Checks, heard[p][i] \in {"refused", "denied"}
  PROVE  report[p] \in {"unauthorized", "forbidden"} \/ (p \in Bounded /\ ~AllHeard(p))
<1>1. heard[p] # Nothing /\ i \in Present(p)
  BY DEF Nothing, HeardIsEarned
<1>2. CASE AllHeard(p) /\ report[p] = Worst({CheckState(p, j) : j \in Present(p)})
  <2> DEFINE W == report[p]
  <2>1. Rank(CheckState(p, i)) \in {3, 4}
    BY DEF CheckState, Rank
  <2>2. W \in States /\ Rank(CheckState(p, i)) <= Rank(W)
    BY <1>1, <1>2, ReportIsWorst
  <2> HIDE DEF W
  <2>3. W \in {"unauthorized", "forbidden"}
    BY <2>1, <2>2 DEF Rank, States
  <2> QED
    BY <2>3 DEF W
<1> QED
  BY <1>1, <1>2 DEF Grounds

(* The organization is ready only when every check was answered well, from *)
(* complete configuration (providers.rs, posture).                         *)
THEOREM NoSyntheticSuccess == Spec => []NeverSyntheticSuccess
<1>1. PostureInv => NeverSyntheticSuccess
  <2> SUFFICES ASSUME PostureInv, posture = "ready", NEW p \in asked
               PROVE  /\ \A i \in Present(p) : heard[p][i] = "ok"
                      /\ ~Missing(p) /\ ~Unusable(p)
    BY DEF NeverSyntheticSuccess
  <2>1. Grounds(p) /\ HeardIsEarned(p) /\ report[p] \in {report[q] : q \in asked}
    BY Concluded
  <2>2. {report[q] : q \in asked} = {"ready"}
    BY DEF PostureInv, Overall
  <2>3. report[p] = "ready"
    BY <2>1, <2>2
  <2>4. Complete(p) /\ AllHeard(p) /\ report[p] = Worst({CheckState(p, i) : i \in Present(p)})
    BY <2>1, <2>3 DEF Grounds
  <2>5. ASSUME NEW i \in Present(p) PROVE heard[p][i] = "ok"
    <3>1. Rank(CheckState(p, i)) <= Rank("ready") /\ i \in Checks
      BY <2>3, <2>4, ReportIsWorst DEF Present, Checks
    <3>2. CheckState(p, i) \in States
      BY <3>1, CheckStates
    <3>3. CheckState(p, i) = "ready"
      BY <3>1, <3>2 DEF Rank, States
    <3> QED
      BY <3>3 DEF CheckState, LocalState
  <2> QED
    BY <2>4, <2>5 DEF Complete
<1> QED
  BY <1>1, PostureInvariance, PTL

(* A refused credential blocks the posture, unless the common deadline     *)
(* took the answer with it (providers.rs, lib.rs).                         *)
THEOREM RefusalsBlock == Spec => []RefusalBlocks
<1>1. PostureInv => RefusalBlocks
  <2> SUFFICES ASSUME PostureInv, posture \notin {"none", "blocked"}, NEW p \in asked,
                      NEW i \in Checks, heard[p][i] \in {"refused", "denied"}
               PROVE  p \in Bounded /\ ~AllHeard(p)
    BY DEF RefusalBlocks
  <2>1. Grounds(p) /\ HeardIsEarned(p) /\ report[p] \in {report[q] : q \in asked}
    BY Concluded
  <2>2. report[p] \notin {"unauthorized", "forbidden"}
    BY <2>1 DEF PostureInv, Overall
  <2> QED
    BY <2>1, <2>2, RefusalCounts
<1> QED
  BY <1>1, PostureInvariance, PTL

-----------------------------------------------------------------------------
(* A report that says not configured has an absent piece behind it; one    *)
(* that is ready has none of its checks failed.                            *)
LEMMA QuietReports ==
  ASSUME PostureInv, NEW p \in asked, Grounds(p), HeardIsEarned(p),
         report[p] \in {"ready", "not_configured"}
  PROVE  /\ \A i \in Checks : heard[p][i] \in {"none", "local", "ok"}
         /\ report[p] = "not_configured" =>
              \E piece \in DOMAIN config[p] : config[p][piece] = "absent"
<1>0. config[p] \in Configs(p) /\ p \in Providers
  BY DEF PostureInv, TypeOK
<1>00. DOMAIN config[p] = {"scope", "second", "credential"}
  BY <1>0 DEF Configs
<1>1. CASE Missing(p) /\ heard[p] = Nothing
  BY <1>0, <1>00, <1>1 DEF Missing, Required, Nothing, Providers
<1>2. CASE AllHeard(p) /\ report[p] = Worst({CheckState(p, j) : j \in Present(p)})
  <2>1. ASSUME NEW i \in Checks PROVE heard[p][i] \in {"none", "local", "ok"}
    <3>1. CASE heard[p][i] = "none"
      BY <3>1
    <3>2. CASE heard[p][i] # "none"
      <4>1. i \in Present(p) /\ CheckState(p, i) \in States
        BY <3>2, CheckStates DEF HeardIsEarned
      <4>2. Rank(CheckState(p, i)) <= Rank(report[p])
        BY <1>2, <4>1, ReportIsWorst
      <4>3. CheckState(p, i) \in {"ready", "not_configured"}
        BY <4>1, <4>2 DEF Rank, States
      <4> QED
        BY <4>3 DEF CheckState
    <3> QED
      BY <3>1, <3>2
  <2>2. ASSUME report[p] = "not_configured"
        PROVE  config[p].credential = "absent"
    <3>1. PICK i \in Present(p) : CheckState(p, i) = "not_configured"
      BY <1>2, <2>2, ReportIsWorst
    <3> QED
      BY <3>1 DEF CheckState, LocalState
  <2> QED
    BY <1>00, <2>1, <2>2
<1> QED
  BY <1>1, <1>2 DEF Grounds

LEMMA GapsReal == PostureInv => GapIsReal
<1> SUFFICES ASSUME PostureInv, posture = "not_configured" PROVE GapIsReal
  BY DEF GapIsReal
<1> DEFINE S == {report[q] : q \in asked}
<1>1. S \subseteq States /\ S # {}
  <2>1. \A p \in asked : report[p] \in States
    BY DEF PostureInv, TypeOK
  <2> QED
    BY <2>1 DEF PostureInv
<1>2. Overall(S) = "not_configured"
  BY DEF PostureInv
<1>3. S \subseteq {"ready", "not_configured"} /\ "not_configured" \in S
  <2> HIDE DEF S
  <2> QED
    BY <1>1, <1>2 DEF Overall, States
<1>4. \A p \in asked : /\ Grounds(p) /\ HeardIsEarned(p)
                       /\ report[p] \in {"ready", "not_configured"}
  BY <1>3, Concluded
<1>5. PICK p \in asked : report[p] = "not_configured"
  BY <1>3
<1> QED
  BY <1>4, <1>5, QuietReports DEF GapIsReal

(* With nothing malformed, what a provider other than AWS lacks is either  *)
(* a piece it requires or its credential.                                  *)
LEMMA LackingIsSaid ==
  ASSUME PostureInv, NEW p \in asked \ {"aws"}, phase[p] = "done", Lacking(p)
  PROVE  report[p] = "not_configured"
<1>1. config[p] \in Configs(p) /\ p \in Providers /\ Grounds(p) /\ HeardIsEarned(p)
  BY DEF PostureInv, TypeOK, ReadIsTrue
<1>2. DOMAIN config[p] = {"scope", "second", "credential"}
  BY <1>1 DEF Configs
<1>3. ~Unusable(p) /\ config[p].second # "invalid"
  BY <1>1, <1>2 DEF Unusable, Lacking
<1>4. CASE Missing(p)
  BY <1>1, <1>3, <1>4 DEF Grounds, Complete
<1>5. CASE ~Missing(p)
  <2>1. config[p].credential = "absent"
    BY <1>1, <1>2, <1>5
    DEF Missing, Lacking, Needed, Required, Configs, Credentialed, Providers, Dials, Values
  <2>2. p \in Credentialed
    BY <1>1, <2>1 DEF Configs
  <2>3. \A i \in Checks : Decided(p, i)
    BY <2>1 DEF Decided
  <2>4. AllHeard(p) /\ report[p] = Worst({CheckState(p, j) : j \in Present(p)})
    BY <1>1, <1>3, <1>5, <2>2
    DEF Grounds, Credentialed, Dials, Bounded
  <2>5. PICK i \in Present(p) : report[p] = CheckState(p, i)
    BY <2>4, ReportIsWorst
  <2>6. i \in Checks /\ heard[p][i] = "local"
    BY <1>1, <2>3, <2>4, <2>5 DEF Present, Checks, AllHeard, HeardIsEarned
  <2> QED
    BY <1>3, <2>1, <2>5, <2>6 DEF CheckState, LocalState, BadName
<1> QED
  BY <1>4, <1>5

(* Absence is said, and nothing else is said to be absence (lib.rs,        *)
(* providers.rs).                                                          *)
THEOREM GapsTold == Spec => []GapsAreTold
<1>1. PostureInv => GapsAreTold
  BY GapsReal, LackingIsSaid DEF GapsAreTold, MissingIsSaidElsewhere
<1> QED
  BY <1>1, PostureInvariance, PTL

-----------------------------------------------------------------------------
(* The framed stream *)

(* The operators of the community modules are the same in both modules.    *)
LEMMA StreamOperators ==
  /\ \A ss : Stream!FlattenSeq(ss) = FlattenSeq(ss)
  /\ \A U : Stream!Max(U) = Max(U)
  /\ \A l : Stream!Front(l) = Front(l) /\ Stream!Last(l) = Last(l)
  /\ \A a, b : Stream!IsPrefix(a, b) = IsPrefix(a, b)
<1>1. \A ss : Stream!FlattenSeq(ss) = FlattenSeq(ss)
  BY DEF Stream!FlattenSeq, FlattenSeq
<1>2. \A U : Stream!Max(U) = Max(U)
  BY DEF Stream!Max, Max
<1>3. \A l : Stream!Front(l) = Front(l) /\ Stream!Last(l) = Last(l)
  BY DEF Stream!Front, Stream!Last, Front, Last
<1>4. \A a, b : Stream!IsPrefix(a, b) = IsPrefix(a, b)
  BY DEF Stream!IsPrefix, IsPrefix
<1> QED
  BY <1>1, <1>2, <1>3, <1>4

(* A frame is a line with at most a newline more.                          *)
LEMMA FrameType ==
  ASSUME NEW l \in Seq(Bytes)
  PROVE  /\ Stream!Frame(l) \in Seq(Bytes)
         /\ Len(l) > MaxFrame => Stream!Frame(l) = <<>>
         /\ Len(l) <= MaxFrame => /\ Stream!Frame(l) = Append(Stream!WithoutCr(l), "nl")
                                  /\ Len(Stream!Frame(l)) \in 1..(MaxFrame + 1)
<1>1. Stream!WithoutCr(l) \in Seq(Bytes) /\ Len(Stream!WithoutCr(l)) <= Len(l)
  <2>1. CASE l = <<>> \/ Stream!Last(l) # "cr"
    BY <2>1 DEF Stream!WithoutCr
  <2>2. CASE l # <<>> /\ Stream!Last(l) = "cr"
    <3>1. Stream!WithoutCr(l) = SubSeq(l, 1, Len(l) - 1)
      BY <2>2 DEF Stream!WithoutCr, Stream!Front
    <3> QED
      BY <2>2, <3>1
  <2> QED
    BY <2>1, <2>2
<1>2. "nl" \in Bytes /\ MaxFrame \in Nat
  BY FrameConstants
<1> QED
  BY <1>1, <1>2 DEF Stream!Frame

(* Where a line begins, and how far it reaches.                            *)
Unfinished(s) == SubSeq(s, Stream!LineStart(s, Len(s) + 1), Len(s))

LEMMA LineStarts ==
  ASSUME NEW s \in Seq(Bytes), NEW b \in Bytes
  PROVE  /\ \A i \in 1..(Len(s) + 1) :
              /\ Stream!LineStart(s, i) \in 1..i
              /\ Stream!LineStart(Append(s, b), i) = Stream!LineStart(s, i)
         /\ Stream!LineStart(Append(s, b), Len(s) + 2)
              = IF b = "nl" THEN Len(s) + 2 ELSE Stream!LineStart(s, Len(s) + 1)
<1> DEFINE Ends(q, i) == {0} \cup {j \in 1..(i - 1) : q[j] = "nl"}
<1>1. PICK t \in Seq(Bytes) : t = Append(s, b)
  <2>1. Append(s, b) \in Seq(Bytes)
    OBVIOUS
  <2> QED BY <2>1
<1>2. PICK n \in Nat : n = Len(s)
  OBVIOUS
<1>3. t[n + 1] = b /\ \A j \in 1..n : t[j] = s[j]
  BY <1>1, <1>2
<1>4. ASSUME NEW i \in 1..(n + 1)
      PROVE  Max(Ends(s, i)) \in 0..(i - 1) /\ Ends(t, i) = Ends(s, i)
  <2>1. Ends(s, i) \subseteq 0..(i - 1) /\ Ends(s, i) # {} /\ i - 1 \in Nat
    OBVIOUS
  <2>2. Max(Ends(s, i)) \in Ends(s, i)
    <3> HIDE DEF Ends
    <3> QED BY <2>1, MaxWithZero
  <2> QED
    BY <1>3, <2>1, <2>2
<1>5. b = "nl" => Max(Ends(t, n + 2)) = n + 1
  <2> HAVE b = "nl"
  <2>1. Ends(t, n + 2) \subseteq 0..(n + 1) /\ n + 1 \in Ends(t, n + 2) /\ n + 1 \in Nat
    BY <1>3
  <2>2. Max(Ends(t, n + 2)) \in Ends(t, n + 2) /\ Max(Ends(t, n + 2)) >= n + 1
    <3> HIDE DEF Ends
    <3> QED BY <2>1, MaxWithZero
  <2> QED
    BY <2>1, <2>2
<1>6. b # "nl" => Ends(t, n + 2) = Ends(s, n + 1)
  BY <1>3
<1>7. \A q, i : Stream!LineStart(q, i) = 1 + Max(Ends(q, i))
  BY StreamOperators DEF Stream!LineStart
<1> HIDE DEF Ends
<1>8. ASSUME NEW i \in 1..(n + 1)
      PROVE  Stream!LineStart(s, i) \in 1..i /\ Stream!LineStart(t, i) = Stream!LineStart(s, i)
  BY <1>4, <1>7
<1>9. Stream!LineStart(t, n + 2) = IF b = "nl" THEN n + 2 ELSE Stream!LineStart(s, n + 1)
  BY <1>5, <1>6, <1>7
<1> QED
  BY <1>1, <1>2, <1>8, <1>9

(* One more byte: a newline ends the unfinished line and gives its frame,  *)
(* any other byte lengthens it.                                            *)
Piece(s, b) == IF b = "nl" THEN Stream!Frame(Unfinished(s)) ELSE <<>>
Rest(s, b) == IF b = "nl" THEN <<>> ELSE Append(Unfinished(s), b)

Pieces(s) ==
  [i \in DOMAIN s |->
    IF s[i] = "nl" THEN Stream!Frame(SubSeq(s, Stream!LineStart(s, i), i - 1)) ELSE <<>>]

(* What the definitions of the stream are made of                          *)
LEMMA UnfinishedType ==
  ASSUME NEW s \in Seq(Bytes)
  PROVE  Unfinished(s) \in Seq(Bytes)
<1>1. PICK k \in 1..(Len(s) + 1) : k = Stream!LineStart(s, Len(s) + 1)
  <2>1. "nl" \in Bytes /\ Len(s) + 1 \in 1..(Len(s) + 1)
    BY FrameConstants
  <2> QED
    BY <2>1, LineStarts
<1>2. SubSeq(s, k, Len(s)) \in Seq(Bytes)
  OBVIOUS
<1> QED
  BY <1>1, <1>2 DEF Unfinished

LEMMA PiecesType ==
  ASSUME NEW s \in Seq(Bytes)
  PROVE  /\ Pieces(s) \in Seq(Seq(Bytes)) /\ Len(Pieces(s)) = Len(s)
         /\ Stream!FramesOf(s) = FlattenSeq(Pieces(s))
<1>1. "nl" \in Bytes
  BY FrameConstants
<1>2. \A i \in 1..Len(s) : SubSeq(s, Stream!LineStart(s, i), i - 1) \in Seq(Bytes)
  <2> SUFFICES ASSUME NEW i \in 1..Len(s)
               PROVE  SubSeq(s, Stream!LineStart(s, i), i - 1) \in Seq(Bytes)
    OBVIOUS
  <2>1. PICK k \in 1..i : k = Stream!LineStart(s, i)
    <3>1. i \in 1..(Len(s) + 1)
      OBVIOUS
    <3> QED
      BY <1>1, <3>1, LineStarts
  <2>2. SubSeq(s, k, i - 1) \in Seq(Bytes)
    OBVIOUS
  <2> QED
    BY <2>1, <2>2
<1>3. \A i \in 1..Len(s) : Stream!Frame(SubSeq(s, Stream!LineStart(s, i), i - 1)) \in Seq(Bytes)
  BY <1>2, FrameType
<1>4. DOMAIN s = 1..Len(s) /\ Len(s) \in Nat /\ <<>> \in Seq(Bytes)
  OBVIOUS
<1>5. Pieces(s) \in [1..Len(s) -> Seq(Bytes)]
  BY <1>3, <1>4 DEF Pieces
<1>6. Stream!FramesOf(s) = FlattenSeq(Pieces(s))
  BY StreamOperators DEF Stream!FramesOf, Pieces
<1>7. Pieces(s) \in Seq(Seq(Bytes)) /\ Len(Pieces(s)) = Len(s)
  BY <1>4, <1>5
<1> QED
  BY <1>6, <1>7

(* The frames and the line after one byte more                             *)
LEMMA OneByte ==
  ASSUME NEW s \in Seq(Bytes), NEW b \in Bytes
  PROVE  /\ Stream!FramesOf(s) \in Seq(Bytes) /\ Piece(s, b) \in Seq(Bytes)
         /\ Stream!FramesOf(Append(s, b)) = Stream!FramesOf(s) \o Piece(s, b)
         /\ Unfinished(Append(s, b)) = Rest(s, b)
<1>1. PICK t \in Seq(Bytes) : t = Append(s, b)
  <2>1. Append(s, b) \in Seq(Bytes)
    OBVIOUS
  <2> QED BY <2>1
<1>2. PICK n \in Nat : n = Len(s)
  OBVIOUS
<1>3. /\ Len(t) = n + 1 /\ t[n + 1] = b /\ \A j \in 1..n : t[j] = s[j]
      /\ \A k \in 1..(n + 1), i \in 0..n : SubSeq(t, k, i) = SubSeq(s, k, i)
  BY <1>1, <1>2
<1>4. \A i \in 1..(n + 1) :
        Stream!LineStart(s, i) \in 1..i /\ Stream!LineStart(t, i) = Stream!LineStart(s, i)
  BY <1>1, <1>2, LineStarts
<1>5. Stream!LineStart(t, n + 2) = IF b = "nl" THEN n + 2 ELSE Stream!LineStart(s, n + 1)
  BY <1>1, <1>2, LineStarts
<1>6. PICK k \in 1..(n + 1) : k = Stream!LineStart(s, n + 1)
  BY <1>4
<1>7. Unfinished(s) = SubSeq(s, k, n) /\ Unfinished(s) = SubSeq(t, k, n)
  BY <1>2, <1>3, <1>6 DEF Unfinished
<1>8. Unfinished(t) = Rest(s, b)
  <2>1. CASE b = "nl"
    <3>1. Unfinished(t) = SubSeq(t, n + 2, n + 1)
      BY <1>3, <1>5, <2>1 DEF Unfinished
    <3>2. SubSeq(t, n + 2, n + 1) = <<>>
      BY <1>3
    <3> QED
      BY <2>1, <3>1, <3>2 DEF Rest
  <2>2. CASE b # "nl"
    <3>1. Unfinished(t) = SubSeq(t, k, n + 1)
      BY <1>3, <1>5, <1>6, <2>2 DEF Unfinished
    <3>2. SubSeq(t, k, n + 1) = Append(SubSeq(s, k, n), b)
      BY <1>1, <1>2, <1>3
    <3> QED
      BY <1>7, <2>2, <3>1, <3>2 DEF Rest
  <2> QED
    BY <2>1, <2>2
<1>9. Pieces(s) \in Seq(Seq(Bytes)) /\ Len(Pieces(s)) = n /\ Pieces(t) \in Seq(Seq(Bytes)) /\ Len(Pieces(t)) = n + 1
  BY <1>2, <1>3, PiecesType
<1>10. \A i \in 1..n : Pieces(t)[i] = Pieces(s)[i]
  <2> SUFFICES ASSUME NEW i \in 1..n PROVE Pieces(t)[i] = Pieces(s)[i]
    OBVIOUS
  <2>1. i \in 1..(n + 1) /\ i - 1 \in 0..n /\ i \in DOMAIN s /\ i \in DOMAIN t
    BY <1>2, <1>3
  <2>2. /\ Stream!LineStart(t, i) = Stream!LineStart(s, i)
        /\ Stream!LineStart(s, i) \in 1..(n + 1)
    BY <1>4, <2>1
  <2>3. t[i] = s[i] /\ SubSeq(t, Stream!LineStart(t, i), i - 1) = SubSeq(s, Stream!LineStart(s, i), i - 1)
    BY <1>3, <2>1, <2>2
  <2> QED
    BY <2>1, <2>3 DEF Pieces
<1>11. Pieces(t)[n + 1] = Piece(s, b)
  <2>1. n + 1 \in DOMAIN t /\ (n + 1) - 1 = n
    BY <1>3
  <2>2. Stream!LineStart(t, n + 1) = k
    BY <1>4, <1>6
  <2> QED
    BY <1>3, <1>7, <2>1, <2>2 DEF Pieces, Piece
<1>12. Piece(s, b) \in Seq(Bytes)
  <2>1. Unfinished(s) \in Seq(Bytes)
    BY UnfinishedType
  <2>2. Stream!Frame(Unfinished(s)) \in Seq(Bytes) /\ <<>> \in Seq(Bytes)
    BY <2>1, FrameType
  <2> QED
    BY <2>2 DEF Piece
<1>13. Pieces(t) = Append(Pieces(s), Piece(s, b))
  <2>1. PICK ps \in Seq(Seq(Bytes)), pt \in Seq(Seq(Bytes)), p \in Seq(Bytes) :
           ps = Pieces(s) /\ pt = Pieces(t) /\ p = Piece(s, b)
    BY <1>9, <1>12
  <2>2. /\ Len(ps) = n /\ Len(pt) = n + 1 /\ pt[n + 1] = p /\ \A i \in 1..n : pt[i] = ps[i]
    BY <1>9, <1>10, <1>11, <2>1
  <2>3. pt = Append(ps, p)
    BY <2>2
  <2> QED
    BY <2>1, <2>3
<1>14. FlattenSeq(Pieces(s)) \in Seq(Bytes) /\ FlattenSeq(Pieces(t)) = FlattenSeq(Pieces(s)) \o Piece(s, b)
  BY <1>9, <1>12, <1>13, FlattenAppend
<1>15. Stream!FramesOf(s) = FlattenSeq(Pieces(s)) /\ Stream!FramesOf(t) = FlattenSeq(Pieces(t))
  BY PiecesType
<1> QED
  BY <1>1, <1>8, <1>12, <1>14, <1>15

(* A chunk without a newline only lengthens the line, ...                  *)
LEMMA WithinALine ==
  ASSUME NEW s \in Seq(Bytes), NEW w \in Seq(Bytes \ {"nl"})
  PROVE  /\ Stream!FramesOf(s \o w) = Stream!FramesOf(s)
         /\ Unfinished(s \o w) = Unfinished(s) \o w
<1> DEFINE P(c) == /\ Stream!FramesOf(s \o c) = Stream!FramesOf(s)
                   /\ Unfinished(s \o c) = Unfinished(s) \o c
           S == {c \in Seq(Bytes) : P(c)}
<1>0. PICK u \in Seq(Bytes) : u = Unfinished(s)
  BY UnfinishedType
<1>1. <<>> \in S
  <2>1. s \o <<>> = s /\ u \o <<>> = u /\ <<>> \in Seq(Bytes)
    OBVIOUS
  <2> QED
    BY <1>0, <2>1
<1>2. ASSUME NEW c \in Seq(Bytes \ {"nl"}), NEW b \in Bytes \ {"nl"}, c \in S
      PROVE  Append(c, b) \in S
  <2>1. c \in Seq(Bytes) /\ b \in Bytes /\ P(c)
    BY <1>2
  <2>2. s \o Append(c, b) = Append(s \o c, b) /\ s \o c \in Seq(Bytes) /\ Append(c, b) \in Seq(Bytes)
    BY <2>1, AppendConcat
  <2>3. /\ Stream!FramesOf(s \o c) \in Seq(Bytes)
        /\ Stream!FramesOf(Append(s \o c, b)) = Stream!FramesOf(s \o c) \o Piece(s \o c, b)
        /\ Unfinished(Append(s \o c, b)) = Rest(s \o c, b)
    BY <2>1, <2>2, OneByte
  <2>4. Piece(s \o c, b) = <<>> /\ Rest(s \o c, b) = Append(Unfinished(s \o c), b)
    BY DEF Piece, Rest
  <2>5. \A q \in Seq(Bytes) : q \o <<>> = q
    OBVIOUS
  <2>6. u \o Append(c, b) = Append(u \o c, b)
    BY <2>1, AppendConcat
  <2>7. Stream!FramesOf(s \o Append(c, b)) = Stream!FramesOf(s)
    BY <2>1, <2>2, <2>3, <2>4, <2>5
  <2>8. Unfinished(s \o Append(c, b)) = Unfinished(s) \o Append(c, b)
    BY <1>0, <2>1, <2>2, <2>3, <2>4, <2>6
  <2> QED
    BY <2>2, <2>7, <2>8
<1>3. Seq(Bytes \ {"nl"}) \subseteq S
  <2> HIDE DEF S
  <2> QED BY <1>1, <1>2, SequenceInduction
<1> QED
  BY <1>3

(* ... and what is owed only grows.                                        *)
LEMMA FramesGrow ==
  ASSUME NEW s \in Seq(Bytes), NEW w \in Seq(Bytes)
  PROVE  \E more \in Seq(Bytes) : Stream!FramesOf(s \o w) = Stream!FramesOf(s) \o more
<1> DEFINE P(c) == \E more \in Seq(Bytes) : Stream!FramesOf(s \o c) = Stream!FramesOf(s) \o more
           S == {c \in Seq(Bytes) : P(c)}
<1>0. PICK f \in Seq(Bytes) : f = Stream!FramesOf(s)
  BY PiecesType, FlattenPlaces
<1>1. <<>> \in S
  <2>1. s \o <<>> = s /\ f \o <<>> = f /\ <<>> \in Seq(Bytes)
    OBVIOUS
  <2> QED
    BY <1>0, <2>1
<1>2. ASSUME NEW c \in Seq(Bytes), NEW b \in Bytes, c \in S PROVE Append(c, b) \in S
  <2>1. s \o Append(c, b) = Append(s \o c, b) /\ s \o c \in Seq(Bytes) /\ Append(c, b) \in Seq(Bytes)
    BY AppendConcat
  <2>2. PICK more \in Seq(Bytes) : Stream!FramesOf(s \o c) = f \o more
    BY <1>0, <1>2
  <2>3. PICK p \in Seq(Bytes) : Stream!FramesOf(Append(s \o c, b)) = Stream!FramesOf(s \o c) \o p
    BY <2>1, OneByte
  <2>4. (f \o more) \o p = f \o (more \o p) /\ more \o p \in Seq(Bytes)
    OBVIOUS
  <2> QED
    BY <1>0, <2>1, <2>2, <2>3, <2>4
<1>3. Seq(Bytes) \subseteq S
  <2> HIDE DEF S
  <2> QED BY <1>1, <1>2, SequenceInduction
<1> QED
  BY <1>3

-----------------------------------------------------------------------------
(* The reader has worked through a part c of what was sent: it has handed  *)
(* out, or holds, the frames of c, and has gathered the unfinished line of *)
(* c, or dropped it for its length.                                        *)
Worked(c) ==
  /\ sent = c \o (available \o pipe)
  /\ Stream!FramesOf(c) = out \o pending
  /\ ~discarding => line = Unfinished(c)
  /\ discarding => line = <<>> /\ Len(Unfinished(c)) > MaxFrame

AllGiven == pending = <<>> /\ available = <<>> /\ pipe = <<>> /\ closed

FramesInv ==
  /\ FramesTypeOK
  /\ \E c \in Seq(Bytes) : Worked(c)
  /\ ended => AllGiven

StreamStep == [Stream!StreamNext]_(Stream!streamVars)

LEMMA FramesInitially == FramesInit => Stream!StreamInit /\ FramesInv
<1> SUFFICES ASSUME FramesInit PROVE Stream!StreamInit /\ FramesInv
  OBVIOUS
<1>1. Stream!StreamInit
  BY DEF FramesInit, Stream!StreamInit
<1>2. PICK e \in Seq(Bytes) : e = <<>> /\ Len(e) = 0
  BY EmptySeq
<1>3. FramesTypeOK
  <2>1. MaxFrame \in Nat /\ BufSize \in Nat
    BY FrameConstants
  <2>2. FramesTypeOK
    <3>0. /\ sent \in Seq(Bytes) /\ pipe \in Seq(Bytes) /\ available \in Seq(Bytes)
          /\ line \in Seq(Bytes) /\ pending \in Seq(Bytes) /\ out \in Seq(Bytes)
      BY EmptySeq DEF FramesInit
    <3>1. sent = e /\ pipe = e /\ available = e /\ line = e /\ pending = e /\ out = e
      BY <1>2 DEF FramesInit
    <3>2. Len(available) = 0 /\ Len(line) = 0 /\ Len(pending) = 0
      BY <1>2, <3>1
    <3> QED
      <4>1. closed \in BOOLEAN /\ discarding \in BOOLEAN /\ ended \in BOOLEAN
        BY DEF FramesInit
      <4>2. Len(available) <= BufSize /\ Len(line) <= MaxFrame /\ Len(pending) <= MaxFrame + 1
        BY <2>1, <3>2
      <4> QED
        BY <3>0, <4>1, <4>2 DEF FramesTypeOK
  <2> QED BY <2>2
<1>4. Stream!FramesOf(e) = <<>>
  <2>1. Pieces(e) \in Seq(Seq(Bytes)) /\ Len(Pieces(e)) = 0 /\ Stream!FramesOf(e) = FlattenSeq(Pieces(e))
    BY <1>2, PiecesType
  <2>2. Pieces(e) = <<>>
    BY <2>1
  <2> QED
    BY <2>1, <2>2, FlattenEmpty
<1>5. Unfinished(e) = <<>>
  <2>1. "nl" \in Bytes /\ Len(e) = 0
    BY <1>2, FrameConstants
  <2>2. Stream!LineStart(e, 1) \in 1..1
    <3>1. 1 \in 1..(Len(e) + 1)
      BY <2>1
    <3> QED
      BY <2>1, <3>1, LineStarts
  <2> QED
    BY <1>2, <2>1, <2>2 DEF Unfinished
<1>6. Worked(e)
  BY <1>2, <1>4, <1>5 DEF FramesInit, Worked
<1> QED
  BY <1>1, <1>3, <1>6 DEF FramesInv, FramesInit

(* Bytes handed out from what is pending are owed: the reader's caller     *)
(* then has a prefix of the frames of all that was sent.                   *)
LEMMA OwedIsGiven ==
  ASSUME NEW c \in Seq(Bytes), NEW w \in Seq(Bytes), sent = c \o w, ~ended,
         out \in Seq(Bytes), NEW b \in Seq(Bytes), NEW n \in 0..Len(b),
         Stream!FramesOf(c) = out \o b,
         out' = out \o SubSeq(b, 1, n), UNCHANGED <<sent, closed, ended>>
  PROVE  Stream!Give
<1>1. PICK more \in Seq(Bytes) : Stream!FramesOf(c \o w) = Stream!FramesOf(c) \o more
  BY FramesGrow
<1>2. \E m \in 0..Len((out \o b) \o more) :
           /\ out \o SubSeq(b, 1, n) = SubSeq((out \o b) \o more, 1, m)
           /\ IsPrefix(out, out \o SubSeq(b, 1, n))
  <2> DEFINE x == SubSeq(b, 1, n)
             y == SubSeq(b, n + 1, Len(b))
  <2>1. x \in Seq(Bytes) /\ y \in Seq(Bytes) /\ x \o y = b
    BY CutInTwo
  <2> HIDE DEF x, y
  <2>2. \E m \in 0..Len((out \o (x \o y)) \o more) :
           /\ out \o x = SubSeq((out \o (x \o y)) \o more, 1, m)
           /\ IsPrefix(out, out \o x)
    BY <2>1, PartOfWhole
  <2> QED
    BY <2>1, <2>2, Zenon DEF x
<1>3. Stream!FramesOf(sent) = (out \o b) \o more
  BY <1>1
<1>4. PICK m \in 0..Len(Stream!FramesOf(sent)) :
           /\ out' = SubSeq(Stream!FramesOf(sent), 1, m)
           /\ IsPrefix(out, SubSeq(Stream!FramesOf(sent), 1, m))
  BY <1>2, <1>3, Zenon
<1>5. Stream!IsPrefix(out, SubSeq(Stream!FramesOf(sent), 1, m))
  BY <1>4, StreamOperators
<1> QED
  BY <1>4, <1>5 DEF Stream!Give

(* A newline after a chunk without one                                     *)
LEMMA LineEnds ==
  ASSUME NEW c \in Seq(Bytes), NEW w \in Seq(Bytes \ {"nl"})
  PROVE  /\ Append(c \o w, "nl") \in Seq(Bytes)
         /\ Unfinished(c) \o w \in Seq(Bytes)
         /\ Stream!FramesOf(Append(c \o w, "nl"))
              = Stream!FramesOf(c) \o Stream!Frame(Unfinished(c) \o w)
         /\ Unfinished(Append(c \o w, "nl")) = <<>>
<1>1. w \in Seq(Bytes) /\ "nl" \in Bytes
  BY SeqMonotonic, FrameConstants
<1>2. c \o w \in Seq(Bytes) /\ Append(c \o w, "nl") \in Seq(Bytes)
  BY <1>1, AppendConcat
<1>3. Unfinished(c) \in Seq(Bytes)
  BY UnfinishedType
<1>4. Unfinished(c) \o w \in Seq(Bytes)
  BY <1>1, <1>3, ConcatProperties
<1>5. Stream!FramesOf(c \o w) = Stream!FramesOf(c) /\ Unfinished(c \o w) = Unfinished(c) \o w
  BY WithinALine
<1>6. /\ Stream!FramesOf(Append(c \o w, "nl")) = Stream!FramesOf(c \o w) \o Piece(c \o w, "nl")
      /\ Unfinished(Append(c \o w, "nl")) = Rest(c \o w, "nl")
  BY <1>1, <1>2, OneByte
<1>7. Piece(c \o w, "nl") = Stream!Frame(Unfinished(c \o w)) /\ Rest(c \o w, "nl") = <<>>
  BY DEF Piece, Rest
<1> QED
  BY <1>2, <1>4, <1>5, <1>6, <1>7

(* What is taken from a buffer up to and with a newline                    *)
TakesLine(s, k, c, p) ==
  c \o (s \o p) = Append(c \o SubSeq(s, 1, k - 1), s[k]) \o (SubSeq(s, k + 1, Len(s)) \o p)

LEMMA TakenLine ==
  ASSUME NEW T, NEW s \in Seq(T), NEW k \in 1..Len(s), NEW c \in Seq(T), NEW p \in Seq(T)
  PROVE  TakesLine(s, k, c, p)
<1> DEFINE w == SubSeq(s, 1, k - 1)
           v == SubSeq(s, 1, k)
           r == SubSeq(s, k + 1, Len(s))
<1>1. k \in 0..Len(s) /\ s[k] \in T
  OBVIOUS
<1>2. v = Append(w, s[k]) /\ w \in Seq(T)
  BY PrefixIsAppend
<1>3. v \in Seq(T) /\ r \in Seq(T) /\ v \o r = s
  BY <1>1, CutInTwo
<1> HIDE DEF w, v, r
<1>4. Regroup4(c, v, r, p) /\ AppendLater(c, w, s[k])
  BY <1>1, <1>2, <1>3, Regroups4, AppendsLater
<1>5. c \o (s \o p) = (c \o v) \o (r \o p)
  BY <1>3, <1>4, Zenon DEF Regroup4
<1>6. c \o v = Append(c \o w, s[k])
  BY <1>2, <1>4, Zenon DEF AppendLater
<1> QED
  BY <1>5, <1>6, Zenon DEF w, r, TakesLine

(* The first newline of the buffer, and the parts on both sides of it      *)
LEMMA FirstNewline ==
  ASSUME available \in Seq(Bytes), HasNewline
  PROVE  /\ Offset \in 1..Len(available) /\ available[Offset] = "nl"
         /\ SubSeq(available, 1, Offset - 1) \in Seq(Bytes \ {"nl"})
         /\ SubSeq(available, Offset + 1, Len(available)) \in Seq(Bytes)
<1>1. PICK a \in Seq(Bytes) : a = available
  OBVIOUS
<1> DEFINE U == {i \in 1..Len(a) : a[i] = "nl"}
<1>2. U # {} /\ U \in SUBSET Nat
  BY <1>1 DEF HasNewline
<1>3. PICK x \in U : \A y \in U : x <= y
  <2> HIDE DEF U
  <2> QED BY <1>2, LeastOfSome
<1>4. x \in DOMAIN available /\ available[x] = "nl" /\ \A j \in 1..(x - 1) : available[j] # "nl"
  BY <1>1, <1>3
<1>5. Offset \in DOMAIN available /\ available[Offset] = "nl"
      /\ \A j \in 1..(Offset - 1) : available[j] # "nl"
  BY <1>4 DEF Offset
<1>6. PICK k \in 1..Len(a) : k = Offset /\ a[k] = "nl" /\ \A j \in 1..(k - 1) : a[j] # "nl"
  BY <1>1, <1>5
<1>7. SubSeq(a, 1, k - 1) \in Seq(Bytes \ {"nl"})
  <2>1. 1 \in Int /\ k - 1 \in Int /\ \A j \in 1..(k - 1) : a[j] \in Bytes \ {"nl"}
    BY <1>6
  <2> HIDE DEF U
  <2> QED BY <2>1, SubSeqProperties
<1>8. SubSeq(a, k + 1, Len(a)) \in Seq(Bytes)
  <2>1. k \in 0..Len(a)
    OBVIOUS
  <2> QED BY <2>1, CutInTwo
<1> QED
  BY <1>1, <1>6, <1>7, <1>8

LEMMA NoNewline ==
  ASSUME available \in Seq(Bytes), ~HasNewline
  PROVE  available \in Seq(Bytes \ {"nl"})
<1>1. \A i \in 1..Len(available) : available[i] \in Bytes \ {"nl"}
  BY DEF HasNewline
<1> QED
  BY <1>1

(* What each step does *)

(* Copying moves bytes of the frame from what is owed to what is given.    *)
LEMMA CopyKeeps ==
  ASSUME NEW b \in Seq(Bytes), Copy(b), out \in Seq(Bytes)
  PROVE  \E n \in 0..Len(b) :
            /\ out' = out \o SubSeq(b, 1, n) /\ pending' = SubSeq(b, n + 1, Len(b))
            /\ out' \in Seq(Bytes) /\ pending' \in Seq(Bytes) /\ Len(pending') <= Len(b)
            /\ out' \o pending' = out \o b
<1>1. PICK n \in 1..Len(b) : out' = out \o SubSeq(b, 1, n) /\ pending' = SubSeq(b, n + 1, Len(b))
  BY DEF Copy
<1>2. n \in 0..Len(b) /\ Len(b) \in Nat
  OBVIOUS
<1>3. /\ SubSeq(b, 1, n) \in Seq(Bytes)
      /\ SubSeq(b, n + 1, Len(b)) \in Seq(Bytes) /\ Len(SubSeq(b, n + 1, Len(b))) = Len(b) - n
      /\ SubSeq(b, 1, n) \o SubSeq(b, n + 1, Len(b)) = b
  BY <1>2, CutInTwo
<1>4. out' \in Seq(Bytes)
  BY <1>1, <1>3, ConcatProperties
<1>5. (out \o SubSeq(b, 1, n)) \o SubSeq(b, n + 1, Len(b)) = out \o b
  <2> DEFINE x == SubSeq(b, 1, n)
             y == SubSeq(b, n + 1, Len(b))
  <2>1. x \in Seq(Bytes) /\ y \in Seq(Bytes) /\ x \o y = b
    BY <1>3
  <2> HIDE DEF x, y
  <2>2. Regroup(out, x, y)
    BY <2>1, Regroups
  <2> QED
    BY <2>1, <2>2, Zenon DEF x, y, Regroup
<1>6. Len(pending') <= Len(b)
  BY <1>1, <1>2, <1>3
<1> QED
  BY <1>1, <1>2, <1>3, <1>4, <1>5, <1>6, Zenon

LEMMA StepCopyPending ==
  ASSUME FramesInv, CopyPending
  PROVE  FramesInv' /\ StreamStep
<1>1. PICK c \in Seq(Bytes) : Worked(c)
  BY DEF FramesInv
<1>2. pending \in Seq(Bytes) /\ out \in Seq(Bytes) /\ Copy(pending) /\ ~ended /\ FramesTypeOK
  BY DEF FramesInv, FramesTypeOK, AllGiven, CopyPending
<1>3. PICK n \in 0..Len(pending) :
            /\ out' = out \o SubSeq(pending, 1, n)
            /\ out' \in Seq(Bytes) /\ pending' \in Seq(Bytes) /\ Len(pending') <= Len(pending)
            /\ out' \o pending' = out \o pending
  BY <1>2, CopyKeeps
<1>4. FramesTypeOK'
  <2>1. Len(pending) \in Nat /\ Len(pending') \in Nat /\ MaxFrame \in Nat
    BY <1>2, <1>3, LenProperties, FrameConstants
  <2>2. Len(pending') <= MaxFrame + 1
    BY <1>2, <1>3, <2>1 DEF FramesTypeOK
  <2> QED
    BY <1>2, <1>3, <2>2 DEF FramesTypeOK, CopyPending
<1>5. Worked(c)'
  BY <1>1, <1>3 DEF Worked, CopyPending
<1>6. Stream!Give
  <2>1. available \o pipe \in Seq(Bytes)
    BY <1>2, ConcatProperties DEF FramesTypeOK
  <2>2. sent = c \o (available \o pipe) /\ Stream!FramesOf(c) = out \o pending
    BY <1>1 DEF Worked
  <2>3. UNCHANGED <<sent, closed, ended>>
    BY DEF CopyPending
  <2> QED
    BY <1>2, <1>3, <2>1, <2>2, <2>3, OwedIsGiven
<1> QED
  BY <1>2, <1>4, <1>5, <1>6 DEF FramesInv, StreamStep, Stream!StreamNext, CopyPending

LEMMA StepFillBuf ==
  ASSUME FramesInv, FillBuf
  PROVE  FramesInv' /\ StreamStep
<1>1. PICK c \in Seq(Bytes) : Worked(c)
  BY DEF FramesInv
<1>2. PICK n \in 1..BufSize :
         /\ n <= Len(pipe) /\ available' = SubSeq(pipe, 1, n)
         /\ pipe' = SubSeq(pipe, n + 1, Len(pipe))
  BY DEF FillBuf
<1>3. pipe \in Seq(Bytes) /\ Len(pipe) \in Nat /\ BufSize \in Nat
  BY LenProperties, FrameConstants DEF FramesInv, FramesTypeOK
<1>4. n \in 0..Len(pipe) /\ n <= BufSize
  BY <1>2, <1>3
<1>5. /\ available' \in Seq(Bytes) /\ Len(available') = n /\ pipe' \in Seq(Bytes)
      /\ available' \o pipe' = pipe
  BY <1>2, <1>3, <1>4, CutInTwo
<1>6. FramesTypeOK'
  BY <1>4, <1>5 DEF FramesInv, FramesTypeOK, FillBuf
<1>7. available \o pipe = pipe
  BY <1>3, ConcatEmptySeq DEF FillBuf
<1>8. Worked(c)'
  BY <1>1, <1>5, <1>7 DEF Worked, FillBuf
<1>9. ~ended
  <2>1. ended => pipe = <<>>
    BY DEF FramesInv, AllGiven
  <2>2. pipe # <<>>
    BY <1>2, <1>3
  <2> QED
    BY <2>1, <2>2
<1> QED
  BY <1>6, <1>8, <1>9 DEF FramesInv, StreamStep, Stream!streamVars, FillBuf

(* A buffer that holds a newline is cut there; c is then worked through up *)
(* to and with that newline.                                               *)
Through(c) == Append(c \o SubSeq(available, 1, Offset - 1), "nl")
Line(c) == Unfinished(c) \o SubSeq(available, 1, Offset - 1)

LEMMA ThroughNewline ==
  ASSUME FramesInv, HasNewline, NEW c \in Seq(Bytes), Worked(c),
         available' = SubSeq(available, Offset + 1, Len(available)), UNCHANGED <<sent, pipe>>
  PROVE  /\ Through(c) \in Seq(Bytes) /\ Line(c) \in Seq(Bytes)
         /\ sent' = Through(c) \o (available' \o pipe')
         /\ Stream!FramesOf(Through(c)) = Stream!FramesOf(c) \o Stream!Frame(Line(c))
         /\ Unfinished(Through(c)) = <<>>
         /\ available' \in Seq(Bytes) /\ Len(available') <= BufSize
         /\ Len(Line(c)) = Len(Unfinished(c)) + (Offset - 1)
         /\ Len(Unfinished(c)) \in Nat /\ Offset - 1 \in Nat
<1>1. /\ available \in Seq(Bytes) /\ pipe \in Seq(Bytes) /\ Len(available) <= BufSize
      /\ sent = c \o (available \o pipe)
  BY DEF FramesInv, FramesTypeOK, Worked
<1>2. /\ Offset \in 1..Len(available) /\ available[Offset] = "nl"
      /\ SubSeq(available, 1, Offset - 1) \in Seq(Bytes \ {"nl"})
      /\ available' \in Seq(Bytes)
  BY <1>1, FirstNewline
<1>3. sent = Through(c) \o (SubSeq(available, Offset + 1, Len(available)) \o pipe)
  <2>1. TakesLine(available, Offset, c, pipe)
    BY <1>1, <1>2, TakenLine
  <2> QED
    BY <1>1, <1>2, <2>1, Zenon DEF Through, TakesLine
<1>4. /\ Through(c) \in Seq(Bytes) /\ Line(c) \in Seq(Bytes)
      /\ Stream!FramesOf(Through(c)) = Stream!FramesOf(c) \o Stream!Frame(Line(c))
      /\ Unfinished(Through(c)) = <<>>
  BY <1>2, LineEnds, Zenon DEF Through, Line
<1>5. /\ Len(available') <= BufSize /\ Len(SubSeq(available, 1, Offset - 1)) = Offset - 1
      /\ Offset - 1 \in Nat
  <2>1. Len(available) \in Nat /\ BufSize \in Nat
    BY <1>1, LenProperties, FrameConstants
  <2>2. PICK k \in 1..Len(available) : k = Offset
    BY <1>2
  <2>3. k - 1 \in 0..Len(available) /\ k \in 0..Len(available)
    BY <2>1
  <2>4. /\ Len(SubSeq(available, 1, k - 1)) = k - 1
        /\ Len(SubSeq(available, k + 1, Len(available))) = Len(available) - k
    BY <1>1, <2>3, CutInTwo
  <2> QED
    BY <1>1, <2>1, <2>2, <2>4
<1>6. /\ Len(Line(c)) = Len(Unfinished(c)) + (Offset - 1)
      /\ Len(Unfinished(c)) \in Nat
  <2>1. Unfinished(c) \in Seq(Bytes) /\ SubSeq(available, 1, Offset - 1) \in Seq(Bytes)
    BY <1>2, UnfinishedType, SeqMonotonic
  <2> QED
    BY <1>5, <2>1, ConcatProperties, LenProperties DEF Line
<1> QED
  BY <1>2, <1>3, <1>4, <1>5, <1>6, Zenon

LEMMA StepEndSkippedLine ==
  ASSUME FramesInv, EndSkippedLine
  PROVE  FramesInv' /\ StreamStep
<1>1. PICK c \in Seq(Bytes) : Worked(c)
  BY DEF FramesInv
<1>2. /\ HasNewline /\ available' = SubSeq(available, Offset + 1, Len(available))
      /\ UNCHANGED <<sent, pipe>>
  BY DEF EndSkippedLine
<1>3. /\ Through(c) \in Seq(Bytes) /\ Line(c) \in Seq(Bytes)
      /\ sent' = Through(c) \o (available' \o pipe')
      /\ Stream!FramesOf(Through(c)) = Stream!FramesOf(c) \o Stream!Frame(Line(c))
      /\ Unfinished(Through(c)) = <<>>
      /\ available' \in Seq(Bytes) /\ Len(available') <= BufSize
      /\ Len(Line(c)) = Len(Unfinished(c)) + (Offset - 1)
      /\ Len(Unfinished(c)) \in Nat /\ Offset - 1 \in Nat
  BY <1>1, <1>2, ThroughNewline
<1>4. Len(Line(c)) > MaxFrame
  <2>1. MaxFrame \in Nat /\ Skips(Offset - 1)
    BY FrameConstants DEF EndSkippedLine
  <2>2. CASE discarding
    BY <1>1, <1>3, <2>1, <2>2 DEF Worked
  <2>3. CASE ~discarding
    BY <1>1, <1>3, <2>1, <2>3 DEF Worked, Skips
  <2> QED
    BY <2>2, <2>3
<1>5. Stream!FramesOf(Through(c)) = out \o pending
  <2>1. Stream!Frame(Line(c)) = <<>>
    BY <1>3, <1>4, FrameType
  <2>2. Stream!FramesOf(c) \in Seq(Bytes) /\ Stream!FramesOf(c) = out \o pending
    BY <1>1, FrameConstants, OneByte DEF Worked
  <2> QED
    BY <1>3, <2>1, <2>2, ConcatEmptySeq
<1>6. PICK d \in Seq(Bytes) : d = Through(c)
  BY <1>3
<1>7. Worked(d)'
  <2>1. /\ line' = <<>> /\ discarding' = FALSE /\ out' = out /\ pending' = pending
    BY DEF EndSkippedLine, DiscardingAfterLine
  <2>2. /\ sent' = d \o (available' \o pipe') /\ Stream!FramesOf(d) = out \o pending
        /\ Unfinished(d) = <<>>
    BY <1>3, <1>5, <1>6
  <2> QED
    BY <2>1, <2>2 DEF Worked
<1>8. FramesTypeOK'
  <2>1. line' \in Seq(Bytes) /\ Len(line') <= MaxFrame
    BY EmptySeq, FrameConstants DEF EndSkippedLine
  <2> QED
    BY <1>3, <2>1 DEF FramesInv, FramesTypeOK, EndSkippedLine, DiscardingAfterLine
<1>9. ~ended
  BY <1>2 DEF FramesInv, AllGiven, HasNewline
<1> QED
  BY <1>7, <1>8, <1>9 DEF FramesInv, StreamStep, Stream!streamVars, EndSkippedLine

(* The frame of a line that is not skipped is the one owed for it.         *)
LEMMA FrameOfLine ==
  ASSUME NEW part \in Seq(Bytes), line \o part \in Seq(Bytes), Len(line \o part) <= MaxFrame
  PROVE  Append(Trimmed(part), "nl") = Stream!Frame(line \o part)
<1>1. Trimmed(part) = Stream!WithoutCr(line \o part)
  BY StreamOperators DEF Trimmed, Stream!WithoutCr
<1>2. Stream!Frame(line \o part) = Append(Stream!WithoutCr(line \o part), "nl")
  BY FrameType
<1> QED
  BY <1>1, <1>2

LEMMA StepEndFrame ==
  ASSUME FramesInv, EndFrame
  PROVE  FramesInv' /\ StreamStep
<1>1. PICK c \in Seq(Bytes) : Worked(c)
  BY DEF FramesInv
<1>2. /\ HasNewline /\ available' = SubSeq(available, Offset + 1, Len(available))
      /\ UNCHANGED <<sent, pipe>> /\ pending = <<>> /\ ~Skips(Offset - 1)
  BY DEF EndFrame
<1>3. /\ Through(c) \in Seq(Bytes) /\ Line(c) \in Seq(Bytes)
      /\ sent' = Through(c) \o (available' \o pipe')
      /\ Stream!FramesOf(Through(c)) = Stream!FramesOf(c) \o Stream!Frame(Line(c))
      /\ Unfinished(Through(c)) = <<>>
      /\ available' \in Seq(Bytes) /\ Len(available') <= BufSize
      /\ Len(Line(c)) = Len(Unfinished(c)) + (Offset - 1)
      /\ Len(Unfinished(c)) \in Nat /\ Offset - 1 \in Nat
  BY <1>1, <1>2, ThroughNewline
<1>4. /\ ~discarding /\ line = Unfinished(c) /\ Len(Line(c)) <= MaxFrame /\ MaxFrame \in Nat
      /\ Line(c) = line \o SubSeq(available, 1, Offset - 1)
  <2>1. ~discarding /\ line = Unfinished(c)
    BY <1>1, <1>2 DEF Worked, Skips
  <2>2. ~(Len(line) + (Offset - 1) > MaxFrame) /\ MaxFrame \in Nat
    BY <1>2, FrameConstants DEF Skips
  <2> QED
    BY <1>3, <2>1, <2>2 DEF Line
<1>5. PICK b \in Seq(Bytes) : b = Stream!Frame(Line(c)) /\ Len(b) <= MaxFrame + 1
  <2>1. Stream!Frame(Line(c)) \in Seq(Bytes) /\ Len(Stream!Frame(Line(c))) \in 1..(MaxFrame + 1)
    BY <1>3, <1>4, FrameType
  <2>2. Len(Stream!Frame(Line(c))) <= MaxFrame + 1
    BY <1>4, <2>1
  <2> QED
    BY <2>1, <2>2
<1>6. Copy(b)
  <2>1. SubSeq(available, 1, Offset - 1) \in Seq(Bytes)
    BY <1>2, FirstNewline, SeqMonotonic DEF FramesInv, FramesTypeOK
  <2>2. Append(Trimmed(SubSeq(available, 1, Offset - 1)), "nl") = b
    BY <1>3, <1>4, <1>5, <2>1, FrameOfLine
  <2> QED
    BY <2>2 DEF EndFrame
<1>7. /\ out \in Seq(Bytes) /\ pending \in Seq(Bytes) /\ Stream!FramesOf(c) = out
      /\ available \in Seq(Bytes) /\ pipe \in Seq(Bytes) /\ sent = c \o (available \o pipe)
  <2>1. out \in Seq(Bytes) /\ pending \in Seq(Bytes) /\ available \in Seq(Bytes) /\ pipe \in Seq(Bytes)
    BY DEF FramesInv, FramesTypeOK
  <2>2. out \o pending = out
    BY <1>2, <2>1, ConcatEmptySeq
  <2> QED
    BY <1>1, <2>1, <2>2 DEF Worked
<1>8. PICK n \in 0..Len(b) :
         /\ out' = out \o SubSeq(b, 1, n)
         /\ out' \in Seq(Bytes) /\ pending' \in Seq(Bytes) /\ Len(pending') <= Len(b)
         /\ out' \o pending' = out \o b
  BY <1>6, <1>7, CopyKeeps
<1>9. PICK d \in Seq(Bytes) : d = Through(c)
  BY <1>3
<1>10. Stream!FramesOf(d) = out \o b
  BY <1>3, <1>5, <1>7, <1>9
<1>11. Worked(d)'
  <2>1. line' = <<>> /\ discarding' = discarding
    BY DEF EndFrame
  <2>2. sent' = d \o (available' \o pipe') /\ Unfinished(d) = <<>>
    BY <1>3, <1>9
  <2>3. Stream!FramesOf(d) = out' \o pending'
    BY <1>8, <1>10
  <2> QED
    BY <1>4, <2>1, <2>2, <2>3 DEF Worked
<1>12. FramesTypeOK'
  <2>1. line' \in Seq(Bytes) /\ Len(line') <= MaxFrame
    BY <1>4, EmptySeq DEF EndFrame
  <2>2. Len(pending') <= MaxFrame + 1
    <3>1. Len(pending') \in Nat /\ Len(b) \in Nat
      BY <1>8, LenProperties
    <3> QED
      BY <1>4, <1>5, <1>8, <3>1
  <2> QED
    BY <1>3, <1>4, <1>8, <2>1, <2>2 DEF FramesInv, FramesTypeOK, EndFrame
<1>13. ~ended
  BY <1>2 DEF FramesInv, AllGiven, HasNewline
<1>14. Stream!Give
  <2>1. PICK w \in Seq(Bytes) : w = available' \o pipe'
    BY <1>2, <1>3, <1>7, ConcatProperties
  <2>2. sent = d \o w /\ UNCHANGED <<sent, closed, ended>>
    BY <1>2, <1>3, <1>9, <2>1 DEF EndFrame
  <2> QED
    BY <1>7, <1>8, <1>10, <1>13, <2>2, OwedIsGiven
<1> QED
  BY <1>11, <1>12, <1>13, <1>14 DEF FramesInv, StreamStep, Stream!StreamNext, EndFrame

(* A chunk without a newline is worked through whole.                      *)
LEMMA ThroughChunk ==
  ASSUME FramesInv, available # <<>>, ~HasNewline, NEW c \in Seq(Bytes), Worked(c),
         available' = <<>>, UNCHANGED <<sent, pipe>>
  PROVE  /\ c \o available \in Seq(Bytes) /\ ~ended
         /\ sent' = (c \o available) \o (available' \o pipe')
         /\ Stream!FramesOf(c \o available) = out \o pending
         /\ Unfinished(c \o available) = Unfinished(c) \o available
         /\ Len(Unfinished(c) \o available) = Len(Unfinished(c)) + Len(available)
         /\ Len(Unfinished(c)) \in Nat /\ Len(available) \in Nat
         /\ Unfinished(c) \o available \in Seq(Bytes)
<1>1. /\ available \in Seq(Bytes) /\ pipe \in Seq(Bytes)
      /\ sent = c \o (available \o pipe) /\ Stream!FramesOf(c) = out \o pending
  BY DEF FramesInv, FramesTypeOK, Worked
<1>2. /\ Stream!FramesOf(c \o available) = Stream!FramesOf(c)
      /\ Unfinished(c \o available) = Unfinished(c) \o available
  BY <1>1, NoNewline, WithinALine
<1>3. Regroup(c, available, pipe) /\ c \o available \in Seq(Bytes)
  BY <1>1, Regroups
<1>4. available' \o pipe' = pipe
  BY <1>1, ConcatEmptySeq
<1>5. sent' = (c \o available) \o (available' \o pipe')
  BY <1>1, <1>3, <1>4, Zenon DEF Regroup
<1>6. Unfinished(c) \in Seq(Bytes)
  BY UnfinishedType
<1>7. /\ Len(Unfinished(c) \o available) = Len(Unfinished(c)) + Len(available)
      /\ Len(Unfinished(c)) \in Nat /\ Len(available) \in Nat
      /\ Unfinished(c) \o available \in Seq(Bytes)
  BY <1>1, <1>6, ConcatProperties, LenProperties
<1>8. ~ended
  BY DEF FramesInv, AllGiven
<1> QED
  BY <1>1, <1>2, <1>3, <1>5, <1>7, <1>8, Zenon

LEMMA StepSkipChunk ==
  ASSUME FramesInv, SkipChunk
  PROVE  FramesInv' /\ StreamStep
<1>1. PICK c \in Seq(Bytes) : Worked(c)
  BY DEF FramesInv
<1>2. /\ available # <<>> /\ ~HasNewline /\ available' = <<>>
      /\ UNCHANGED <<sent, pipe>> /\ Skips(Len(available))
  BY DEF SkipChunk
<1>3. /\ c \o available \in Seq(Bytes) /\ ~ended
      /\ sent' = (c \o available) \o (available' \o pipe')
      /\ Stream!FramesOf(c \o available) = out \o pending
      /\ Unfinished(c \o available) = Unfinished(c) \o available
      /\ Len(Unfinished(c) \o available) = Len(Unfinished(c)) + Len(available)
      /\ Len(Unfinished(c)) \in Nat /\ Len(available) \in Nat
  BY <1>1, <1>2, ThroughChunk
<1>4. PICK d \in Seq(Bytes) : d = c \o available
  BY <1>3
<1>5. Len(Unfinished(d)) > MaxFrame
  <2>1. MaxFrame \in Nat
    BY FrameConstants
  <2>2. CASE discarding
    BY <1>1, <1>3, <1>4, <2>1, <2>2 DEF Worked
  <2>3. CASE ~discarding
    BY <1>1, <1>2, <1>3, <1>4, <2>1, <2>3 DEF Worked, Skips
  <2> QED
    BY <2>2, <2>3
<1>6. Worked(d)'
  <2>1. line' = <<>> /\ discarding' = TRUE /\ out' = out /\ pending' = pending
    BY DEF SkipChunk
  <2>2. sent' = d \o (available' \o pipe') /\ Stream!FramesOf(d) = out \o pending
    BY <1>3, <1>4
  <2> QED
    BY <1>5, <2>1, <2>2 DEF Worked
<1>7. FramesTypeOK'
  <2>1. line' \in Seq(Bytes) /\ Len(line') <= MaxFrame
    BY EmptySeq, FrameConstants DEF SkipChunk
  <2>2. available' \in Seq(Bytes) /\ Len(available') <= BufSize
    BY EmptySeq, FrameConstants DEF SkipChunk
  <2> QED
    BY <2>1, <2>2 DEF FramesInv, FramesTypeOK, SkipChunk
<1> QED
  BY <1>3, <1>6, <1>7 DEF FramesInv, StreamStep, Stream!streamVars, SkipChunk

LEMMA StepGatherChunk ==
  ASSUME FramesInv, GatherChunk
  PROVE  FramesInv' /\ StreamStep
<1>1. PICK c \in Seq(Bytes) : Worked(c)
  BY DEF FramesInv
<1>2. /\ available # <<>> /\ ~HasNewline /\ available' = <<>>
      /\ UNCHANGED <<sent, pipe>> /\ ~Skips(Len(available))
  BY DEF GatherChunk
<1>3. /\ c \o available \in Seq(Bytes) /\ ~ended
      /\ sent' = (c \o available) \o (available' \o pipe')
      /\ Stream!FramesOf(c \o available) = out \o pending
      /\ Unfinished(c \o available) = Unfinished(c) \o available
      /\ Len(Unfinished(c) \o available) = Len(Unfinished(c)) + Len(available)
      /\ Len(Unfinished(c)) \in Nat /\ Len(available) \in Nat
      /\ Unfinished(c) \o available \in Seq(Bytes)
  BY <1>1, <1>2, ThroughChunk
<1>4. PICK d \in Seq(Bytes) : d = c \o available
  BY <1>3
<1>5. ~discarding /\ line = Unfinished(c) /\ ~(Len(line) + Len(available) > MaxFrame)
  BY <1>1, <1>2 DEF Worked, Skips
<1>6. line' = Unfinished(d) /\ discarding' = discarding /\ out' = out /\ pending' = pending
  BY <1>3, <1>4, <1>5 DEF GatherChunk
<1>7. Worked(d)'
  <2>1. sent' = d \o (available' \o pipe') /\ Stream!FramesOf(d) = out \o pending
    BY <1>3, <1>4
  <2> QED
    BY <1>5, <1>6, <2>1 DEF Worked
<1>8. FramesTypeOK'
  <2>1. line' \in Seq(Bytes) /\ Len(line') <= MaxFrame
    BY <1>3, <1>4, <1>5, <1>6, FrameConstants
  <2>2. available' \in Seq(Bytes) /\ Len(available') <= BufSize
    BY EmptySeq, FrameConstants DEF GatherChunk
  <2> QED
    BY <2>1, <2>2 DEF FramesInv, FramesTypeOK, GatherChunk
<1> QED
  BY <1>3, <1>7, <1>8 DEF FramesInv, StreamStep, Stream!streamVars, GatherChunk

LEMMA StepReportEof ==
  ASSUME FramesInv, ReportEof
  PROVE  FramesInv' /\ StreamStep
<1>1. PICK c \in Seq(Bytes) : Worked(c)
  BY DEF FramesInv
<1>2. /\ pending = <<>> /\ available = <<>> /\ pipe = <<>> /\ closed /\ ~ended /\ ended'
      /\ UNCHANGED <<sent, closed, pipe, available, line, discarding, pending, out>>
  BY DEF ReportEof
<1>3. out = Stream!FramesOf(sent)
  <2>1. sent = c \o (<<>> \o <<>>) /\ Stream!FramesOf(c) = out \o <<>> /\ out \in Seq(Bytes)
    BY <1>1, <1>2 DEF Worked, FramesInv, FramesTypeOK
  <2>2. <<>> \o <<>> = <<>> /\ c \o <<>> = c /\ out \o <<>> = out
    BY <2>1, EmptySeq, ConcatEmptySeq
  <2> QED
    BY <2>1, <2>2
<1>4. Stream!End
  BY <1>2, <1>3 DEF Stream!End, ReportEof
<1>5. Worked(c)'
  BY <1>1, <1>2 DEF Worked
<1>6. FramesTypeOK' /\ AllGiven'
  BY <1>2 DEF FramesInv, FramesTypeOK, AllGiven, ReportEof
<1> QED
  BY <1>4, <1>5, <1>6 DEF FramesInv, StreamStep, Stream!StreamNext

LEMMA StepPeerSends ==
  ASSUME FramesInv, NEW b \in Bytes, PeerSends(b)
  PROVE  FramesInv' /\ StreamStep
<1>1. PICK c \in Seq(Bytes) : Worked(c)
  BY DEF FramesInv
<1>2. /\ ~closed /\ Len(sent) < MaxSent /\ sent' = Append(sent, b) /\ pipe' = Append(pipe, b)
      /\ UNCHANGED <<closed, available, line, discarding, pending, out, ended>>
  BY DEF PeerSends
<1>3. available \in Seq(Bytes) /\ pipe \in Seq(Bytes) /\ sent \in Seq(Bytes)
  BY DEF FramesInv, FramesTypeOK
<1>4. available \o pipe \in Seq(Bytes) /\ Append(pipe, b) \in Seq(Bytes) /\ Append(sent, b) \in Seq(Bytes)
  BY <1>3, ConcatProperties, AppendProperties
<1>5. AppendLater(available, pipe, b) /\ AppendLater(c, available \o pipe, b)
  BY <1>3, <1>4, AppendsLater
<1>6. sent' = c \o (available' \o pipe')
  <2>1. sent = c \o (available \o pipe)
    BY <1>1 DEF Worked
  <2>2. available \o Append(pipe, b) = Append(available \o pipe, b)
    BY <1>5, Zenon DEF AppendLater
  <2>3. c \o Append(available \o pipe, b) = Append(c \o (available \o pipe), b)
    BY <1>5, Zenon DEF AppendLater
  <2> QED
    BY <1>2, <2>1, <2>2, <2>3, Zenon
<1>7. Worked(c)'
  BY <1>1, <1>2, <1>6 DEF Worked
<1>8. FramesTypeOK'
  BY <1>2, <1>4 DEF FramesInv, FramesTypeOK
<1>9. ~ended
  BY <1>2 DEF FramesInv, AllGiven
<1>10. Stream!Send(b)
  BY <1>2 DEF Stream!Send
<1> QED
  BY <1>2, <1>7, <1>8, <1>9, <1>10 DEF FramesInv, StreamStep, Stream!StreamNext

LEMMA StepPeerCloses ==
  ASSUME FramesInv, PeerCloses
  PROVE  FramesInv' /\ StreamStep
<1>1. PICK c \in Seq(Bytes) : Worked(c)
  BY DEF FramesInv
<1>2. Worked(c)'
  BY <1>1 DEF Worked, PeerCloses
<1>3. FramesTypeOK' /\ ~ended
  BY DEF FramesInv, FramesTypeOK, AllGiven, PeerCloses
<1>4. Stream!Close
  BY DEF Stream!Close, PeerCloses
<1> QED
  BY <1>2, <1>3, <1>4 DEF FramesInv, StreamStep, Stream!StreamNext, PeerCloses

LEMMA FramesStutter ==
  ASSUME FramesInv, UNCHANGED framesVars
  PROVE  FramesInv' /\ StreamStep
<1>1. PICK c \in Seq(Bytes) : Worked(c)
  BY DEF FramesInv
<1>2. Worked(c)'
  BY <1>1 DEF Worked, framesVars
<1> QED
  BY <1>2 DEF FramesInv, FramesTypeOK, AllGiven, framesVars, StreamStep, Stream!streamVars

LEMMA FramesStep ==
  ASSUME FramesInv, [FramesNext]_framesVars
  PROVE  FramesInv' /\ StreamStep
BY StepCopyPending, StepFillBuf, StepEndSkippedLine, StepEndFrame, StepSkipChunk,
   StepGatherChunk, StepReportEof, StepPeerSends, StepPeerCloses, FramesStutter
   DEF FramesNext, PollRead

(* The reader holds no more than a frame, and what it holds is what the    *)
(* bytes it consumed call for, in every state.                             *)
THEOREM FramesInvariance == FramesSpec => []FramesInv
<1>1. FramesInit => FramesInv
  BY FramesInitially
<1>2. FramesInv /\ [FramesNext]_framesVars => FramesInv'
  BY FramesStep
<1> QED
  BY <1>1, <1>2, PTL DEF FramesSpec

(* The reader never gathers more than MAX_STDIO_FRAME_BYTES, nor holds     *)
(* more than one frame (lib.rs 646, 664).                                  *)
THEOREM FramesTypeCorrect == FramesSpec => []FramesTypeOK
<1>1. FramesInv => FramesTypeOK
  BY DEF FramesInv
<1> QED
  BY <1>1, FramesInvariance, PTL

(* Every step of the reader is a step of the framed stream, or none: what  *)
(* it hands out is a function of the bytes alone, however they were cut    *)
(* into chunks and whatever room the caller had (lib.rs 628-687).          *)
THEOREM FramesRefineStream ==
  FramesSpec => Stream!StreamInit /\ [][Stream!StreamNext]_(Stream!streamVars)
<1>1. FramesInit => Stream!StreamInit
  BY FramesInitially
<1>2. FramesInv /\ [FramesNext]_framesVars => [Stream!StreamNext]_(Stream!streamVars)
  BY FramesStep DEF StreamStep
<1> QED
  BY <1>1, <1>2, FramesInvariance, PTL DEF FramesSpec
-----------------------------------------------------------------------------
(* The merged catalog *)

Entry == [name : Names, owner : {"primary", "parity"}]

(* A stable sort: the places are taken by the entries one to one, in the   *)
(* order of their names.                                                   *)
LEMMA SortedIsOrdered ==
  ASSUME NEW list \in Seq(Entry)
  PROVE  \E w \in Bijection(1..Len(list), 1..Len(list)) :
           /\ Sorted(list) = [k \in 1..Len(list) |-> list[w[k]]]
           /\ \A i, j \in 1..Len(list) : i < j => list[w[i]].name <= list[w[j]].name
<1> DEFINE n == Len(list)
           Goes(i, j) == \/ list[i].name < list[j].name
                         \/ list[i].name = list[j].name /\ i <= j
           r == [i \in 1..n |-> Cardinality(NotAfter(list, i))]
<1>1. n \in Nat /\ DOMAIN list = 1..n /\ \A i \in 1..n : list[i].name \in Int
  <2>1. n \in Nat /\ DOMAIN list = 1..n /\ \A i \in 1..n : list[i] \in Entry
    OBVIOUS
  <2> QED
    BY <2>1, CatalogConstants DEF Entry
<1> HIDE DEF n
<1>2. \A i \in 1..n : NotAfter(list, i) = {j \in 1..n : Goes(j, i)}
  BY <1>1 DEF NotAfter
<1>3. \A i, j, k \in 1..n : /\ Goes(i, i)
                            /\ Goes(i, j) \/ Goes(j, i)
                            /\ Goes(i, j) /\ Goes(j, i) => i = j
                            /\ Goes(i, j) /\ Goes(j, k) => Goes(i, k)
                            /\ Goes(i, j) => list[i].name <= list[j].name
  BY <1>1
<1>4. IsFiniteSet(1..n) /\ Cardinality(1..n) = n
  BY <1>1, FS_Interval
<1> HIDE DEF Goes
<1>5. \A i \in 1..n : IsFiniteSet(NotAfter(list, i)) /\ r[i] \in 1..n
  <2> SUFFICES ASSUME NEW i \in 1..n PROVE IsFiniteSet(NotAfter(list, i)) /\ r[i] \in 1..n
    OBVIOUS
  <2>1. NotAfter(list, i) \in SUBSET (1..n) /\ i \in NotAfter(list, i)
    BY <1>2, <1>3
  <2>2. IsFiniteSet(NotAfter(list, i)) /\ Cardinality(NotAfter(list, i)) <= n
    BY <1>4, <2>1, FS_Subset
  <2>3. Cardinality(NotAfter(list, i)) \in Nat /\ Cardinality(NotAfter(list, i)) # 0
    BY <2>1, <2>2, FS_CardinalityType, FS_EmptySet
  <2> QED
    BY <1>1, <2>2, <2>3
<1>6. ASSUME NEW i \in 1..n, NEW j \in 1..n, Goes(i, j), i # j PROVE r[i] < r[j]
  <2>1. NotAfter(list, i) \in SUBSET NotAfter(list, j)
    BY <1>2, <1>3, <1>6
  <2>2. j \in NotAfter(list, j) /\ j \notin NotAfter(list, i)
    BY <1>2, <1>3, <1>6
  <2>3. /\ Cardinality(NotAfter(list, i)) <= Cardinality(NotAfter(list, j))
        /\ Cardinality(NotAfter(list, j)) # Cardinality(NotAfter(list, i))
    BY <1>5, <2>1, <2>2, FS_Subset
  <2>4. r[i] = Cardinality(NotAfter(list, i)) /\ r[j] = Cardinality(NotAfter(list, j))
    OBVIOUS
  <2>5. r[i] \in Int /\ r[j] \in Int
    BY <1>5
  <2> QED
    BY <2>3, <2>4, <2>5
<1>7. r \in [1..n -> 1..n] /\ \A i, j \in 1..n : r[i] = r[j] => i = j
  <2>1. r \in [1..n -> 1..n]
    BY <1>5
  <2>2. \A i, j \in 1..n : r[i] \in Int /\ (i # j => r[i] < r[j] \/ r[j] < r[i])
    BY <1>3, <1>5, <1>6
  <2> QED
    BY <2>1, <2>2
<1>8. \A k \in 1..n : \E i \in 1..n : r[i] = k
  <2> HIDE DEF r
  <2>1. r \in Injection(1..n, 1..n)
    BY <1>7 DEF Injection, IsInjective
  <2>2. r \in Surjection(1..n, 1..n)
    BY <1>4, <2>1, FS_Injection
  <2> QED
    BY <2>2 DEF Surjection
<1> DEFINE w == [k \in 1..n |-> Whose(list, k)]
<1>9. \A k \in 1..n : w[k] \in 1..n /\ r[w[k]] = k
  <2> SUFFICES ASSUME NEW k \in 1..n PROVE w[k] \in 1..n /\ r[w[k]] = k
    OBVIOUS
  <2>1. \E i \in 1..n : Cardinality(NotAfter(list, i)) = k
    BY <1>8
  <2>2. Whose(list, k) \in 1..n /\ Cardinality(NotAfter(list, Whose(list, k))) = k
    BY <1>1, <2>1 DEF Whose
  <2> QED
    BY <2>2
<1>10. \A i \in 1..n : r[i] \in 1..n /\ w[r[i]] = i
  <2> HIDE DEF r, w
  <2> QED BY <1>7, <1>9
<1>11. Sorted(list) = [k \in 1..n |-> list[w[k]]]
  BY <1>1 DEF Sorted
<1>12. \A i, j \in 1..n : i < j => list[w[i]].name <= list[w[j]].name
  <2> HIDE DEF r, w
  <2> SUFFICES ASSUME NEW i \in 1..n, NEW j \in 1..n, i < j PROVE list[w[i]].name <= list[w[j]].name
    OBVIOUS
  <2>1. w[i] \in 1..n /\ w[j] \in 1..n /\ r[w[i]] = i /\ r[w[j]] = j
    BY <1>9
  <2>2. Goes(w[i], w[j])
    <3>1. CASE Goes(w[j], w[i]) /\ w[i] # w[j]
      <4>1. r[w[j]] < r[w[i]]
        BY <1>6, <2>1, <3>1
      <4> QED BY <2>1, <4>1
    <3> QED
      BY <1>3, <2>1, <3>1
  <2> QED
    BY <1>3, <2>1, <2>2
<1>13. w \in Bijection(1..n, 1..n)
  <2>1. w \in [1..n -> 1..n]
    BY <1>9
  <2> HIDE DEF r, w
  <2>2. \A i, j \in 1..n : w[i] = w[j] => i = j
    BY <1>9
  <2>3. \A i \in 1..n : \E k \in 1..n : w[k] = i
    BY <1>10
  <2> QED
    BY <2>1, <2>2, <2>3 DEF Bijection, Injection, Surjection, IsInjective
<1> QED
  BY <1>11, <1>12, <1>13 DEF n

IsWhole(page, mine, shared) ==
  /\ \A i, j \in DOMAIN page : i < j => page[i].name <= page[j].name
  /\ NamesOf(page) = ToSet(mine) \cup shared
  /\ IsInjective(mine) => \A i, j \in DOMAIN page : page[i].name = page[j].name => i = j
  /\ \A i \in DOMAIN page : page[i].owner = "primary" <=> page[i].name \in ToSet(mine)

(* The primary's entries, then those of the fleet's that it does not list  *)
IsJoin(list, mine, kept, shared, m, l) ==
  /\ DOMAIN mine = 1..m /\ DOMAIN list = 1..(m + l)
  /\ \A i \in 1..m : list[i].name = mine[i] /\ list[i].owner = "primary"
  /\ \A i \in 1..l : list[m + i] = kept[i]
  /\ \A i \in 1..l : kept[i].name \in shared \ ToSet(mine) /\ kept[i].owner = "parity"
  /\ \A x \in shared \ ToSet(mine) : \E i \in 1..l : kept[i].name = x
  /\ \A i, j \in 1..l : kept[i].name = kept[j].name => i = j

(* All that a page says of its names but their order                       *)
HasBoth(list, mine, shared) ==
  /\ NamesOf(list) = ToSet(mine) \cup shared
  /\ IsInjective(mine) => \A i, j \in DOMAIN list : list[i].name = list[j].name => i = j
  /\ \A i \in DOMAIN list : list[i].owner = "primary" <=> list[i].name \in ToSet(mine)

LEMMA JoinedEntries ==
  ASSUME NEW m \in Nat, NEW l \in Nat, NEW shared, NEW mine, NEW kept, NEW list,
         IsJoin(list, mine, kept, shared, m, l)
  PROVE  HasBoth(list, mine, shared)
<1> USE DEF IsJoin
<1>1. \A i \in (m + 1)..(m + l) : /\ i - m \in 1..l /\ list[i] = kept[i - m]
                                  /\ list[i].name \in shared \ ToSet(mine)
                                  /\ list[i].owner = "parity"
  <2> SUFFICES ASSUME NEW i \in (m + 1)..(m + l)
               PROVE /\ i - m \in 1..l /\ list[i] = kept[i - m]
                     /\ list[i].name \in shared \ ToSet(mine) /\ list[i].owner = "parity"
    OBVIOUS
  <2>1. i - m \in 1..l /\ m + (i - m) = i
    OBVIOUS
  <2> QED
    BY <2>1
<1>2. \A i \in 1..(m + l) : i \in 1..m \/ i \in (m + 1)..(m + l)
  OBVIOUS
<1>3. \A i \in 1..m : mine[i] \in ToSet(mine) /\ i \in 1..(m + l)
  BY DEF ToSet
<1>4. \A i \in 1..(m + l) : list[i].name \in ToSet(mine) \cup shared
  BY <1>1, <1>2, <1>3
<1>5. \A x \in ToSet(mine) \cup shared : \E i \in 1..(m + l) : list[i].name = x
  <2> SUFFICES ASSUME NEW x \in ToSet(mine) \cup shared PROVE \E i \in 1..(m + l) : list[i].name = x
    OBVIOUS
  <2>1. CASE x \in ToSet(mine)
    <3>1. PICK i \in 1..m : mine[i] = x
      BY <2>1 DEF ToSet
    <3> QED
      BY <1>3, <3>1
  <2>2. CASE x \in shared \ ToSet(mine)
    <3>1. PICK i \in 1..l : kept[i].name = x
      BY <2>2
    <3>2. m + i \in 1..(m + l) /\ list[m + i] = kept[i]
      OBVIOUS
    <3> QED
      BY <3>1, <3>2
  <2> QED
    BY <2>1, <2>2
<1>6. NamesOf(list) = ToSet(mine) \cup shared
  <2>1. NamesOf(list) = {list[i].name : i \in 1..(m + l)}
    BY DEF NamesOf
  <2> QED
    BY <1>4, <1>5, <2>1
<1>7. ASSUME IsInjective(mine), NEW i \in 1..(m + l), NEW j \in 1..(m + l), list[i].name = list[j].name
      PROVE  i = j
  <2>1. CASE i \in 1..m /\ j \in 1..m
    <3>1. mine[i] = mine[j]
      BY <1>7, <2>1
    <3> QED
      BY <1>7, <2>1, <3>1, Zenon DEF IsInjective
  <2>2. CASE i \in 1..m /\ j \in (m + 1)..(m + l)
    BY <1>1, <1>3, <1>7, <2>2
  <2>3. CASE i \in (m + 1)..(m + l) /\ j \in 1..m
    BY <1>1, <1>3, <1>7, <2>3
  <2>4. CASE i \in (m + 1)..(m + l) /\ j \in (m + 1)..(m + l)
    <3>1. i - m \in 1..l /\ j - m \in 1..l /\ kept[i - m].name = kept[j - m].name
      BY <1>1, <1>7, <2>4
    <3>2. i - m = j - m
      BY <3>1
    <3> QED
      BY <3>2
  <2> QED
    BY <1>2, <2>1, <2>2, <2>3, <2>4
<1>8. \A i \in 1..(m + l) : list[i].owner = "primary" <=> list[i].name \in ToSet(mine)
  BY <1>1, <1>2, <1>3
<1> QED
  BY <1>6, <1>7, <1>8 DEF HasBoth

LEMMA EntriesOf ==
  ASSUME NEW names \in Seq(Names), NEW owner \in {"primary", "parity"}
  PROVE  /\ Entries(names, owner) \in Seq(Entry)
         /\ Len(Entries(names, owner)) = Len(names)
         /\ DOMAIN Entries(names, owner) = DOMAIN names
         /\ \A i \in DOMAIN names :
              /\ Entries(names, owner)[i] = [name |-> names[i], owner |-> owner]
              /\ Entries(names, owner)[i].name = names[i]
              /\ Entries(names, owner)[i].owner = owner
<1>1. Len(names) \in Nat /\ DOMAIN names = 1..Len(names) /\ \A i \in 1..Len(names) : names[i] \in Names
  OBVIOUS
<1>2. Entries(names, owner) = [i \in 1..Len(names) |-> [name |-> names[i], owner |-> owner]]
  BY <1>1 DEF Entries
<1>3. \A i \in 1..Len(names) : [name |-> names[i], owner |-> owner] \in Entry
  BY <1>1 DEF Entry
<1> QED
  BY <1>1, <1>2, <1>3

(* What a page holds before it is sorted                                   *)
Unsorted(mine, shared) ==
  LET own == Entries(mine, "primary")
      parity == Entries(SetToSeq(shared), "parity")
  IN  own \o Sifted(parity, {e \in ToSet(parity) : e.name \notin NamesOf(own)})

LEMMA MergedList ==
  ASSUME NEW mine \in Seq(Names), NEW shared \in SUBSET Names, IsFiniteSet(shared)
  PROVE  /\ Unsorted(mine, shared) \in Seq(Entry)
         /\ HasBoth(Unsorted(mine, shared), mine, shared)
<1>0. PICK list : list = Unsorted(mine, shared)
  OBVIOUS
<1> DEFINE own == Entries(mine, "primary")
           parity == Entries(SetToSeq(shared), "parity")
           keep == {e \in ToSet(parity) : e.name \notin ToSet(mine)}
           kept == Sifted(parity, keep)
           q == SetToSeq(shared)
           m == Len(mine)
           l == Len(kept)
<1>1. own \in Seq(Entry) /\ Len(own) = m /\ DOMAIN own = DOMAIN mine
      /\ \A i \in DOMAIN mine : own[i].name = mine[i] /\ own[i].owner = "primary"
  BY EntriesOf
<1>2. NamesOf(own) = ToSet(mine)
  <2> HIDE DEF own
  <2>1. NamesOf(own) = {own[i].name : i \in DOMAIN mine} /\ ToSet(mine) = {mine[i] : i \in DOMAIN mine}
    BY <1>1, Zenon DEF NamesOf, ToSet
  <2>2. \A i \in DOMAIN mine : own[i].name = mine[i]
    BY <1>1
  <2> QED
    BY <2>1, <2>2
<1>3. q \in Seq(Names) /\ ToSet(q) = shared /\ IsInjective(q)
  <2>1. SetToSeq(shared) \in Seq(shared) /\ ToSet(q) = shared /\ IsInjective(q)
    BY ListOfSet
  <2> QED
    BY <2>1
<1> HIDE DEF q
<1>4. parity \in Seq(Entry) /\ DOMAIN parity = DOMAIN q
      /\ \A i \in DOMAIN q : /\ parity[i] = [name |-> q[i], owner |-> "parity"]
                             /\ parity[i].name = q[i] /\ parity[i].owner = "parity"
  <2>1. parity = Entries(q, "parity")
    BY DEF q
  <2> QED
    BY <1>3, <2>1, EntriesOf
<1>5. IsInjective(parity)
  <2> HIDE DEF parity
  <2> SUFFICES ASSUME NEW i \in DOMAIN q, NEW j \in DOMAIN q, parity[i] = parity[j] PROVE i = j
    BY <1>4 DEF IsInjective
  <2>1. q[i] = q[j]
    BY <1>4, Zenon
  <2> QED
    BY <1>3, <2>1, Zenon DEF IsInjective
<1>6. kept \in Seq(Entry) /\ ToSet(kept) = ToSet(parity) \cap keep /\ IsInjective(kept)
  <2>1. kept \in Seq(Entry \cap keep)
    BY <1>4, SiftedKeeps
  <2>2. ToSet(kept) = ToSet(parity) \cap keep /\ IsInjective(kept)
    BY <1>4, <1>5, SiftedMembers
  <2> QED
    BY <2>1, <2>2
<1>7. list = own \o kept
  BY <1>0, <1>2 DEF Unsorted
<1> HIDE DEF own, parity
<1> HIDE DEF kept
<1>8. /\ m \in Nat /\ l \in Nat /\ DOMAIN mine = 1..m /\ DOMAIN kept = 1..l
      /\ list \in Seq(Entry) /\ DOMAIN list = 1..(m + l)
      /\ \A i \in 1..m : list[i] = own[i]
      /\ \A i \in 1..l : list[m + i] = kept[i]
  <2>1. m \in Nat /\ l \in Nat /\ DOMAIN mine = 1..m /\ DOMAIN kept = 1..l
    BY <1>6
  <2>2. /\ list \in Seq(Entry) /\ Len(list) = m + l
        /\ \A i \in 1..(m + l) : list[i] = IF i <= m THEN own[i] ELSE kept[i - m]
    <3>1. /\ own \o kept \in Seq(Entry) /\ Len(own \o kept) = Len(own) + Len(kept)
          /\ \A i \in 1..(Len(own) + Len(kept)) :
               (own \o kept)[i] = IF i <= Len(own) THEN own[i] ELSE kept[i - Len(own)]
      BY <1>1, <1>6, ConcatProperties
    <3>2. Len(own) = m /\ Len(kept) = l
      BY <1>1
    <3> HIDE DEF m, l
    <3> QED
      BY <1>7, <3>1, <3>2, Zenon
  <2> HIDE DEF m, l
  <2>3. DOMAIN list = 1..(m + l)
    BY <2>2
  <2>4. \A i \in 1..m : i \in 1..(m + l) /\ i <= m
    BY <2>1
  <2>5. \A i \in 1..l : m + i \in 1..(m + l) /\ ~(m + i <= m) /\ (m + i) - m = i
    BY <2>1
  <2>6. \A i \in 1..m : list[i] = own[i]
    BY <2>2, <2>4, Zenon
  <2>7. \A i \in 1..l : list[m + i] = kept[i]
    <3> SUFFICES ASSUME NEW i \in 1..l PROVE list[m + i] = kept[i]
      OBVIOUS
    <3>1. list[m + i] = kept[(m + i) - m]
      BY <2>2, <2>5, Zenon
    <3> QED
      BY <2>5, <3>1
  <2> QED
    BY <2>1, <2>2, <2>3, <2>6, <2>7
<1>9. \A i \in 1..m : list[i].name = mine[i] /\ list[i].owner = "primary"
  <2> SUFFICES ASSUME NEW i \in 1..m PROVE list[i].name = mine[i] /\ list[i].owner = "primary"
    OBVIOUS
  <2>1. list[i] = own[i] /\ i \in DOMAIN mine
    BY <1>8, Zenon
  <2> QED
    BY <1>1, <2>1, Zenon
<1>10. \A i \in 1..l : kept[i] \in ToSet(parity) /\ kept[i] \in keep
  <2>1. \A i \in 1..l : kept[i] \in ToSet(kept)
    BY <1>8, Zenon DEF ToSet
  <2> QED
    BY <1>6, <2>1
<1>11. \A e \in ToSet(parity) : e.owner = "parity" /\ e.name \in shared /\ e = [name |-> e.name, owner |-> "parity"]
  <2> SUFFICES ASSUME NEW i \in DOMAIN q
               PROVE  /\ parity[i].owner = "parity" /\ parity[i].name \in shared
                      /\ parity[i] = [name |-> parity[i].name, owner |-> "parity"]
    BY <1>4, Zenon DEF ToSet
  <2>1. q[i] \in shared
    BY <1>3, Zenon DEF ToSet
  <2>2. parity[i] = [name |-> q[i], owner |-> "parity"]
    BY <1>4
  <2> QED
    BY <2>1, <2>2
<1>12. \A i \in 1..l : kept[i].name \in shared \ ToSet(mine) /\ kept[i].owner = "parity"
  BY <1>10, <1>11
<1>13. \A x \in shared \ ToSet(mine) : \E i \in 1..l : kept[i].name = x
  <2> SUFFICES ASSUME NEW x \in shared, x \notin ToSet(mine) PROVE \E i \in 1..l : kept[i].name = x
    OBVIOUS
  <2>1. PICK i \in DOMAIN q : q[i] = x
    BY <1>3, Zenon DEF ToSet
  <2>2. parity[i] \in ToSet(parity) /\ parity[i].name = x
    <3>1. parity[i] = [name |-> q[i], owner |-> "parity"]
      BY <1>4
    <3>2. parity[i] \in ToSet(parity)
      BY <1>4, Zenon DEF ToSet
    <3> QED
      BY <2>1, <3>1, <3>2
  <2>3. parity[i] \in ToSet(kept)
    BY <1>6, <2>2
  <2>4. PICK j \in 1..l : kept[j] = parity[i]
    BY <1>8, <2>3, Zenon DEF ToSet
  <2> QED
    BY <2>2, <2>4
<1>14. ASSUME NEW i \in 1..l, NEW j \in 1..l, kept[i].name = kept[j].name PROVE i = j
  <2>1. kept[i] = [name |-> kept[i].name, owner |-> "parity"] /\ kept[j] = [name |-> kept[j].name, owner |-> "parity"]
    BY <1>10, <1>11
  <2>2. kept[i] = kept[j]
    BY <1>14, <2>1, Zenon
  <2> QED
    BY <1>6, <1>8, <2>2, Zenon DEF IsInjective
<1> HIDE DEF m, l
<1>15. IsJoin(list, mine, kept, shared, m, l)
  <2>1. /\ m \in Nat /\ l \in Nat /\ DOMAIN mine = 1..m /\ DOMAIN list = 1..(m + l)
        /\ \A i \in 1..l : list[m + i] = kept[i]
    BY <1>8
  <2>2. \A i, j \in 1..l : kept[i].name = kept[j].name => i = j
    BY <1>14
  <2> QED
    BY <1>9, <1>12, <1>13, <2>1, <2>2, Zenon DEF IsJoin
<1> QED
  BY <1>0, <1>8, <1>15, JoinedEntries

LEMMA MergedIsWhole ==
  ASSUME NEW mine \in Seq(Names), NEW shared \in SUBSET Names, IsFiniteSet(shared),
         NEW page, page = Merged(Entries(mine, "primary"), Entries(SetToSeq(shared), "parity"))
  PROVE  IsWhole(page, mine, shared) /\ page \in Seq(Entry)
<1> DEFINE list == Unsorted(mine, shared)
           n == Len(list)
<1>1. list \in Seq(Entry) /\ HasBoth(list, mine, shared)
  BY MergedList
<1>2. page = Sorted(list)
  BY DEF Merged, Unsorted
<1> HIDE DEF list
<1>3. n \in Nat /\ DOMAIN list = 1..n
  BY <1>1
<1>4. PICK w \in Bijection(1..n, 1..n) :
        /\ page = [k \in 1..n |-> list[w[k]]]
        /\ \A i, j \in 1..n : i < j => list[w[i]].name <= list[w[j]].name
  BY <1>1, <1>2, SortedIsOrdered
<1> HIDE DEF n
<1>5. /\ w \in [1..n -> 1..n] /\ \A i, j \in 1..n : w[i] = w[j] => i = j
      /\ \A i \in 1..n : \E k \in 1..n : w[k] = i
  BY <1>4 DEF Bijection, Injection, Surjection, IsInjective
<1>6. DOMAIN page = 1..n /\ \A k \in 1..n : page[k] = list[w[k]] /\ w[k] \in 1..n
  BY <1>4, <1>5
<1>7. NamesOf(page) = NamesOf(list)
  <2>1. NamesOf(page) = {page[i].name : i \in 1..n} /\ NamesOf(list) = {list[i].name : i \in 1..n}
    BY <1>3, <1>6 DEF NamesOf
  <2>2. \A i \in 1..n : page[i].name \in {list[k].name : k \in 1..n}
    BY <1>6, Zenon
  <2>3. \A i \in 1..n : list[i].name \in {page[k].name : k \in 1..n}
    <3> SUFFICES ASSUME NEW i \in 1..n PROVE list[i].name \in {page[k].name : k \in 1..n}
      OBVIOUS
    <3>1. PICK k \in 1..n : w[k] = i
      BY <1>5
    <3>2. page[k] = list[i]
      BY <1>6, <3>1, Zenon
    <3> QED
      BY <3>2
  <2> QED
    BY <2>1, <2>2, <2>3
<1>8. \A i, j \in 1..n : i < j => page[i].name <= page[j].name
  BY <1>4, <1>6
<1>9. ASSUME IsInjective(mine), NEW i \in 1..n, NEW j \in 1..n, page[i].name = page[j].name PROVE i = j
  <2>1. list[w[i]].name = list[w[j]].name /\ w[i] \in 1..n /\ w[j] \in 1..n
    BY <1>6, <1>9, Zenon
  <2>2. w[i] = w[j]
    BY <1>1, <1>3, <1>9, <2>1, Zenon DEF HasBoth
  <2> QED
    BY <1>5, <2>2, Zenon
<1>10. \A i \in 1..n : page[i].owner = "primary" <=> page[i].name \in ToSet(mine)
  <2> SUFFICES ASSUME NEW i \in 1..n
               PROVE page[i].owner = "primary" <=> page[i].name \in ToSet(mine)
    OBVIOUS
  <2>1. page[i] = list[w[i]] /\ w[i] \in DOMAIN list
    BY <1>3, <1>6, Zenon
  <2> QED
    BY <1>1, <2>1, Zenon DEF HasBoth
<1>11. IsWhole(page, mine, shared)
  BY <1>1, <1>6, <1>7, <1>8, <1>9, <1>10, Zenon DEF IsWhole, HasBoth
<1>12. page \in Seq(Entry)
  <2>1. \A i \in 1..n : list[i] \in Entry
    BY <1>1, <1>3
  <2>2. \A k \in 1..n : list[w[k]] \in Entry
    BY <1>6, <2>1, Zenon
  <2>3. [k \in 1..n |-> list[w[k]]] \in [1..n -> Entry]
    BY <2>2
  <2> QED
    BY <1>3, <1>4, <2>3
<1> QED
  BY <1>11, <1>12

-----------------------------------------------------------------------------
(* The session *)

(* Who may say what of a name: the disjuncts of Ask.                       *)
MaySay(name, answer) ==
  CASE name \notin Scope(primary.kind) -> answer \in PrimaryAnswers(name)
    [] name \in Scope(primary.kind) /\ primary.kind = "tools" -> answer \in ParityAnswers(name)
    [] OTHER -> \E own \in PrimaryAnswers(name) :
                  IF own[2] = "ok" THEN answer = own ELSE answer \in ParityAnswers(name)

(* Every page so far is the merge of the primary's page of that number;    *)
(* behind the composition the primary has no tool of the fleet's.          *)
CatalogInv ==
  /\ step = "compose" => seen = <<>> /\ sought = NoOne /\ cursor = 1
  /\ step # "compose" => primary \in Primaries
  /\ step \in {"listing", "listed"} => ~Collides(primary) /\ sought = NoOne
  /\ step = "listing" => cursor = Len(seen) + 1 /\ cursor <= Len(primary.pages)
  /\ seen \in Seq(Seq(Entry))
  /\ step # "compose" => Len(seen) <= Len(primary.pages)
  /\ \A n \in DOMAIN seen :
       seen[n] = Merged(Entries(primary.pages[n], "primary"), ParityPage)
  /\ sought # NoOne => /\ step = "done" /\ sought \in Names
                       /\ ~Collides(primary) /\ MaySay(sought, said)

LEMMA PrimaryShape ==
  ASSUME NEW p \in Primaries
  PROVE  /\ p.kind \in Kinds /\ p.pages \in Seq(Seq(Names)) /\ Len(p.pages) \in Nat /\ Len(p.pages) > 0
         /\ \A n \in 1..Len(p.pages) : p.pages[n] \in Seq(Names)
         /\ Shared(p.kind) \in SUBSET Names /\ IsFiniteSet(Shared(p.kind))
         /\ Shared(p.kind) \subseteq Scope(p.kind)
<1>1. p.kind \in Kinds /\ p.pages \in Seq(Seq(Names)) /\ Len(p.pages) > 0
  BY CatalogConstants
<1>2. Len(p.pages) \in Nat /\ \A n \in 1..Len(p.pages) : p.pages[n] \in Seq(Names)
  BY <1>1
<1> QED
  BY <1>1, <1>2, CatalogConstants

LEMMA CatalogInitially == CatalogInit => CatalogInv
<1> SUFFICES ASSUME CatalogInit PROVE CatalogInv
  OBVIOUS
<1>1. seen = <<>> /\ Len(seen) = 0 /\ DOMAIN seen = {} /\ seen \in Seq(Seq(Entry))
  BY DEF CatalogInit
<1> QED
  BY <1>1 DEF CatalogInit, CatalogInv

LEMMA ComposeKeeps ==
  ASSUME CatalogInv, Compose
  PROVE  CatalogInv'
<1>1. seen = <<>> /\ Len(seen) = 0 /\ DOMAIN seen = {} /\ seen' = seen /\ seen \in Seq(Seq(Entry))
  BY DEF CatalogInv, Compose
<1>2. primary' \in Primaries /\ Len(primary'.pages) \in Nat /\ Len(primary'.pages) > 0
  BY PrimaryShape DEF Compose
<1>3. sought' = NoOne /\ cursor' = 1 /\ (step' = "done" \/ (step' = "listing" /\ ~Collides(primary')))
  BY DEF CatalogInv, Compose
<1>4. /\ seen' = <<>> /\ seen' \in Seq(Seq(Entry)) /\ DOMAIN seen' = {}
      /\ Len(seen') = 0 /\ Len(seen') <= Len(primary'.pages)
      /\ cursor' = Len(seen') + 1 /\ cursor' <= Len(primary'.pages)
  BY <1>1, <1>2, <1>3
<1>5. step' # "compose" /\ step' # "listed"
  BY <1>3
<1> QED
  BY <1>2, <1>3, <1>4, <1>5 DEF CatalogInv

LEMMA ListPageKeeps ==
  ASSUME CatalogInv, ListPage
  PROVE  CatalogInv'
<1>1. /\ step = "listing" /\ primary' = primary /\ sought' = sought /\ sought = NoOne
      /\ primary \in Primaries /\ ~Collides(primary)
      /\ cursor = Len(seen) + 1 /\ cursor <= Len(primary.pages)
  BY DEF CatalogInv, ListPage
<1>2. Len(primary.pages) \in Nat /\ Len(seen) \in Nat
  BY <1>1, PrimaryShape DEF CatalogInv
<1>3. CASE /\ seen' = Append(seen, Merged(Entries(primary.pages[cursor], "primary"), ParityPage))
           /\ \/ cursor < Len(primary.pages) /\ cursor' = cursor + 1 /\ step' = step
              \/ step' = "listed" /\ cursor' = cursor
  <2>1. PICK n \in Nat : n = Len(seen)
    BY <1>2
  <2>2. PICK page \in Seq(Entry) : page = Merged(Entries(primary.pages[cursor], "primary"), ParityPage)
    <3>1. cursor \in 1..Len(primary.pages)
      BY <1>1, <1>2
    <3>2. /\ primary.pages[cursor] \in Seq(Names) /\ Shared(primary.kind) \in SUBSET Names
          /\ IsFiniteSet(Shared(primary.kind))
      BY <1>1, <3>1, PrimaryShape
    <3> QED
      BY <3>2, MergedIsWhole DEF ParityPage
  <2>3. /\ seen' \in Seq(Seq(Entry)) /\ Len(seen') = n + 1 /\ DOMAIN seen' = 1..(n + 1)
        /\ seen'[n + 1] = page /\ \A i \in 1..n : seen'[i] = seen[i]
    <3>1. PICK s \in Seq(Seq(Entry)) : s = seen /\ Len(s) = n
      BY <2>1 DEF CatalogInv
    <3>2. seen' = Append(s, page)
      BY <1>3, <2>2, <3>1
    <3>3. /\ Append(s, page) \in Seq(Seq(Entry)) /\ Len(Append(s, page)) = n + 1
          /\ DOMAIN Append(s, page) = 1..(n + 1) /\ Append(s, page)[n + 1] = page
          /\ \A i \in 1..n : Append(s, page)[i] = s[i]
      BY <3>1
    <3> QED
      BY <3>1, <3>2, <3>3
  <2>4. \A i \in 1..(n + 1) :
          seen'[i] = Merged(Entries(primary'.pages[i], "primary"), ParityPage')
    <3>1. ParityPage' = ParityPage
      BY <1>1 DEF ParityPage
    <3>2. \A i \in 1..n : seen[i] = Merged(Entries(primary.pages[i], "primary"), ParityPage)
      <4>1. DOMAIN seen = 1..n
        BY <2>1 DEF CatalogInv
      <4> QED
        BY <4>1 DEF CatalogInv
    <3>3. \A i \in 1..(n + 1) : i \in 1..n \/ i = n + 1
      OBVIOUS
    <3> QED
      BY <1>1, <2>1, <2>2, <2>3, <3>1, <3>2, <3>3
  <2>5. /\ n + 1 \in Nat /\ n + 1 <= Len(primary'.pages)
        /\ step' # "compose" /\ step' \in {"listing", "listed"}
        /\ step' = "listing" => cursor' = (n + 1) + 1 /\ cursor' <= Len(primary'.pages)
    BY <1>1, <1>2, <1>3, <2>1
  <2>6. ~Collides(primary') /\ primary' \in Primaries /\ sought' = NoOne
    BY <1>1
  <2> QED
    BY <2>3, <2>4, <2>5, <2>6 DEF CatalogInv
<1>4. CASE step' = "done" /\ seen' = seen
  <2>1. ParityPage' = ParityPage
    BY <1>1 DEF ParityPage
  <2>2. /\ Len(seen) <= Len(primary.pages) /\ seen \in Seq(Seq(Entry))
        /\ \A n \in DOMAIN seen : seen[n] = Merged(Entries(primary.pages[n], "primary"), ParityPage)
    BY <1>1 DEF CatalogInv
  <2> QED
    BY <1>1, <1>2, <1>4, <2>1, <2>2 DEF CatalogInv
<1> QED
  BY <1>3, <1>4 DEF ListPage

LEMMA AskKeeps ==
  ASSUME CatalogInv, Ask
  PROVE  CatalogInv'
<1>1. /\ step = "listed" /\ step' = "done" /\ sought' \in Names
      /\ primary' = primary /\ seen' = seen /\ primary \in Primaries /\ ~Collides(primary)
  BY DEF CatalogInv, Ask
<1>2. MaySay(sought, said)'
  <2>1. MaySay(sought', said')
    BY DEF Ask, MaySay
  <2>2. \A n : PrimaryAnswers(n)' = PrimaryAnswers(n) /\ ParityAnswers(n)' = ParityAnswers(n)
    BY <1>1 DEF PrimaryAnswers, ParityAnswers
  <2> QED
    BY <1>1, <2>1, <2>2 DEF MaySay
<1>3. ParityPage' = ParityPage
  BY <1>1 DEF ParityPage
<1> QED
  BY <1>1, <1>2, <1>3 DEF CatalogInv

LEMMA CatalogStutter ==
  ASSUME CatalogInv, UNCHANGED catalogVars
  PROVE  CatalogInv'
<1>1. \A n, a : MaySay(n, a)' = MaySay(n, a)
  BY DEF catalogVars, MaySay, PrimaryAnswers, ParityAnswers
<1>2. ParityPage' = ParityPage
  BY DEF catalogVars, ParityPage
<1> QED
  BY <1>1, <1>2 DEF CatalogInv, catalogVars

THEOREM CatalogInvariance == CatalogSpec => []CatalogInv
<1>1. CatalogInit => CatalogInv
  BY CatalogInitially
<1>2. CatalogInv /\ [CatalogNext]_catalogVars => CatalogInv'
  BY ComposeKeeps, ListPageKeeps, AskKeeps, CatalogStutter DEF CatalogNext
<1> QED
  BY <1>1, <1>2, PTL DEF CatalogSpec

LEMMA PagesWhole == CatalogInv => PagesAreWhole
<1> SUFFICES ASSUME CatalogInv, NEW n \in DOMAIN seen
             PROVE  IsWhole(seen[n], primary.pages[n], Shared(primary.kind))
  BY DEF PagesAreWhole, IsWhole
<1>1. primary \in Primaries /\ n \in 1..Len(primary.pages)
  <2>1. step # "compose"
    BY DEF CatalogInv
  <2>2. primary \in Primaries /\ Len(seen) <= Len(primary.pages) /\ Len(seen) \in Nat /\ n \in 1..Len(seen)
    BY <2>1 DEF CatalogInv
  <2>3. Len(primary.pages) \in Nat
    BY <2>2, PrimaryShape
  <2> QED
    BY <2>2, <2>3
<1>2. /\ primary.pages[n] \in Seq(Names) /\ Shared(primary.kind) \in SUBSET Names
      /\ IsFiniteSet(Shared(primary.kind))
  BY <1>1, PrimaryShape
<1>3. seen[n] = Merged(Entries(primary.pages[n], "primary"),
                       Entries(SetToSeq(Shared(primary.kind)), "parity"))
  BY DEF CatalogInv, ParityPage
<1> QED
  BY <1>2, <1>3, MergedIsWhole

(* Who listed a name, by what is on the pages                              *)
LEMMA ListedByOwner ==
  ASSUME CatalogInv, PagesAreWhole, NEW name
  PROVE  /\ name \in ListedBy("parity") => name \in Shared(primary.kind)
         /\ name \in ListedBy("primary") => \E n \in DOMAIN primary.pages : name \in ToSet(primary.pages[n])
<1>1. ASSUME NEW owner, name \in ListedBy(owner)
      PROVE  \E n \in DOMAIN seen : \E i \in DOMAIN seen[n] : seen[n][i] = [name |-> name, owner |-> owner]
  <2>1. PICK n \in DOMAIN seen : [name |-> name, owner |-> owner] \in ToSet(seen[n])
    BY <1>1 DEF ListedBy
  <2> QED
    BY <2>1, Zenon DEF ToSet
<1>2. ASSUME NEW n \in DOMAIN seen, NEW i \in DOMAIN seen[n]
      PROVE  /\ seen[n][i].name \in ToSet(primary.pages[n]) \cup Shared(primary.kind)
             /\ seen[n][i].owner = "primary" <=> seen[n][i].name \in ToSet(primary.pages[n])
             /\ n \in DOMAIN primary.pages
  <2>1. seen[n][i].name \in NamesOf(seen[n])
    BY Zenon DEF NamesOf
  <2>2. NamesOf(seen[n]) = ToSet(primary.pages[n]) \cup Shared(primary.kind)
    BY Zenon DEF PagesAreWhole
  <2>3. seen[n][i].owner = "primary" <=> seen[n][i].name \in ToSet(primary.pages[n])
    BY Zenon DEF PagesAreWhole
  <2>4. n \in DOMAIN primary.pages
    <3>1. step # "compose"
      BY DEF CatalogInv
    <3>2. primary \in Primaries /\ Len(seen) <= Len(primary.pages) /\ Len(seen) \in Nat /\ n \in 1..Len(seen)
      BY <3>1 DEF CatalogInv
    <3>3. primary.pages \in Seq(Seq(Names))
      BY <3>2, PrimaryShape
    <3> QED
      BY <3>2, <3>3
  <2> QED
    BY <2>1, <2>2, <2>3, <2>4
<1>3. ASSUME name \in ListedBy("parity") PROVE name \in Shared(primary.kind)
  <2>1. PICK n \in DOMAIN seen : \E i \in DOMAIN seen[n] : seen[n][i] = [name |-> name, owner |-> "parity"]
    BY <1>1, <1>3
  <2>2. PICK i \in DOMAIN seen[n] : seen[n][i] = [name |-> name, owner |-> "parity"]
    BY <2>1
  <2>3. seen[n][i].name = name /\ seen[n][i].owner # "primary"
    BY <2>2
  <2> QED
    BY <1>2, <2>3
<1>4. ASSUME name \in ListedBy("primary")
      PROVE  \E n \in DOMAIN primary.pages : name \in ToSet(primary.pages[n])
  <2>1. PICK n \in DOMAIN seen : \E i \in DOMAIN seen[n] : seen[n][i] = [name |-> name, owner |-> "primary"]
    BY <1>1, <1>4
  <2>2. PICK i \in DOMAIN seen[n] : seen[n][i] = [name |-> name, owner |-> "primary"]
    BY <2>1
  <2>3. seen[n][i].name = name /\ seen[n][i].owner = "primary"
    BY <2>2
  <2> QED
    BY <1>2, <2>3
<1> QED
  BY <1>3, <1>4

(* What an answer tells of who gave it                                     *)
LEMMA AnswersTell ==
  ASSUME primary \in Primaries, ~Collides(primary), NEW name, NEW answer, MaySay(name, answer)
  PROVE  /\ name \in Shared(primary.kind) => answer[2] # "unknown"
         /\ answer = <<"parity", "unknown">> => name \in Scope("resources") \ Shared("resources")
         /\ primary.kind = "tools" => (answer[1] = "parity" <=> name \in Shared("tools"))
         /\ primary.kind = "tools" /\ name \notin Shared("tools") => answer[1] = "primary"
<1>1. primary.kind \in Kinds /\ Shared(primary.kind) \subseteq Scope(primary.kind)
  BY PrimaryShape
<1>2. \A a \in PrimaryAnswers(name) : a[1] = "primary" /\ a # <<"parity", "unknown">>
  BY DEF PrimaryAnswers
<1>3. \A a \in ParityAnswers(name) :
        /\ a[1] = "parity"
        /\ name \in Shared(primary.kind) => a[2] # "unknown" /\ a # <<"parity", "unknown">>
  BY DEF ParityAnswers
<1>4. Scope("tools") = Shared("tools") /\ Scope("prompts") = Shared("prompts")
  BY CatalogConstants
<1>5. CASE name \notin Scope(primary.kind)
  <2>1. answer \in PrimaryAnswers(name)
    BY <1>5 DEF MaySay
  <2> QED
    BY <1>1, <1>2, <1>4, <1>5, <2>1
<1>6. CASE name \in Scope(primary.kind) /\ primary.kind = "tools"
  <2>1. answer \in ParityAnswers(name)
    BY <1>6 DEF MaySay
  <2> QED
    BY <1>3, <1>4, <1>6, <2>1
<1>7. CASE name \in Scope(primary.kind) /\ primary.kind # "tools"
  <2>1. \E own \in PrimaryAnswers(name) :
          IF own[2] = "ok" THEN answer = own ELSE answer \in ParityAnswers(name)
    BY <1>7 DEF MaySay
  <2>2. CASE answer \in ParityAnswers(name)
    <3>1. primary.kind = "resources" \/ Scope(primary.kind) = Shared(primary.kind)
      BY <1>1, <1>4, <1>7 DEF Kinds
    <3> QED
      BY <1>3, <1>7, <2>2, <3>1
  <2>3. CASE answer \in PrimaryAnswers(name) /\ answer[2] = "ok"
    BY <1>2, <1>7, <2>3
  <2> QED
    BY <2>1, <2>2, <2>3
<1> QED
  BY <1>5, <1>6, <1>7

LEMMA OwnersAreAsked == CatalogInv /\ PagesAreWhole => OwnersAnswer
<1> SUFFICES ASSUME CatalogInv, PagesAreWhole, sought # NoOne PROVE OwnersAnswer
  BY DEF OwnersAnswer
<1>1. primary \in Primaries /\ ~Collides(primary) /\ MaySay(sought, said)
  BY DEF CatalogInv
<1>2. /\ sought \in Shared(primary.kind) => said[2] # "unknown"
      /\ said = <<"parity", "unknown">> => sought \in Scope("resources") \ Shared("resources")
      /\ primary.kind = "tools" => (said[1] = "parity" <=> sought \in Shared("tools"))
      /\ primary.kind = "tools" /\ sought \notin Shared("tools") => said[1] = "primary"
  BY <1>1, AnswersTell
<1>3. ASSUME primary.kind = "tools", FindsWhatItLists(primary)
      PROVE  /\ sought \in ListedBy("parity") => said[1] = "parity"
             /\ sought \in ListedBy("primary") => said[1] = "primary"
  <2>1. sought \in ListedBy("parity") => sought \in Shared("tools")
    BY <1>3, ListedByOwner
  <2>2. sought \in ListedBy("primary") => sought \notin Shared("tools")
    <3> SUFFICES ASSUME sought \in ListedBy("primary") PROVE sought \notin Shared("tools")
      OBVIOUS
    <3>1. PICK n \in DOMAIN primary.pages : sought \in ToSet(primary.pages[n])
      BY ListedByOwner
    <3>2. sought \in primary.knows
      BY <1>3, <3>1 DEF FindsWhatItLists
    <3> QED
      BY <1>1, <1>3, <3>2 DEF Collides
  <2> QED
    BY <1>2, <1>3, <2>1, <2>2
<1> QED
  BY <1>2, <1>3 DEF OwnersAnswer

(* Every page a client gets is sorted and whole, for any primary and any   *)
(* pages, and a name is answered by the one who listed it (augment.rs      *)
(* 46-48, 101-219).                                                        *)
THEOREM CatalogCallable == CatalogSpec => []CatalogIsCallable
<1>1. CatalogInv => CatalogIsCallable
  BY PagesWhole, OwnersAreAsked DEF CatalogIsCallable
<1> QED
  BY <1>1, CatalogInvariance, PTL
================================================================================
