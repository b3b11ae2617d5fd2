---------------------------- MODULE ServerProofs ----------------------------
(***************************************************************************)
(* Proofs about a server: the lifecycle of its telemetry, for any number   *)
(* of servers in a process and any set of protocol versions, what it       *)
(* admits, for any policies and any requests, and how it starts, for any   *)
(* contracts, environments and arguments.                                  *)
(***************************************************************************)
EXTENDS ServerLifecycle, ServerStartup, SequenceFacts

(* The lifecycle *)

(* Where the providers of a server are: with their bundle or guard, with   *)
(* the shutdown thread, or shut down, which happens once to each. Only a   *)
(* panic loses one.                                                        *)
Custody(s) ==
  /\ \A k \in Kinds : shuts[s][k] = IF k \in built[s] \ alive[s] THEN 1 ELSE 0
  /\ alive[s] \subseteq built[s]
  /\ thread[s] = "idle" =>
       /\ taken[s] = {}
       /\ retained[s] = alive[s] \/ (retained[s] = {} /\ s \in panicked)
  /\ thread[s] # "idle" => phase[s] \in Stopping /\ retained[s] = {}
  /\ thread[s] = "metrics" => alive[s] = taken[s]
  /\ thread[s] = "traces" => alive[s] = taken[s] \ {"metrics"}
  /\ thread[s] = "done" => alive[s] = {} \/ s \in panicked

(* What a phase says of the providers and of the race for the subscriber.  *)
Progress(s) ==
  /\ phase[s] \in {"new", "spec", "configured"} => built[s] = {}
  /\ phase[s] \in {"new", "spec", "configured", "built"} => subscriber # s
  /\ phase[s] \in {"built", "won"} => retained[s] = built[s] /\ alive[s] = built[s]
  /\ phase[s] = "won" => subscriber = s
  /\ phase[s] = "lost" => subscriber \notin {s, Nobody}
  /\ phase[s] \in Guarded => subscriber # Nobody
  /\ phase[s] \in Guarded /\ subscriber = s =>
       /\ retained[s] = built[s] /\ alive[s] = built[s]
       /\ \A k \in built[s] : globals[k] = s
  /\ phase[s] = "over" \/ (phase[s] \in Guarded /\ subscriber # s) =>
       retained[s] = {} /\ (alive[s] = {} \/ s \in panicked)

(* What a phase says of the status.                                        *)
Reported(s) ==
  /\ s \notin wanted => built[s] = {}
  /\ phase[s] \in {"built", "won", "lost"} =>
       \A k \in Kinds :
         /\ status[s][k] = "enabled" <=> k \in built[s]
         /\ status[s][k] = "build_failed" <=> s \in wanted /\ k \notin built[s]
         /\ status[s][k] # "suppressed"
  /\ phase[s] \in Guarded =>
       \A k \in Kinds :
         /\ status[s][k] = "enabled" <=> k \in built[s] /\ subscriber = s
         /\ status[s][k] = "suppressed" <=> k \in built[s] /\ subscriber # s
         /\ status[s][k] = "build_failed" <=> s \in wanted /\ k \notin built[s]

Session(s) ==
  /\ service[s] = "running" => phase[s] = "waiting"
  /\ service[s] # "none" => negotiated[s] = Exact
  /\ accepted[s] \subseteq {Exact}

(* The globals are the winner's, if anybody's. *)
GlobalsOfWinner ==
  \A k \in Kinds : globals[k] # Nobody =>
    globals[k] = subscriber /\ k \in built[subscriber]

LifecycleInv ==
  /\ TypeOK
  /\ GlobalsOfWinner
  /\ \A s \in Servers : Custody(s) /\ Progress(s) /\ Reported(s) /\ Session(s)
-----------------------------------------------------------------------------
LEMMA InitEstablishes == Init => LifecycleInv
<1> SUFFICES ASSUME Init PROVE LifecycleInv
  OBVIOUS
<1>1. TypeOK
  BY LifecycleConstants DEF Init, TypeOK, Phases, Early, Kinds, ExporterState
<1>2. GlobalsOfWinner
  BY DEF Init, GlobalsOfWinner, Kinds
<1>3. ASSUME NEW s \in Servers
      PROVE  Custody(s) /\ Progress(s) /\ Reported(s) /\ Session(s)
  BY <1>3, LifecycleConstants
  DEF Init, Custody, Progress, Reported, Session, Kinds, Guarded, Stopping
<1> QED
  BY <1>1, <1>2, <1>3 DEF LifecycleInv

LEMMA NewSpecKeeps ==
  ASSUME LifecycleInv, NEW s \in Servers, NEW transport, NEW ok \in BOOLEAN, NewSpec(s, transport, ok)
  PROVE  LifecycleInv'
<1> USE LifecycleConstants DEF NewSpec, ValidSpec, Move, taskVars, guardVars, threadVars, processVars
<1>1. TypeOK'
  BY DEF LifecycleInv, TypeOK, Phases, Early, Guarded, Stopping, Kinds, ExporterState, Custody
<1>2. GlobalsOfWinner'
  BY DEF LifecycleInv, TypeOK, GlobalsOfWinner, Progress, Kinds
<1>3. ASSUME NEW t \in Servers PROVE Custody(t)'
  BY <1>3 DEF LifecycleInv, TypeOK, Custody, Progress, Guarded, Stopping, Kinds
<1>4. ASSUME NEW t \in Servers PROVE Progress(t)'
  BY <1>4 DEF LifecycleInv, TypeOK, Custody, Progress, GlobalsOfWinner, Guarded, Stopping, Kinds
<1>5. ASSUME NEW t \in Servers PROVE Reported(t)'
  BY <1>5 DEF LifecycleInv, TypeOK, Custody, Progress, Reported, Guarded, Stopping, Kinds
<1>6. ASSUME NEW t \in Servers PROVE Session(t)'
  BY <1>6 DEF LifecycleInv, TypeOK, Session, Custody, Stopping, Kinds
<1> QED
  BY <1>1, <1>2, <1>3, <1>4, <1>5, <1>6 DEF LifecycleInv

LEMMA ParseConfigKeeps ==
  ASSUME LifecycleInv, NEW s \in Servers, NEW e \in BOOLEAN, ParseConfig(s, e)
  PROVE  LifecycleInv'
<1> USE LifecycleConstants DEF ParseConfig, Move, taskVars, guardVars, threadVars, processVars
<1>1. TypeOK'
  BY DEF LifecycleInv, TypeOK, Phases, Early, Guarded, Stopping, Kinds, ExporterState, Custody
<1>2. GlobalsOfWinner'
  BY DEF LifecycleInv, TypeOK, GlobalsOfWinner, Progress, Kinds
<1>3. ASSUME NEW t \in Servers PROVE Custody(t)'
  BY <1>3 DEF LifecycleInv, TypeOK, Custody, Progress, Guarded, Stopping, Kinds
<1>4. ASSUME NEW t \in Servers PROVE Progress(t)'
  BY <1>4 DEF LifecycleInv, TypeOK, Custody, Progress, GlobalsOfWinner, Guarded, Stopping, Kinds
<1>5. ASSUME NEW t \in Servers PROVE Reported(t)'
  BY <1>5 DEF LifecycleInv, TypeOK, Custody, Progress, Reported, Guarded, Stopping, Kinds
<1>6. ASSUME NEW t \in Servers PROVE Session(t)'
  BY <1>6 DEF LifecycleInv, TypeOK, Session, Custody, Stopping, Kinds
<1> QED
  BY <1>1, <1>2, <1>3, <1>4, <1>5, <1>6 DEF LifecycleInv

LEMMA CallbackFailsKeeps ==
  ASSUME LifecycleInv, NEW s \in Servers, CallbackFails(s)
  PROVE  LifecycleInv'
<1> USE LifecycleConstants DEF CallbackFails, Move, taskVars, guardVars, threadVars, processVars
<1>1. TypeOK'
  BY DEF LifecycleInv, TypeOK, Phases, Early, Guarded, Stopping, Kinds, ExporterState, Custody
<1>2. GlobalsOfWinner'
  BY DEF LifecycleInv, TypeOK, GlobalsOfWinner, Progress, Kinds
<1>3. ASSUME NEW t \in Servers PROVE Custody(t)'
  BY <1>3 DEF LifecycleInv, TypeOK, Custody, Progress, Guarded, Stopping, Kinds
<1>4. ASSUME NEW t \in Servers PROVE Progress(t)'
  BY <1>4 DEF LifecycleInv, TypeOK, Custody, Progress, GlobalsOfWinner, Guarded, Stopping, Kinds
<1>5. ASSUME NEW t \in Servers PROVE Reported(t)'
  BY <1>5 DEF LifecycleInv, TypeOK, Custody, Progress, Reported, Guarded, Stopping, Kinds
<1>6. ASSUME NEW t \in Servers PROVE Session(t)'
  BY <1>6 DEF LifecycleInv, TypeOK, Session, Custody, Stopping, Kinds
<1> QED
  BY <1>1, <1>2, <1>3, <1>4, <1>5, <1>6 DEF LifecycleInv

LEMMA BuildProvidersKeeps ==
  ASSUME LifecycleInv, NEW s \in Servers, NEW made \in SUBSET Kinds, BuildProviders(s, made)
  PROVE  LifecycleInv'
<1> USE LifecycleConstants DEF BuildProviders, BundleStatus, Move, taskVars, guardVars, threadVars, processVars
<1>1. TypeOK'
  BY DEF LifecycleInv, TypeOK, Phases, Early, Guarded, Stopping, Kinds, ExporterState, Custody
<1>2. GlobalsOfWinner'
  BY DEF LifecycleInv, TypeOK, GlobalsOfWinner, Progress, Kinds
<1>3. ASSUME NEW t \in Servers PROVE Custody(t)'
  BY <1>3 DEF LifecycleInv, TypeOK, Custody, Progress, Guarded, Stopping, Kinds
<1>4. ASSUME NEW t \in Servers PROVE Progress(t)'
  BY <1>4 DEF LifecycleInv, TypeOK, Custody, Progress, GlobalsOfWinner, Guarded, Stopping, Kinds
<1>5. ASSUME NEW t \in Servers PROVE Reported(t)'
  BY <1>5 DEF LifecycleInv, TypeOK, Custody, Progress, Reported, Guarded, Stopping, Kinds
<1>6. ASSUME NEW t \in Servers PROVE Session(t)'
  BY <1>6 DEF LifecycleInv, TypeOK, Session, Custody, Stopping, Kinds
<1> QED
  BY <1>1, <1>2, <1>3, <1>4, <1>5, <1>6 DEF LifecycleInv

LEMMA InstallSubscriberKeeps ==
  ASSUME LifecycleInv, NEW s \in Servers, InstallSubscriber(s)
  PROVE  LifecycleInv'
<1> USE LifecycleConstants DEF InstallSubscriber, Move, taskVars, guardVars, threadVars, processVars
<1>1. TypeOK'
  <2>1. CASE subscriber = Nobody
    BY <2>1 DEF LifecycleInv, TypeOK, Phases, Early, Stopping
  <2>2. CASE subscriber # Nobody
    BY <2>2 DEF LifecycleInv, TypeOK, Phases, Early, Stopping
  <2> QED
    BY <2>1, <2>2
<1>2. GlobalsOfWinner'
  BY DEF LifecycleInv, TypeOK, GlobalsOfWinner, Progress, Kinds
<1>3. ASSUME NEW t \in Servers PROVE Custody(t)'
  BY <1>3 DEF LifecycleInv, TypeOK, Custody, Progress, Guarded, Stopping, Kinds
<1>4. ASSUME NEW t \in Servers PROVE Progress(t)'
  BY <1>4 DEF LifecycleInv, TypeOK, Custody, Progress, GlobalsOfWinner, Guarded, Stopping, Kinds
<1>5. ASSUME NEW t \in Servers PROVE Reported(t)'
  BY <1>5 DEF LifecycleInv, TypeOK, Custody, Progress, Reported, Guarded, Stopping, Kinds
<1>6. ASSUME NEW t \in Servers PROVE Session(t)'
  BY <1>6 DEF LifecycleInv, TypeOK, Session, Custody, Stopping, Kinds
<1> QED
  BY <1>1, <1>2, <1>3, <1>4, <1>5, <1>6 DEF LifecycleInv

LEMMA InstallGlobalsKeeps ==
  ASSUME LifecycleInv, NEW s \in Servers, InstallGlobals(s)
  PROVE  LifecycleInv'
<1> USE LifecycleConstants DEF InstallGlobals, GlobalsAfter, Move, taskVars, guardVars, threadVars, processVars
<1>1. TypeOK'
  BY DEF LifecycleInv, TypeOK, Phases, Early, Guarded, Stopping, Kinds, ExporterState, Custody
<1>2. GlobalsOfWinner'
  BY DEF LifecycleInv, TypeOK, GlobalsOfWinner, Progress, Kinds
<1>3. ASSUME NEW t \in Servers PROVE Custody(t)'
  BY <1>3 DEF LifecycleInv, TypeOK, Custody, Progress, Guarded, Stopping, Kinds
<1>4. ASSUME NEW t \in Servers PROVE Progress(t)'
  <2>1. CASE t = s
    <3>1. /\ phase'[s] = "armed" /\ subscriber = s
          /\ retained[s] = built[s] /\ alive[s] = built[s]
      BY DEF LifecycleInv, TypeOK, Progress
    <3>2. \A k \in built[s] : globals'[k] = s
      BY DEF LifecycleInv, TypeOK
    <3> QED
      BY <2>1, <3>1, <3>2 DEF Progress, Guarded
  <2>2. CASE t # s
    <3>1. phase'[t] = phase[t] /\ Progress(t) /\ subscriber = s
      BY <2>2 DEF LifecycleInv, TypeOK, Progress
    <3>2. phase[t] \notin {"won"} /\ ~(phase[t] \in Guarded /\ subscriber = t)
      BY <2>2, <3>1 DEF Progress
    <3> QED
      BY <2>2, <3>1, <3>2 DEF Progress
  <2> QED
    BY <2>1, <2>2
<1>5. ASSUME NEW t \in Servers PROVE Reported(t)'
  BY <1>5 DEF LifecycleInv, TypeOK, Custody, Progress, Reported, Guarded, Stopping, Kinds
<1>6. ASSUME NEW t \in Servers PROVE Session(t)'
  BY <1>6 DEF LifecycleInv, TypeOK, Session, Custody, Stopping, Kinds
<1> QED
  BY <1>1, <1>2, <1>3, <1>4, <1>5, <1>6 DEF LifecycleInv

LEMMA ForeignInstallsKeeps ==
  ASSUME LifecycleInv, NEW s \in Servers, ForeignInstalls
  PROVE  LifecycleInv'
<1> USE LifecycleConstants DEF ForeignInstalls, Move, taskVars, guardVars, threadVars, processVars
<1>1. TypeOK'
  BY DEF LifecycleInv, TypeOK, Phases, Early, Guarded, Stopping, Kinds, ExporterState, Custody
<1>2. GlobalsOfWinner'
  BY DEF LifecycleInv, TypeOK, GlobalsOfWinner, Progress, Kinds
<1>3. ASSUME NEW t \in Servers PROVE Custody(t)'
  BY <1>3 DEF LifecycleInv, TypeOK, Custody, Progress, Guarded, Stopping, Kinds
<1>4. ASSUME NEW t \in Servers PROVE Progress(t)'
  BY <1>4 DEF LifecycleInv, TypeOK, Custody, Progress, GlobalsOfWinner, Guarded, Stopping, Kinds
<1>5. ASSUME NEW t \in Servers PROVE Reported(t)'
  BY <1>5 DEF LifecycleInv, TypeOK, Custody, Progress, Reported, Guarded, Stopping, Kinds
<1>6. ASSUME NEW t \in Servers PROVE Session(t)'
  BY <1>6 DEF LifecycleInv, TypeOK, Session, Custody, Stopping, Kinds
<1> QED
  BY <1>1, <1>2, <1>3, <1>4, <1>5, <1>6 DEF LifecycleInv

LEMMA BuildServerKeeps ==
  ASSUME LifecycleInv, NEW s \in Servers, NEW ok \in BOOLEAN, BuildServer(s, ok)
  PROVE  LifecycleInv'
<1> USE LifecycleConstants DEF BuildServer, Move, taskVars, guardVars, threadVars, processVars
<1>1. TypeOK'
  BY DEF LifecycleInv, TypeOK, Phases, Early, Guarded, Stopping, Kinds, ExporterState, Custody
<1>2. GlobalsOfWinner'
  BY DEF LifecycleInv, TypeOK, GlobalsOfWinner, Progress, Kinds
<1>3. ASSUME NEW t \in Servers PROVE Custody(t)'
  BY <1>3 DEF LifecycleInv, TypeOK, Custody, Progress, Guarded, Stopping, Kinds
<1>4. ASSUME NEW t \in Servers PROVE Progress(t)'
  BY <1>4 DEF LifecycleInv, TypeOK, Custody, Progress, GlobalsOfWinner, Guarded, Stopping, Kinds
<1>5. ASSUME NEW t \in Servers PROVE Reported(t)'
  BY <1>5 DEF LifecycleInv, TypeOK, Custody, Progress, Reported, Guarded, Stopping, Kinds
<1>6. ASSUME NEW t \in Servers PROVE Session(t)'
  BY <1>6 DEF LifecycleInv, TypeOK, Session, Custody, Stopping, Kinds
<1> QED
  BY <1>1, <1>2, <1>3, <1>4, <1>5, <1>6 DEF LifecycleInv

LEMMA IntoPartsKeeps ==
  ASSUME LifecycleInv, NEW s \in Servers, IntoParts(s)
  PROVE  LifecycleInv'
<1> USE LifecycleConstants DEF IntoParts, Move, taskVars, guardVars, threadVars, processVars
<1>1. TypeOK'
  BY DEF LifecycleInv, TypeOK, Phases, Early, Guarded, Stopping, Kinds, ExporterState, Custody
<1>2. GlobalsOfWinner'
  BY DEF LifecycleInv, TypeOK, GlobalsOfWinner, Progress, Kinds
<1>3. ASSUME NEW t \in Servers PROVE Custody(t)'
  BY <1>3 DEF LifecycleInv, TypeOK, Custody, Progress, Guarded, Stopping, Kinds
<1>4. ASSUME NEW t \in Servers PROVE Progress(t)'
  BY <1>4 DEF LifecycleInv, TypeOK, Custody, Progress, GlobalsOfWinner, Guarded, Stopping, Kinds
<1>5. ASSUME NEW t \in Servers PROVE Reported(t)'
  BY <1>5 DEF LifecycleInv, TypeOK, Custody, Progress, Reported, Guarded, Stopping, Kinds
<1>6. ASSUME NEW t \in Servers PROVE Session(t)'
  BY <1>6 DEF LifecycleInv, TypeOK, Session, Custody, Stopping, Kinds
<1> QED
  BY <1>1, <1>2, <1>3, <1>4, <1>5, <1>6 DEF LifecycleInv

LEMMA ServeKeeps ==
  ASSUME LifecycleInv, NEW s \in Servers, Serve(s)
  PROVE  LifecycleInv'
<1> USE LifecycleConstants DEF Serve, Move, taskVars, guardVars, threadVars, processVars
<1>1. TypeOK'
  BY DEF LifecycleInv, TypeOK, Phases, Early, Guarded, Stopping, Kinds, ExporterState, Custody
<1>2. GlobalsOfWinner'
  BY DEF LifecycleInv, TypeOK, GlobalsOfWinner, Progress, Kinds
<1>3. ASSUME NEW t \in Servers PROVE Custody(t)'
  BY <1>3 DEF LifecycleInv, TypeOK, Custody, Progress, Guarded, Stopping, Kinds
<1>4. ASSUME NEW t \in Servers PROVE Progress(t)'
  BY <1>4 DEF LifecycleInv, TypeOK, Custody, Progress, GlobalsOfWinner, Guarded, Stopping, Kinds
<1>5. ASSUME NEW t \in Servers PROVE Reported(t)'
  BY <1>5 DEF LifecycleInv, TypeOK, Custody, Progress, Reported, Guarded, Stopping, Kinds
<1>6. ASSUME NEW t \in Servers PROVE Session(t)'
  BY <1>6 DEF LifecycleInv, TypeOK, Session, Custody, Stopping, Kinds
<1> QED
  BY <1>1, <1>2, <1>3, <1>4, <1>5, <1>6 DEF LifecycleInv

LEMMA InitializeKeeps ==
  ASSUME LifecycleInv, NEW s \in Servers, NEW v \in Versions, Initialize(s, v)
  PROVE  LifecycleInv'
<1>1. UNCHANGED <<guardVars, threadVars, processVars>> /\ phase[s] = "initializing"
  BY DEF Initialize
<1>2. phase' = [phase EXCEPT ![s] = "waiting"] \/ phase' = [phase EXCEPT ![s] = "dropping"]
  BY DEF Initialize, Move, AfterServe
<1>3. \/ /\ phase' = [phase EXCEPT ![s] = "waiting"]
         /\ service' = [service EXCEPT ![s] = "running"]
         /\ negotiated' = [negotiated EXCEPT ![s] = Exact]
         /\ accepted' = [accepted EXCEPT ![s] = @ \cup {Exact}]
      \/ UNCHANGED <<service, negotiated, accepted>>
  <2>1. Accepts(v) => v = Exact /\ Settled(v) = Exact
    BY LifecycleConstants DEF Accepts, Settled
  <2>2. CASE Accepts(v)
    BY <2>1, <2>2 DEF Initialize, Move, AfterServe
  <2>3. CASE ~Accepts(v)
    BY <2>3 DEF Initialize
  <2> QED
    BY <2>2, <2>3
<1>4. thread[s] = "idle" /\ service[s] # "running"
  BY <1>1 DEF LifecycleInv, Custody, Session, Stopping
<1> USE LifecycleConstants DEF guardVars, threadVars, processVars
<1>5. TypeOK'
  <2>1. phase' \in [Servers -> Phases]
    BY <1>2 DEF LifecycleInv, TypeOK, Phases, Guarded, Stopping
  <2>2. /\ service' \in [Servers -> {"none", "running", "cancelled", "ended"}]
        /\ negotiated' \in [Servers -> Versions \cup {0}]
    <3>1. \/ UNCHANGED <<service, negotiated>>
          \/ /\ service' = [service EXCEPT ![s] = "running"]
             /\ negotiated' = [negotiated EXCEPT ![s] = Exact]
      BY <1>3
    <3>2. Exact \in Versions \cup {0}
      OBVIOUS
    <3>3. /\ service \in [Servers -> {"none", "running", "cancelled", "ended"}]
          /\ negotiated \in [Servers -> Versions \cup {0}]
      BY DEF LifecycleInv, TypeOK
    <3> DEFINE V == Versions \cup {0}
    <3>4. negotiated \in [Servers -> V] /\ Exact \in V
      BY <3>2, <3>3
    <3> HIDE DEF V
    <3>5. negotiated' \in [Servers -> V]
      BY <3>1, <3>4
    <3> QED
      BY <3>1, <3>3, <3>5 DEF V
  <2>3. accepted' \in [Servers -> SUBSET Versions]
    <3>1. accepted \in [Servers -> SUBSET Versions] /\ accepted[s] \cup {Exact} \in SUBSET Versions
      BY DEF LifecycleInv, TypeOK
    <3>2. \/ accepted' = accepted
          \/ accepted' = [accepted EXCEPT ![s] = accepted[s] \cup {Exact}]
      BY <1>3
    <3> QED
      BY <3>1, <3>2
  <2> QED
    BY <1>1, <2>1, <2>2, <2>3 DEF LifecycleInv, TypeOK
<1>6. GlobalsOfWinner'
  BY <1>1 DEF LifecycleInv, GlobalsOfWinner
<1>7. ASSUME NEW t \in Servers PROVE Custody(t)'
  <2>1. thread[t] # "idle" => phase'[t] = phase[t]
    BY <1>2, <1>4 DEF LifecycleInv, TypeOK
  <2> QED
    BY <1>1, <2>1 DEF LifecycleInv, Custody
<1>8. ASSUME NEW t \in Servers PROVE Progress(t)'
  <2>1. CASE t = s
    BY <1>1, <1>2, <1>4, <2>1
    DEF LifecycleInv, TypeOK, Progress, Custody, Guarded, Stopping
  <2>2. CASE t # s
    BY <1>1, <1>2, <2>2 DEF LifecycleInv, TypeOK, Progress, Guarded
  <2> QED
    BY <2>1, <2>2
<1>9. ASSUME NEW t \in Servers PROVE Reported(t)'
  <2>1. phase'[t] \in Guarded => phase[t] \in Guarded
    BY <1>1, <1>2 DEF LifecycleInv, TypeOK, Guarded
  <2>2. phase'[t] \notin {"built", "won", "lost"} \/ phase'[t] = phase[t]
    BY <1>2 DEF LifecycleInv, TypeOK
  <2> QED
    BY <1>1, <2>1, <2>2 DEF LifecycleInv, Reported
<1>10. ASSUME NEW t \in Servers PROVE Session(t)'
  <2>1. CASE t = s
    BY <1>1, <1>2, <1>3, <1>4, <2>1 DEF LifecycleInv, TypeOK, Session
  <2>2. CASE t # s
    BY <1>1, <1>2, <1>3, <2>2 DEF LifecycleInv, TypeOK, Session
  <2> QED
    BY <2>1, <2>2
<1> QED
  BY <1>5, <1>6, <1>7, <1>8, <1>9, <1>10 DEF LifecycleInv

LEMMA ReinitializeKeeps ==
  ASSUME LifecycleInv, NEW s \in Servers, NEW v \in Versions, Reinitialize(s, v)
  PROVE  LifecycleInv'
<1> USE LifecycleConstants DEF Reinitialize, Accepts, Move, taskVars, guardVars, threadVars, processVars
<1>1. TypeOK'
  BY DEF LifecycleInv, TypeOK, Phases, Early, Guarded, Stopping, Kinds, ExporterState, Custody
<1>2. GlobalsOfWinner'
  BY DEF LifecycleInv, TypeOK, GlobalsOfWinner, Progress, Kinds
<1>3. ASSUME NEW t \in Servers PROVE Custody(t)'
  BY <1>3 DEF LifecycleInv, TypeOK, Custody, Progress, Guarded, Stopping, Kinds
<1>4. ASSUME NEW t \in Servers PROVE Progress(t)'
  BY <1>4 DEF LifecycleInv, TypeOK, Custody, Progress, GlobalsOfWinner, Guarded, Stopping, Kinds
<1>5. ASSUME NEW t \in Servers PROVE Reported(t)'
  BY <1>5 DEF LifecycleInv, TypeOK, Custody, Progress, Reported, Guarded, Stopping, Kinds
<1>6. ASSUME NEW t \in Servers PROVE Session(t)'
  BY <1>6 DEF LifecycleInv, TypeOK, Session, Custody, Stopping, Kinds
<1> QED
  BY <1>1, <1>2, <1>3, <1>4, <1>5, <1>6 DEF LifecycleInv

LEMMA InitializationFailsKeeps ==
  ASSUME LifecycleInv, NEW s \in Servers, InitializationFails(s)
  PROVE  LifecycleInv'
<1> USE LifecycleConstants DEF InitializationFails, Move, taskVars, guardVars, threadVars, processVars
<1>1. TypeOK'
  BY DEF LifecycleInv, TypeOK, Phases, Early, Guarded, Stopping, Kinds, ExporterState, Custody
<1>2. GlobalsOfWinner'
  BY DEF LifecycleInv, TypeOK, GlobalsOfWinner, Progress, Kinds
<1>3. ASSUME NEW t \in Servers PROVE Custody(t)'
  BY <1>3 DEF LifecycleInv, TypeOK, Custody, Progress, Guarded, Stopping, Kinds
<1>4. ASSUME NEW t \in Servers PROVE Progress(t)'
  BY <1>4 DEF LifecycleInv, TypeOK, Custody, Progress, GlobalsOfWinner, Guarded, Stopping, Kinds
<1>5. ASSUME NEW t \in Servers PROVE Reported(t)'
  BY <1>5 DEF LifecycleInv, TypeOK, Custody, Progress, Reported, Guarded, Stopping, Kinds
<1>6. ASSUME NEW t \in Servers PROVE Session(t)'
  BY <1>6 DEF LifecycleInv, TypeOK, Session, Custody, Stopping, Kinds
<1> QED
  BY <1>1, <1>2, <1>3, <1>4, <1>5, <1>6 DEF LifecycleInv

LEMMA DropFutureKeeps ==
  ASSUME LifecycleInv, NEW s \in Servers, DropFuture(s)
  PROVE  LifecycleInv'
<1> USE LifecycleConstants DEF DropFuture, Move, taskVars, guardVars, threadVars, processVars
<1>1. TypeOK'
  BY DEF LifecycleInv, TypeOK, Phases, Early, Guarded, Stopping, Kinds, ExporterState, Custody
<1>2. GlobalsOfWinner'
  BY DEF LifecycleInv, TypeOK, GlobalsOfWinner, Progress, Kinds
<1>3. ASSUME NEW t \in Servers PROVE Custody(t)'
  BY <1>3 DEF LifecycleInv, TypeOK, Custody, Progress, Guarded, Stopping, Kinds
<1>4. ASSUME NEW t \in Servers PROVE Progress(t)'
  BY <1>4 DEF LifecycleInv, TypeOK, Custody, Progress, GlobalsOfWinner, Guarded, Stopping, Kinds
<1>5. ASSUME NEW t \in Servers PROVE Reported(t)'
  BY <1>5 DEF LifecycleInv, TypeOK, Custody, Progress, Reported, Guarded, Stopping, Kinds
<1>6. ASSUME NEW t \in Servers PROVE Session(t)'
  BY <1>6 DEF LifecycleInv, TypeOK, Session, Custody, Stopping, Kinds
<1> QED
  BY <1>1, <1>2, <1>3, <1>4, <1>5, <1>6 DEF LifecycleInv

LEMMA ServiceEndsKeeps ==
  ASSUME LifecycleInv, NEW s \in Servers, ServiceEnds(s)
  PROVE  LifecycleInv'
<1> USE LifecycleConstants DEF ServiceEnds, Move, taskVars, guardVars, threadVars, processVars
<1>1. TypeOK'
  BY DEF LifecycleInv, TypeOK, Phases, Early, Guarded, Stopping, Kinds, ExporterState, Custody
<1>2. GlobalsOfWinner'
  BY DEF LifecycleInv, TypeOK, GlobalsOfWinner, Progress, Kinds
<1>3. ASSUME NEW t \in Servers PROVE Custody(t)'
  BY <1>3 DEF LifecycleInv, TypeOK, Custody, Progress, Guarded, Stopping, Kinds
<1>4. ASSUME NEW t \in Servers PROVE Progress(t)'
  BY <1>4 DEF LifecycleInv, TypeOK, Custody, Progress, GlobalsOfWinner, Guarded, Stopping, Kinds
<1>5. ASSUME NEW t \in Servers PROVE Reported(t)'
  BY <1>5 DEF LifecycleInv, TypeOK, Custody, Progress, Reported, Guarded, Stopping, Kinds
<1>6. ASSUME NEW t \in Servers PROVE Session(t)'
  BY <1>6 DEF LifecycleInv, TypeOK, Session, Custody, Stopping, Kinds
<1> QED
  BY <1>1, <1>2, <1>3, <1>4, <1>5, <1>6 DEF LifecycleInv

LEMMA WaitReturnsKeeps ==
  ASSUME LifecycleInv, NEW s \in Servers, WaitReturns(s)
  PROVE  LifecycleInv'
<1> USE LifecycleConstants DEF WaitReturns, Move, taskVars, guardVars, threadVars, processVars
<1>1. TypeOK'
  BY DEF LifecycleInv, TypeOK, Phases, Early, Guarded, Stopping, Kinds, ExporterState, Custody
<1>2. GlobalsOfWinner'
  BY DEF LifecycleInv, TypeOK, GlobalsOfWinner, Progress, Kinds
<1>3. ASSUME NEW t \in Servers PROVE Custody(t)'
  BY <1>3 DEF LifecycleInv, TypeOK, Custody, Progress, Guarded, Stopping, Kinds
<1>4. ASSUME NEW t \in Servers PROVE Progress(t)'
  BY <1>4 DEF LifecycleInv, TypeOK, Custody, Progress, GlobalsOfWinner, Guarded, Stopping, Kinds
<1>5. ASSUME NEW t \in Servers PROVE Reported(t)'
  BY <1>5 DEF LifecycleInv, TypeOK, Custody, Progress, Reported, Guarded, Stopping, Kinds
<1>6. ASSUME NEW t \in Servers PROVE Session(t)'
  BY <1>6 DEF LifecycleInv, TypeOK, Session, Custody, Stopping, Kinds
<1> QED
  BY <1>1, <1>2, <1>3, <1>4, <1>5, <1>6 DEF LifecycleInv

LEMMA BeginShutdownKeeps ==
  ASSUME LifecycleInv, NEW s \in Servers, BeginShutdown(s)
  PROVE  LifecycleInv'
<1> USE LifecycleConstants DEF BeginShutdown, LeftAfterTake, Move, taskVars, guardVars, threadVars, processVars
<1>1. TypeOK'
  BY DEF LifecycleInv, TypeOK, Phases, Early, Guarded, Stopping, Kinds, ExporterState, Custody
<1>2. GlobalsOfWinner'
  BY DEF LifecycleInv, TypeOK, GlobalsOfWinner, Progress, Kinds
<1>3. ASSUME NEW t \in Servers PROVE Custody(t)'
  BY <1>3 DEF LifecycleInv, TypeOK, Custody, Progress, Guarded, Stopping, Kinds
<1>4. ASSUME NEW t \in Servers PROVE Progress(t)'
  BY <1>4 DEF LifecycleInv, TypeOK, Custody, Progress, GlobalsOfWinner, Guarded, Stopping, Kinds
<1>5. ASSUME NEW t \in Servers PROVE Reported(t)'
  BY <1>5 DEF LifecycleInv, TypeOK, Custody, Progress, Reported, Guarded, Stopping, Kinds
<1>6. ASSUME NEW t \in Servers PROVE Session(t)'
  BY <1>6 DEF LifecycleInv, TypeOK, Session, Custody, Stopping, Kinds
<1> QED
  BY <1>1, <1>2, <1>3, <1>4, <1>5, <1>6 DEF LifecycleInv

LEMMA ShutProviderKeeps ==
  ASSUME LifecycleInv, NEW s \in Servers, NEW panics \in BOOLEAN, ShutProvider(s, panics)
  PROVE  LifecycleInv'
<1> USE LifecycleConstants DEF ShutProvider, AfterProvider, Move, taskVars, guardVars, threadVars, processVars
<1>1. TypeOK'
  BY DEF LifecycleInv, TypeOK, Phases, Early, Guarded, Stopping, Kinds, ExporterState, Custody
<1>2. GlobalsOfWinner'
  BY DEF LifecycleInv, TypeOK, GlobalsOfWinner, Progress, Kinds
<1>3. ASSUME NEW t \in Servers PROVE Custody(t)'
  BY <1>3 DEF LifecycleInv, TypeOK, Custody, Progress, Guarded, Stopping, Kinds
<1>4. ASSUME NEW t \in Servers PROVE Progress(t)'
  BY <1>4 DEF LifecycleInv, TypeOK, Custody, Progress, GlobalsOfWinner, Guarded, Stopping, Kinds
<1>5. ASSUME NEW t \in Servers PROVE Reported(t)'
  BY <1>5 DEF LifecycleInv, TypeOK, Custody, Progress, Reported, Guarded, Stopping, Kinds
<1>6. ASSUME NEW t \in Servers PROVE Session(t)'
  BY <1>6 DEF LifecycleInv, TypeOK, Session, Custody, Stopping, Kinds
<1> QED
  BY <1>1, <1>2, <1>3, <1>4, <1>5, <1>6 DEF LifecycleInv

LEMMA JoinShutdownKeeps ==
  ASSUME LifecycleInv, NEW s \in Servers, JoinShutdown(s)
  PROVE  LifecycleInv'
<1> USE LifecycleConstants DEF JoinShutdown, LateStatus, Move, taskVars, guardVars, threadVars, processVars
<1>1. TypeOK'
  BY DEF LifecycleInv, TypeOK, Phases, Early, Guarded, Stopping, Kinds, ExporterState, Custody
<1>2. GlobalsOfWinner'
  BY DEF LifecycleInv, TypeOK, GlobalsOfWinner, Progress, Kinds
<1>3. ASSUME NEW t \in Servers PROVE Custody(t)'
  <2>1. CASE t = s
    <3>1. /\ phase[s] \in Stopping /\ thread[s] = "done"
          /\ thread'[s] = "idle" /\ taken'[s] = {}
          /\ UNCHANGED <<retained, built, alive, panicked, shuts>>
      BY DEF LifecycleInv, TypeOK
    <3>2. retained[s] = {} /\ (alive[s] = {} \/ s \in panicked)
      BY <3>1 DEF LifecycleInv, Custody
    <3> QED
      BY <2>1, <3>1, <3>2 DEF LifecycleInv, Custody
  <2>2. CASE t # s
    BY <2>2 DEF LifecycleInv, TypeOK, Custody, Stopping
  <2> QED
    BY <2>1, <2>2
<1>4. ASSUME NEW t \in Servers PROVE Progress(t)'
  BY <1>4 DEF LifecycleInv, TypeOK, Custody, Progress, GlobalsOfWinner, Guarded, Stopping, Kinds
<1>5. ASSUME NEW t \in Servers PROVE Reported(t)'
  BY <1>5 DEF LifecycleInv, TypeOK, Custody, Progress, Reported, Guarded, Stopping, Kinds
<1>6. ASSUME NEW t \in Servers PROVE Session(t)'
  BY <1>6 DEF LifecycleInv, TypeOK, Session, Custody, Stopping, Kinds
<1> QED
  BY <1>1, <1>2, <1>3, <1>4, <1>5, <1>6 DEF LifecycleInv

-----------------------------------------------------------------------------
(* Every step keeps the invariant, and so does one of nobody's. *)
LEMMA NextKeeps == LifecycleInv /\ [Next]_vars => LifecycleInv'
<1> SUFFICES ASSUME LifecycleInv, [Next]_vars PROVE LifecycleInv'
  OBVIOUS
<1>1. CASE ForeignInstalls
  <2>1. CASE Servers = {}
    BY <1>1, <2>1 DEF ForeignInstalls, LifecycleInv, TypeOK, GlobalsOfWinner,
                      taskVars, guardVars, threadVars
  <2>2. CASE Servers # {}
    <3>1. PICK s \in Servers : TRUE
      BY <2>2
    <3> QED
      BY <1>1, <3>1, ForeignInstallsKeeps
  <2> QED
    BY <2>1, <2>2
<1>2. ASSUME NEW s \in Servers, ServerStep(s)
      PROVE  LifecycleInv'
  BY <1>2, NewSpecKeeps, ParseConfigKeeps, CallbackFailsKeeps,
     BuildProvidersKeeps, InstallSubscriberKeeps, InstallGlobalsKeeps,
     BuildServerKeeps, IntoPartsKeeps, ServeKeeps,
     InitializeKeeps, ReinitializeKeeps, InitializationFailsKeeps,
     DropFutureKeeps, ServiceEndsKeeps, WaitReturnsKeeps,
     BeginShutdownKeeps, ShutProviderKeeps, JoinShutdownKeeps
  DEF ServerStep
<1>3. CASE UNCHANGED vars
  BY <1>3 DEF vars, LifecycleInv, TypeOK, GlobalsOfWinner, Custody, Progress, Reported, Session
<1> QED
  BY <1>1, <1>2, <1>3 DEF Next

(* The invariant holds throughout. *)
THEOREM Invariance == Spec => []LifecycleInv
<1>1. Init => LifecycleInv
  BY InitEstablishes
<1>2. LifecycleInv /\ [Next]_vars => LifecycleInv'
  BY NextKeeps
<1> QED
  BY <1>1, <1>2, PTL DEF Spec

(* Every variable keeps its type, and no provider is shut down more than   *)
(* twice, which the type of shuts says.                                    *)
THEOREM TypeCorrect == Spec => []TypeOK
<1>1. LifecycleInv => TypeOK
  BY DEF LifecycleInv
<1> QED
  BY <1>1, Invariance, PTL

(* A guard's status is true of the race it was made in, however many       *)
(* servers run it (ore-mcp-telemetry init).                                *)
THEOREM StatusTrue == Spec => []StatusIsTrue
<1>1. LifecycleInv => StatusIsTrue
  <2> SUFFICES ASSUME LifecycleInv PROVE StatusIsTrue
    OBVIOUS
  <2>1. ASSUME NEW s \in Servers, NEW k \in Kinds, phase[s] \in Guarded
        PROVE  /\ status[s][k] = "enabled" <=> k \in built[s] /\ subscriber = s
               /\ status[s][k] = "suppressed" <=> k \in built[s] /\ subscriber # s
               /\ status[s][k] = "build_failed" <=> s \in wanted /\ k \notin built[s]
    BY <2>1 DEF LifecycleInv, Reported
  <2> QED
    BY <2>1 DEF LifecycleInv, GlobalsOfWinner, StatusIsTrue
<1> QED
  BY <1>1, Invariance, PTL

(* The providers of a server are shut down once each and do not outlive it,*)
(* unless the shutdown thread panics (TelemetryGuard::shutdown_providers). *)
THEOREM ProvidersShutOnce == Spec => []ProvidersEndOnce
<1>1. LifecycleInv => ProvidersEndOnce
  <2> SUFFICES ASSUME LifecycleInv, NEW s \in Servers
               PROVE  /\ \A k \in Kinds : shuts[s][k] <= 1
                      /\ phase[s] = "over" => retained[s] = {} /\ taken[s] = {}
                      /\ \/ phase[s] = "over"
                         \/ phase[s] \in Guarded /\ subscriber # s
                         => alive[s] = {} \/ s \in panicked
    BY DEF ProvidersEndOnce
  <2>1. \A k \in Kinds : shuts[s][k] <= 1
    BY DEF LifecycleInv, Custody
  <2>2. phase[s] = "over" => thread[s] = "idle"
    BY DEF LifecycleInv, Custody, Stopping
  <2> QED
    BY <2>1, <2>2 DEF LifecycleInv, Custody, Progress
<1> QED
  BY <1>1, Invariance, PTL

(* The telemetry of a session outlives it (PreparedStdio::serve).          *)
THEOREM TelemetryKept == Spec => []ServiceKeepsItsTelemetry
<1>1. LifecycleInv => ServiceKeepsItsTelemetry
  <2> SUFFICES ASSUME LifecycleInv, NEW s \in Servers, NEW k \in Kinds,
                      service[s] = "running", status[s][k] = "enabled"
               PROVE  k \in alive[s] /\ globals[k] = s
    BY DEF ServiceKeepsItsTelemetry
  <2>1. phase[s] \in Guarded
    BY DEF LifecycleInv, Session, Guarded
  <2>2. k \in built[s] /\ subscriber = s
    BY <2>1 DEF LifecycleInv, Reported
  <2> QED
    BY <2>1, <2>2 DEF LifecycleInv, Progress
<1> QED
  BY <1>1, Invariance, PTL

(* Every session speaks the exact version (ExactProtocol).                 *)
THEOREM OneVersion == Spec => []OneVersionSpoken
<1>1. LifecycleInv => OneVersionSpoken
  BY DEF LifecycleInv, Session, OneVersionSpoken
<1> QED
  BY <1>1, Invariance, PTL

-----------------------------------------------------------------------------
(* Admission *)

Accepted(p) == p \in Policies /\ Complaint(p) = None

Behind == {"origin", "bearer", "keys", "claims", "session", "body"}
BehindOrigin == Behind \ {"origin"}
BehindBearer == BehindOrigin \ {"bearer"}
BehindKeys == BehindBearer \ {"keys"}
BehindClaims == BehindKeys \ {"claims"}

Bearer(q) == q.authorization = <<"bearer">> /\ q.token = "es256"

(* What is known of a request behind each layer, and of what was looked at *)
(* for it; until there is an answer there is none.                         *)
AdmissionInv ==
  /\ layer \in {"new", "listening", "authority", "answered"} \cup Behind
  /\ layer = "new" => policy = None
  /\ policy # None => Accepted(policy)
  /\ layer \notin {"new", "answered"} => Accepted(policy)
  /\ layer # "answered" => answer = None
  /\ layer = "origin" => InboundAuthority # None /\ InboundAuthority \in AllowedAuthorities
  /\ layer \in BehindOrigin => FromInside(request)
  /\ layer \in BehindBearer => Bearer(request)
  /\ layer \in BehindKeys => Decodes(request)
  /\ layer \in BehindClaims => Genuine(request) /\ Entitled(request)
  /\ "keys" \in looked => layer \in BehindKeys \cup {"answered"}
  /\ "body" \in looked => layer = "answered"
  /\ ServedIsEntitled /\ LookedInTurn /\ BlameIsTrue

-----------------------------------------------------------------------------
(* A policy that does not satisfy all is complained of, so an accepted one *)
(* satisfies what is asked of its hosts.                                   *)
LEMMA SomethingIsUnsound ==
  ASSUME NEW p, NEW i \in 1..12, ~SatisfiedBy(p, Complaints[i])
  PROVE  Complaint(p) \in {Complaints[k] : k \in 1..12}
<1> DEFINE failed == {k \in 1..12 : ~SatisfiedBy(p, Complaints[k])}
<1>1. PICK least \in failed : \A k \in failed : least <= k
  <2>1. \A n \in 0..12 :
          (\E k \in failed : k <= n) => \E l \in failed : \A k \in failed : l <= k
    OBVIOUS
  <2> QED
    BY <2>1
<1> QED
  BY <1>1 DEF Complaint

LEMMA AcceptedPolicy ==
  ASSUME NEW p, Complaint(p) = None
  PROVE  ValidHosts(p.hosts)
<1>1. None \notin {Complaints[k] : k \in 1..12}
  BY ComplaintsSaySomething
<1>2. SatisfiedBy(p, Complaints[9])
  BY <1>1, SomethingIsUnsound
<1>3. Complaints[9] = "InvalidAllowedHosts"
  BY DEF Complaints
<1> QED
  BY <1>2, <1>3 DEF SatisfiedBy

(* What a complaint can be: none of the answers a request gets. *)
LEMMA ComplaintIsNoAnswer ==
  ASSUME NEW p
  PROVE  Complaint(p) \notin {"served", "missing", "invalid", "forbidden", "unavailable", "capacity"}
<1>1. CASE \A i \in 1..12 : SatisfiedBy(p, Complaints[i])
  <2>1. Complaint(p) = None
    BY <1>1 DEF Complaint
  <2> QED
    BY <2>1, AdmissionConstants
<1>2. CASE \E i \in 1..12 : ~SatisfiedBy(p, Complaints[i])
  <2>1. Complaint(p) \in {Complaints[k] : k \in 1..12}
    BY <1>2, SomethingIsUnsound
  <2>2. \A k \in 1..12 : Complaints[k] \notin
          {"served", "missing", "invalid", "forbidden", "unavailable", "capacity"}
    BY DEF Complaints
  <2> QED
    BY <2>1, <2>2
<1> QED
  BY <1>1, <1>2

(* An accepted policy allows the authority of its own resource, or lists   *)
(* it in Unicode only.                                                     *)
LEMMA OwnIsAllowed ==
  ASSUME Accepted(policy)
  PROVE  ServesItself
<1>1. ValidHosts(policy.hosts)
  BY AcceptedPolicy DEF Accepted
<1>2. PICK i \in DOMAIN policy.hosts : UrlAuthority(policy.hosts[i]) = <<Own, 443>>
  BY <1>1 DEF ValidHosts, ToSet
<1>3. \A j \in DOMAIN policy.hosts : UrlAuthority(policy.hosts[j]) # None
  BY <1>1 DEF ValidHosts, ToSet
<1>4. ASSUME NEW sp \in ToSet(policy.hosts), UrlAuthority(sp) = <<Own, 443>>, sp.form # "idn"
      PROVE  <<Own, 443>> \in AllowedAuthorities
  <2>1. sp.form # "junk"
    BY <1>3, <1>4 DEF ToSet, UrlAuthority
  <2>2. Ascii(sp) /\ HeaderAuthority(sp) = <<Own, 443>>
    BY <1>4, <2>1 DEF Ascii, HeaderAuthority, UrlAuthority
  <2> QED
    BY <2>2 DEF AllowedAuthorities
<1> QED
  BY <1>4 DEF ServesItself

(* What the layers ask of claims, in their order, is what makes a token    *)
(* genuine and its bearer entitled.                                        *)
LEMMA ClaimsEntitle ==
  ASSUME NEW q, Accepted(policy), Bearer(q), Decodes(q), q.sub # Bad, Coherent(q), Entitling(q)
  PROVE  Genuine(q) /\ Entitled(q)
<1>1. Genuine(q)
  BY DEF Genuine, Verified, Bearer, Coherent, ExactAudience
<1>2. None \notin ToSet(policy.clients) /\ policy.assurance \in 1..3
  BY PoliciesOK DEF Accepted
<1>3. \E c \in ToSet(policy.clients) : {q.azp, q.client_id} \ {None} = {c}
  <2>1. AuthorizedClient(q) \in ToSet(policy.clients) /\ AuthorizedClient(q) # None
    BY <1>2 DEF Entitling
  <2>2. {q.azp, q.client_id} \ {None} = {AuthorizedClient(q)}
    <3>1. CASE q.azp # None
      <4>1. q.client_id \in {None, q.azp} /\ AuthorizedClient(q) = q.azp
        BY <2>1, <3>1 DEF AuthorizedClient
      <4> QED
        BY <3>1, <4>1
    <3>2. CASE q.azp = None
      <4>1. AuthorizedClient(q) = q.client_id
        BY <3>2 DEF AuthorizedClient
      <4> QED
        BY <2>1, <3>2, <4>1
    <3> QED
      BY <3>1, <3>2
  <2> QED
    BY <2>1, <2>2
<1>4. \E n \in policy.assurance..3 : {q.aal, q.acr} \cap 1..3 = {n}
  <2>1. AssuranceLevel(q) >= policy.assurance
    BY DEF Entitling
  <2>2. AssuranceLevel(q) \in 1..3 /\ {q.aal, q.acr} \cap 1..3 = {AssuranceLevel(q)}
    <3> DEFINE aal == IF q.aal \in 1..3 THEN q.aal ELSE 0
               acr == IF q.acr \in 1..3 THEN q.acr ELSE 0
    <3>1. AssuranceLevel(q) = IF aal # 0 /\ acr # 0 /\ aal # acr THEN 0
                              ELSE IF aal # 0 THEN aal ELSE acr
      BY DEF AssuranceLevel
    <3>2. AssuranceLevel(q) # 0
      BY <1>2, <2>1, <3>1
    <3> HIDE DEF aal, acr
    <3>3. CASE q.aal \in 1..3
      <4>1. aal = q.aal /\ aal # 0
        BY <3>3 DEF aal
      <4>2. AssuranceLevel(q) = q.aal
        BY <3>1, <3>2, <4>1
      <4>3. q.acr \in 1..3 => q.acr = q.aal
        BY <3>1, <3>2, <4>1 DEF acr
      <4> QED
        BY <3>3, <4>2, <4>3
    <3>4. CASE q.aal \notin 1..3
      <4>1. aal = 0
        BY <3>4 DEF aal
      <4>2. q.acr \in 1..3 /\ AssuranceLevel(q) = q.acr
        BY <3>1, <3>2, <4>1 DEF acr
      <4> QED
        BY <3>4, <4>2
    <3> QED
      BY <3>3, <3>4
  <2> QED
    BY <1>2, <2>1, <2>2
<1>5. \E role \in ToSet(policy.roles) : role \in ToSet(q.roles)
  BY DEF Entitling
<1> QED
  BY <1>1, <1>3, <1>4, <1>5 DEF Entitling, Entitled

-----------------------------------------------------------------------------
(* A step that leaves policy and request alone leaves what is known of     *)
(* them.                                                                   *)
LEMMA KnownStays ==
  ASSUME UNCHANGED <<policy, request>>
  PROVE  /\ Accepted(policy)' <=> Accepted(policy)
         /\ FromInside(request)' <=> FromInside(request)
         /\ InboundAuthority' = InboundAuthority
         /\ AllowedAuthorities' = AllowedAuthorities
         /\ Bearer(request)' <=> Bearer(request)
         /\ Decodes(request)' <=> Decodes(request)
         /\ Genuine(request)' <=> Genuine(request)
         /\ Verified(request)' <=> Verified(request)
         /\ Entitled(request)' <=> Entitled(request)
<1>1. AllowedAuthorities' = AllowedAuthorities /\ InboundAuthority' = InboundAuthority
  BY DEF AllowedAuthorities, InboundAuthority
<1>2. FromInside(request)' <=> FromInside(request)
  BY <1>1 DEF FromInside
<1>3. Entitled(request)' <=> Entitled(request)
  BY DEF Entitled
<1> QED
  BY <1>1, <1>2, <1>3 DEF Accepted, Bearer, Decodes, Genuine, Verified

LEMMA InitAdmits == AdmissionInit => AdmissionInv
  BY AdmissionConstants
  DEF AdmissionInit, AdmissionInv, Behind, BehindOrigin, BehindBearer, BehindKeys, BehindClaims,
      ServedIsEntitled, LookedInTurn, BlameIsTrue

(* Each layer keeps what is known. *)
LEMMA ConfigureKeeps == AdmissionInv /\ Configure => AdmissionInv'
<1> SUFFICES ASSUME AdmissionInv, Configure PROVE AdmissionInv'
  OBVIOUS
<1>1. PICK p \in Policies :
        /\ answer' = Complaint(p)
        /\ IF answer' = None THEN policy' = p /\ layer' = "listening"
                              ELSE policy' = policy /\ layer' = "answered"
  BY DEF Configure
<1>2. answer' \notin {"served", "missing", "invalid", "forbidden", "unavailable", "capacity"}
  BY <1>1, ComplaintIsNoAnswer
<1>3. layer = "new" /\ policy = None /\ looked' = looked /\ looked \cap {"keys", "body"} = {}
  BY DEF Configure, AdmissionInv, BehindKeys, BehindBearer, BehindOrigin, Behind
<1>4. /\ layer' = "listening" => Accepted(policy)'
      /\ layer' = "listening" \/ policy' = None
      /\ layer' \in {"listening", "answered"}
      /\ layer' # "answered" => answer' = None
  BY <1>1, <1>3 DEF Accepted
<1> QED
  BY <1>2, <1>3, <1>4
  DEF AdmissionInv, Behind, BehindOrigin, BehindBearer, BehindKeys, BehindClaims,
      ServedIsEntitled, LookedInTurn, BlameIsTrue

LEMMA ReceiveKeeps == AdmissionInv /\ Receive => AdmissionInv'
<1> SUFFICES ASSUME AdmissionInv, Receive PROVE AdmissionInv'
  OBVIOUS
<1>1. /\ layer = "listening" /\ policy' = policy /\ looked' = looked
      /\ looked \cap {"keys", "body"} = {} /\ answer = None
  BY DEF Receive, AdmissionInv, BehindKeys, BehindBearer, BehindOrigin, Behind
<1>2. \/ layer' = "authority" /\ answer' = None
      \/ layer' = "answered" /\ answer' \in {"public", "not_ready"}
  BY <1>1 DEF Receive
<1>3. Accepted(policy) /\ Accepted(policy)'
  BY <1>1 DEF AdmissionInv, Accepted
<1> QED
  BY <1>1, <1>2, <1>3, AdmissionConstants
  DEF AdmissionInv, Behind, BehindOrigin, BehindBearer, BehindKeys, BehindClaims,
      ServedIsEntitled, LookedInTurn, BlameIsTrue

LEMMA CheckAuthorityKeeps == AdmissionInv /\ CheckAuthority => AdmissionInv'
<1> SUFFICES ASSUME AdmissionInv, CheckAuthority PROVE AdmissionInv'
  OBVIOUS
<1>1. UNCHANGED <<policy, request>>
  BY DEF CheckAuthority, Pass, Refuse
<1> QED
  BY <1>1, KnownStays, AdmissionConstants
  DEF CheckAuthority, Pass, Refuse, Look, AdmissionInv, Behind, BehindOrigin, BehindBearer, BehindKeys, BehindClaims,
      ServedIsEntitled, LookedInTurn, BlameIsTrue

LEMMA CheckOriginKeeps == AdmissionInv /\ CheckOrigin => AdmissionInv'
<1> SUFFICES ASSUME AdmissionInv, CheckOrigin PROVE AdmissionInv'
  OBVIOUS
<1>1. UNCHANGED <<policy, request>>
  BY DEF CheckOrigin, Pass, Refuse
<1>2. layer' = "bearer" => FromInside(request)
  <2> SUFFICES ASSUME layer' = "bearer" PROVE FromInside(request)
    OBVIOUS
  <2>1. ToSet(request.origin) \subseteq ToSet(policy.origins)
    BY DEF CheckOrigin, Pass, Refuse, ToSet
  <2>2. InboundAuthority # None /\ InboundAuthority \in AllowedAuthorities
    BY DEF CheckOrigin, AdmissionInv
  <2> QED
    BY <2>1, <2>2 DEF FromInside, InboundAuthority
<1> QED
  BY <1>1, KnownStays, AdmissionConstants, <1>2
  DEF CheckOrigin, Pass, Refuse, Look, AdmissionInv, Behind, BehindOrigin, BehindBearer, BehindKeys, BehindClaims,
      ServedIsEntitled, LookedInTurn, BlameIsTrue

LEMMA CheckBearerKeeps == AdmissionInv /\ CheckBearer => AdmissionInv'
<1> SUFFICES ASSUME AdmissionInv, CheckBearer PROVE AdmissionInv'
  OBVIOUS
<1>1. UNCHANGED <<policy, request>>
  BY DEF CheckBearer, Pass, Refuse
<1> QED
  BY <1>1, KnownStays, AdmissionConstants
  DEF CheckBearer, Pass, Refuse, Look, Bearer, Genuine, Verified, AdmissionInv, Behind, BehindOrigin, BehindBearer, BehindKeys, BehindClaims,
      ServedIsEntitled, LookedInTurn, BlameIsTrue

LEMMA CheckKeyKeeps == AdmissionInv /\ CheckKey => AdmissionInv'
<1> SUFFICES ASSUME AdmissionInv, CheckKey PROVE AdmissionInv'
  OBVIOUS
<1>1. UNCHANGED <<policy, request>> /\ layer = "keys" /\ looked' = looked \cup {"keys"}
  BY DEF CheckKey, Pass, Refuse, Look
<1>2. Accepted(policy) /\ FromInside(request) /\ Bearer(request) /\ "body" \notin looked
  BY <1>1 DEF AdmissionInv, Behind, BehindOrigin, BehindBearer
<1>3. \/ layer' = "claims" /\ answer' = None /\ Decodes(request)
      \/ layer' = "answered" /\ answer' = "unavailable"
      \/ /\ layer' = "answered" /\ answer' = "invalid"
         /\ ~Genuine(request) \/ request.key \in {"unknown", "rekeyed"}
  BY <1>1 DEF CheckKey, Pass, Refuse, AdmissionInv, Genuine, Verified
<1> QED
  BY <1>1, <1>2, <1>3, KnownStays, AdmissionConstants
  DEF Bearer, AdmissionInv, Behind, BehindOrigin, BehindBearer, BehindKeys, BehindClaims,
      ServedIsEntitled, LookedInTurn, BlameIsTrue

LEMMA AuthorizeClaimsKeeps == AdmissionInv /\ AuthorizeClaims => AdmissionInv'
<1> SUFFICES ASSUME AdmissionInv, AuthorizeClaims PROVE AdmissionInv'
  OBVIOUS
<1>1. UNCHANGED <<policy, request, looked>> /\ layer = "claims"
  BY DEF AuthorizeClaims, Pass, Refuse
<1>2. /\ Accepted(policy) /\ FromInside(request) /\ Bearer(request) /\ Decodes(request)
      /\ "body" \notin looked
  BY <1>1 DEF AdmissionInv, Behind, BehindOrigin, BehindBearer, BehindKeys
<1>3. \/ /\ layer' = "session" /\ answer' = None
         /\ request.sub # Bad /\ Coherent(request) /\ Entitling(request)
      \/ layer' = "answered" /\ answer' = "forbidden"
      \/ layer' = "answered" /\ answer' = "invalid" /\ ~Coherent(request)
  BY <1>1 DEF AuthorizeClaims, Pass, Refuse, AdmissionInv
<1>4. layer' = "session" => Genuine(request) /\ Entitled(request)
  BY <1>2, <1>3, ClaimsEntitle
<1>5. answer' = "invalid" => ~Genuine(request)
  BY <1>3, AdmissionConstants DEF Coherent, ExactAudience, Genuine
<1>6. Verified(request)
  BY <1>2 DEF Verified, Bearer
<1> QED
  BY <1>1, <1>2, <1>3, <1>4, <1>5, <1>6, KnownStays, AdmissionConstants
  DEF Bearer, AdmissionInv, Behind, BehindOrigin, BehindBearer, BehindKeys, BehindClaims,
      ServedIsEntitled, LookedInTurn, BlameIsTrue

LEMMA CheckSessionKeeps == AdmissionInv /\ CheckSession => AdmissionInv'
<1> SUFFICES ASSUME AdmissionInv, CheckSession PROVE AdmissionInv'
  OBVIOUS
<1>1. UNCHANGED <<policy, request>>
  BY DEF CheckSession, Pass, Refuse
<1> QED
  BY <1>1, KnownStays, AdmissionConstants
  DEF CheckSession, Pass, Refuse, Look, Bearer, Verified, AdmissionInv, Behind, BehindOrigin, BehindBearer, BehindKeys, BehindClaims,
      ServedIsEntitled, LookedInTurn, BlameIsTrue

LEMMA BoundBodyKeeps == AdmissionInv /\ BoundBody => AdmissionInv'
<1> SUFFICES ASSUME AdmissionInv, BoundBody PROVE AdmissionInv'
  OBVIOUS
<1>1. UNCHANGED <<policy, request>>
  BY DEF BoundBody, Pass, Refuse
<1> QED
  BY <1>1, KnownStays, AdmissionConstants
  DEF BoundBody, Pass, Refuse, Look, AdmissionInv, Behind, BehindOrigin, BehindBearer, BehindKeys, BehindClaims,
      ServedIsEntitled, LookedInTurn, BlameIsTrue

LEMMA StutterKeeps == AdmissionInv /\ UNCHANGED admissionVars => AdmissionInv'
<1> SUFFICES ASSUME AdmissionInv, UNCHANGED admissionVars PROVE AdmissionInv'
  OBVIOUS
<1>1. UNCHANGED <<policy, request>> /\ UNCHANGED <<layer, answer, looked>>
  BY DEF admissionVars
<1> QED
  BY <1>1, KnownStays
  DEF AdmissionInv, Behind, BehindOrigin, BehindBearer, BehindKeys, BehindClaims,
      ServedIsEntitled, LookedInTurn, BlameIsTrue

(* The invariant holds throughout. *)
THEOREM AdmissionInvariance == AdmissionSpec => []AdmissionInv
<1>1. AdmissionInit => AdmissionInv
  BY InitAdmits
<1>2. AdmissionInv /\ [AdmissionNext]_admissionVars => AdmissionInv'
  BY StutterKeeps, ConfigureKeeps, ReceiveKeeps, CheckAuthorityKeeps, CheckOriginKeeps,
     CheckBearerKeeps, CheckKeyKeeps, AuthorizeClaimsKeeps, CheckSessionKeeps, BoundBodyKeeps
  DEF AdmissionNext
<1> QED
  BY <1>1, <1>2, PTL DEF AdmissionSpec

(* The product sees only a request from an allowed authority and origin    *)
(* whose token is genuine and entitles its bearer; nothing is looked at    *)
(* before its turn, no refusal says what is not so, and the server is      *)
(* reachable under its own name (protected_mcp_router).                    *)
THEOREM AdmissionEntitles == AdmissionSpec => []AdmissionIsEntitled
<1>1. AdmissionInv => ServesItself
  <2> SUFFICES ASSUME AdmissionInv, policy # None PROVE ServesItself
    BY DEF ServesItself
  <2> QED
    BY OwnIsAllowed DEF AdmissionInv
<1>2. AdmissionInv => AdmissionIsEntitled
  BY <1>1 DEF AdmissionInv, AdmissionIsEntitled
<1> QED
  BY <1>2, AdmissionInvariance, PTL
-----------------------------------------------------------------------------
(* Gathering the attributes of the telemetry resource *)

(* The keys of a list of attributes, and one step of gathering them        *)
Keys(list) == {list[i].key : i \in DOMAIN list}
Taken(v, a) == IF Len(v) >= MaxAttributes \/ a.key \in Keys(v) THEN v ELSE Append(v, a)
GatherStep(s, V) == [i \in 1..Len(s) |-> [v \in V |-> Taken(v, s[i])]]

LEMMA GatheredUnfolds ==
  ASSUME NEW T, NEW s \in Seq(T)
  PROVE  \E g : /\ Gathered(s) = g[1..Len(s)]
                /\ Folding(g, Len(s), Seq(T), <<>>, GatherStep(s, Seq(T)))
<1> DEFINE n == Len(s)
           V == Seq(T)
           step == [i \in 1..n |-> [v \in V |-> Taken(v, s[i])]]
           Gathers(g) == g = [u \in SUBSET (1..n) |->
                                IF u = {} THEN <<>> ELSE Taken(g[u \ {Max(u)}], s[Max(u)])]
           f == CHOOSE g : Gathers(g)
<1>1. DOMAIN s = 1..n /\ n \in Nat /\ \A i \in 1..n : s[i] \in T
  OBVIOUS
<1>2. Gathered(s) = f[1..n]
  BY <1>1 DEF Gathered, FoldLeft, MapThenFoldSet, Taken, Keys
<1>3. \A u \in SUBSET (1..n) : u # {} => Max(u) \in 1..n
  BY <1>1, MaxOfSome
<1>4. step \in [1..n -> [V -> V]]
  <2> SUFFICES ASSUME NEW i \in 1..n, NEW v \in V PROVE Taken(v, s[i]) \in V
    OBVIOUS
  <2> QED
    BY <1>1 DEF Taken
<1>5. <<>> \in V
  OBVIOUS
<1> HIDE DEF V
<1>6. \E g : Gathers(g)
  <2>1. PICK g \in [SUBSET (1..n) -> V] : IsFold(g, n, V, <<>>, step)
    BY <1>1, <1>4, <1>5, FoldExists
  <2>2. ASSUME NEW u \in SUBSET (1..n), u # {}
        PROVE  g[u] = Taken(g[u \ {Max(u)}], s[Max(u)])
    <3>1. Max(u) \in 1..n /\ g[u \ {Max(u)}] \in V
      BY <1>3, <2>2
    <3>2. g[u] = step[Max(u)][g[u \ {Max(u)}]]
      BY <2>1, <2>2, <3>1 DEF IsFold
    <3> QED
      BY <3>1, <3>2
  <2>3. g[{}] = <<>>
    BY <2>1 DEF IsFold
  <2>4. Gathers(g)
    BY <2>2, <2>3
  <2> QED
    BY <2>4
<1>7. Gathers(f)
  BY <1>6
<1>8. IsFold(f, n, V, <<>>, step)
  <2>1. f[{}] = <<>>
    BY <1>7
  <2>2. ASSUME NEW u \in SUBSET (1..n), u # {}, f[u \ {Max(u)}] \in V
        PROVE  f[u] = step[Max(u)][f[u \ {Max(u)}]]
    <3>1. f[u] = Taken(f[u \ {Max(u)}], s[Max(u)])
      BY <1>7, <2>2
    <3> HIDE DEF f
    <3> QED
      BY <1>3, <2>2, <3>1
  <2> HIDE DEF f, step
  <2> QED
    BY <2>1, <2>2 DEF IsFold
<1>9. Folding(f, n, V, <<>>, step)
  <2> HIDE DEF f, step
  <2> QED BY <1>1, <1>4, <1>5, <1>8 DEF Folding
<1>10. step = GatherStep(s, V)
  BY DEF GatherStep
<1> HIDE DEF f, n, step
<1> QED
  BY <1>2, <1>9, <1>10 DEF n, V

(* A list with no key twice                                                *)
OnceEach(v) == \A i, j \in DOMAIN v : v[i].key = v[j].key => i = j

(* What is gathered of some attributes: no key twice, none of other        *)
(* attributes, and every key while there is room                           *)
GatheredOf(v, Done) ==
  /\ Len(v) <= MaxAttributes /\ OnceEach(v) /\ ToSet(v) \subseteq Done
  /\ Len(v) < MaxAttributes => Keys(v) = {x.key : x \in Done}

LEMMA TakenGrows ==
  ASSUME NEW T, NEW v \in Seq(T), NEW a \in T, NEW Done \in SUBSET T, GatheredOf(v, Done)
  PROVE  GatheredOf(Taken(v, a), Done \cup {a})
<1>0. /\ MaxAttributes \in Nat
      /\ Len(v) <= MaxAttributes /\ OnceEach(v) /\ ToSet(v) \subseteq Done
      /\ Len(v) < MaxAttributes => Keys(v) = {x.key : x \in Done}
  BY StartupConstants DEF GatheredOf
<1> SUFFICES
      /\ Len(Taken(v, a)) <= MaxAttributes /\ OnceEach(Taken(v, a))
      /\ ToSet(Taken(v, a)) \subseteq Done \cup {a}
      /\ Len(Taken(v, a)) < MaxAttributes => Keys(Taken(v, a)) = {x.key : x \in Done \cup {a}}
  BY DEF GatheredOf
<1>1. CASE Len(v) >= MaxAttributes
  BY <1>0, <1>1 DEF Taken
<1>2. CASE Len(v) < MaxAttributes /\ a.key \in Keys(v)
  <2>1. Taken(v, a) = v
    BY <1>2 DEF Taken
  <2>2. {x.key : x \in Done \cup {a}} = {x.key : x \in Done} \cup {a.key}
    OBVIOUS
  <2>3. {x.key : x \in Done} \cup {a.key} = Keys(v)
    BY <1>0, <1>2
  <2> QED
    BY <1>0, <2>1, <2>2, <2>3
<1>3. CASE Len(v) < MaxAttributes /\ a.key \notin Keys(v)
  <2>1. PICK n \in Nat : n = Len(v) /\ DOMAIN v = 1..n
    OBVIOUS
  <2>2. PICK r \in Seq(T) : r = Append(v, a)
    <3>1. Append(v, a) \in Seq(T)
      OBVIOUS
    <3> QED
      BY <3>1
  <2>3. Len(r) = n + 1 /\ DOMAIN r = 1..(n + 1) /\ r[n + 1] = a /\ \A i \in 1..n : r[i] = v[i]
    BY <2>1, <2>2
  <2>4. Taken(v, a) = r
    BY <1>0, <1>3, <2>1, <2>2 DEF Taken
  <2>5. ToSet(r) = ToSet(v) \cup {a}
    BY <2>2, MembersOfAppend
  <2>6. OnceEach(r)
    <3> SUFFICES ASSUME NEW i \in 1..(n + 1), NEW j \in 1..(n + 1), r[i].key = r[j].key PROVE i = j
      BY <2>3 DEF OnceEach
    <3>1. (i \in 1..n \/ i = n + 1) /\ (j \in 1..n \/ j = n + 1)
      OBVIOUS
    <3>2. \A k \in 1..n : v[k].key # a.key
      BY <1>3, <2>1 DEF Keys
    <3>3. \A k, l \in 1..n : v[k].key = v[l].key => k = l
      BY <1>0, <2>1 DEF OnceEach
    <3> QED
      BY <2>3, <3>1, <3>2, <3>3
  <2>7. Keys(r) = Keys(v) \cup {a.key}
    <3>1. 1..(n + 1) = (1..n) \cup {n + 1}
      BY <2>1
    <3>2. Keys(v) = {r[i].key : i \in 1..n}
      BY <2>1, <2>3 DEF Keys
    <3> QED
      BY <2>3, <3>1, <3>2 DEF Keys
  <2>8. {x.key : x \in Done \cup {a}} = {x.key : x \in Done} \cup {a.key}
    OBVIOUS
  <2> QED
    BY <1>0, <1>3, <2>1, <2>3, <2>4, <2>5, <2>6, <2>7, <2>8
<1> QED
  BY <1>0, <1>1, <1>2, <1>3

LEMMA GatheredMembers ==
  ASSUME NEW T, NEW s \in Seq(T)
  PROVE  Gathered(s) \in Seq(T) /\ GatheredOf(Gathered(s), ToSet(s))
<1> DEFINE n == Len(s)
           V == Seq(T)
           Done(i) == {s[j] : j \in 1..i}
<1>1. PICK g : Gathered(s) = g[1..n] /\ Folding(g, n, V, <<>>, GatherStep(s, V))
  BY GatheredUnfolds
<1>2. n \in Nat /\ DOMAIN s = 1..n /\ \A i \in 1..n : s[i] \in T
  OBVIOUS
<1>3. /\ g[1..0] = <<>>
      /\ \A i \in 0..n : g[1..i] \in V
      /\ \A i \in 1..n : g[1..i] = GatherStep(s, V)[i][g[1..(i - 1)]]
  <2> HIDE DEF V, n
  <2> QED BY <1>1, <1>2, FoldSteps
<1>4. \A i \in 1..n : g[1..i] = Taken(g[1..(i - 1)], s[i])
  <2> SUFFICES ASSUME NEW i \in 1..n PROVE g[1..i] = Taken(g[1..(i - 1)], s[i])
    OBVIOUS
  <2>1. i - 1 \in 0..n
    BY <1>2
  <2>2. PICK v \in V : v = g[1..(i - 1)]
    BY <1>3, <2>1
  <2>3. GatherStep(s, V)[i][v] = Taken(v, s[i])
    <3> HIDE DEF V
    <3> QED BY DEF GatherStep
  <2> QED
    BY <1>3, <2>2, <2>3
<1> DEFINE S == {i \in Nat : GatheredOf(g[1..i], Done(i))}
<1>5. 0 \in S
  <2>1. Done(0) = {} /\ ToSet(<<>>) = {} /\ OnceEach(<<>>) /\ Keys(<<>>) = {} /\ Len(<<>>) = 0
    BY DEF ToSet, OnceEach, Keys
  <2> QED
    BY <1>3, <2>1, StartupConstants DEF GatheredOf
<1>6. \A i \in 0..(n - 1) : i \in S => i + 1 \in S
  <2> SUFFICES ASSUME NEW i \in 0..(n - 1), i \in S PROVE i + 1 \in S
    OBVIOUS
  <2>1. i + 1 \in 1..n /\ (i + 1) - 1 = i /\ i \in 0..n /\ i \in Nat
    BY <1>2
  <2>2. Done(i + 1) = Done(i) \cup {s[i + 1]}
    <3>1. 1..(i + 1) = (1..i) \cup {i + 1}
      BY <2>1
    <3> QED
      BY <3>1
  <2>3. PICK v \in V : v = g[1..i] /\ GatheredOf(v, Done(i))
    BY <1>3, <2>1
  <2>4. PICK a \in T : a = s[i + 1]
    BY <1>2, <2>1
  <2>5. PICK D \in SUBSET T : D = Done(i)
    <3>1. Done(i) \in SUBSET T
      BY <1>2, <2>1
    <3> QED
      BY <3>1
  <2>6. GatheredOf(v, D)
    BY <2>3, <2>5
  <2>7. GatheredOf(Taken(v, a), D \cup {a})
    BY <2>6, TakenGrows
  <2>8. g[1..(i + 1)] = Taken(v, a)
    BY <1>4, <2>1, <2>3, <2>4
  <2>9. GatheredOf(g[1..(i + 1)], Done(i + 1))
    BY <2>2, <2>4, <2>5, <2>7, <2>8
  <2> HIDE DEF Done
  <2> QED
    BY <2>1, <2>9
<1>7. 0..n \subseteq S
  <2> HIDE DEF S, n
  <2> QED BY <1>2, <1>5, <1>6, IntervalInduction
<1>8. n \in S
  <2> HIDE DEF S, n
  <2> QED BY <1>2, <1>7
<1>9. ToSet(s) = Done(n)
  BY <1>2 DEF ToSet
<1>10. g[1..n] \in V
  BY <1>2, <1>3
<1> QED
  BY <1>1, <1>8, <1>9, <1>10
-----------------------------------------------------------------------------
(* The attributes of the telemetry resource *)

LEMMA PairsOfRaw ==
  ASSUME NEW raw, raw \in Seq(ToSet(raw))
  PROVE  Pairs(raw) \in Seq(ToSet(raw)) /\ ToSet(Pairs(raw)) \subseteq ToSet(raw)
<1> DEFINE keep == {a \in ToSet(raw) : a.valid /\ ~a.secret /\ a.key # "service"}
           good == Sifted(raw, keep)
           last == IF Len(good) < MaxPairs THEN Len(good) ELSE MaxPairs
<1>1. good \in Seq(ToSet(raw) \cap keep)
  BY SiftedKeeps
<1>2. PICK q \in Seq(ToSet(raw)) : q = good
  <2> HIDE DEF good
  <2>1. ToSet(raw) \cap keep \subseteq ToSet(raw)
    OBVIOUS
  <2> HIDE DEF keep
  <2>2. good \in Seq(ToSet(raw))
    BY <1>1, <2>1
  <2> QED
    BY <2>2
<1>3. PICK n \in Nat : n = (IF Len(q) < MaxPairs THEN Len(q) ELSE MaxPairs) /\ n <= Len(q)
  BY StartupConstants
<1>4. Pairs(raw) = SubSeq(q, 1, n)
  BY <1>2, <1>3 DEF Pairs
<1>5. SubSeq(q, 1, n) \in Seq(ToSet(raw))
  BY <1>3
<1>6. ASSUME NEW x \in Seq(ToSet(raw)) PROVE ToSet(x) \subseteq ToSet(raw)
  BY DEF ToSet
<1> QED
  BY <1>4, <1>5, <1>6

(* Gathered are the standard keys of the environment and the claims of     *)
(* keys nobody owns.                                                       *)
Attributed(list, standard, raw) ==
  /\ Len(list) <= MaxAttributes /\ OnceEach(list)
  /\ \A i \in DOMAIN list : list[i].key \in OwnedKeys <=> list[i].by = "env"
  /\ Len(list) < MaxAttributes =>
       Keys(list) = standard \cup ({Pairs(raw)[i].key : i \in DOMAIN Pairs(raw)} \ OwnedKeys)

LEMMA AttributesStand ==
  ASSUME NEW standard, standard \subseteq ToSet(StandardKeys), NEW raw, raw \in Seq(ToSet(raw))
  PROVE  Attributed(Attributes(Sifted(StandardKeys, standard), raw), standard, raw)
<1> DEFINE free == {a \in ToSet(raw) : a.key \notin OwnedKeys}
<1>1. PICK named \in Seq(ToSet(StandardKeys)) :
        named = Sifted(StandardKeys, standard) /\ ToSet(named) = standard
  <2>1. StandardKeys \in Seq(ToSet(StandardKeys))
    BY DEF StandardKeys, ToSet
  <2>2. Sifted(StandardKeys, standard) \in Seq(ToSet(StandardKeys) \cap standard)
    BY <2>1, SiftedKeeps
  <2>3. ToSet(StandardKeys) \cap standard \subseteq ToSet(StandardKeys)
    OBVIOUS
  <2>4. Sifted(StandardKeys, standard) \in Seq(ToSet(StandardKeys))
    BY <2>2, <2>3
  <2>5. ToSet(Sifted(StandardKeys, standard)) = ToSet(StandardKeys) \cap standard
    BY <2>1, SiftedMembers
  <2> QED
    BY <2>4, <2>5
<1>2. PICK pairs \in Seq(ToSet(raw)) : pairs = Pairs(raw) /\ ToSet(pairs) \subseteq ToSet(raw)
  BY PairsOfRaw
<1>3. PICK custom \in Seq(ToSet(raw)) :
        custom = Sifted(pairs, free) /\ ToSet(custom) = ToSet(pairs) \cap free
  <2>1. Sifted(pairs, free) \in Seq(ToSet(raw) \cap free)
    BY SiftedKeeps
  <2>2. ToSet(raw) \cap free \subseteq ToSet(raw)
    OBVIOUS
  <2>3. ToSet(Sifted(pairs, free)) = ToSet(pairs) \cap free
    BY SiftedMembers
  <2> HIDE DEF free
  <2>4. Sifted(pairs, free) \in Seq(ToSet(raw))
    BY <2>1, <2>2
  <2> QED
    BY <2>3, <2>4
<1> DEFINE own == [i \in DOMAIN named |-> [key |-> named[i], by |-> "env"]]
           claims == [i \in DOMAIN custom |-> [key |-> custom[i].key, by |-> "claim"]]
           Owned == {[key |-> k, by |-> "env"] : k \in standard}
           Claimed == {[key |-> a.key, by |-> "claim"] : a \in ToSet(pairs) \cap free}
           T == Owned \cup Claimed
<1>4. own \in Seq(T) /\ ToSet(own) = Owned
  <2>1. ToSet(own) = Owned
    BY <1>1 DEF ToSet
  <2>2. PICK n \in Nat : DOMAIN named = 1..n
    OBVIOUS
  <2>3. own \in [1..n -> T]
    BY <1>1, <2>2 DEF ToSet
  <2>4. \A f \in [1..n -> T] : f \in Seq(T)
    OBVIOUS
  <2> QED
    BY <2>1, <2>3, <2>4
<1>5. claims \in Seq(T) /\ ToSet(claims) = Claimed
  <2>1. ToSet(claims) = {[key |-> custom[i].key, by |-> "claim"] : i \in DOMAIN custom}
    BY DEF ToSet
  <2>2. ToSet(custom) = {custom[i] : i \in DOMAIN custom}
    BY DEF ToSet
  <2>3. ToSet(claims) = Claimed
    <3> DEFINE Claim(a) == [key |-> a.key, by |-> "claim"]
    <3>1. ToSet(claims) = {Claim(custom[i]) : i \in DOMAIN custom}
      BY <2>1
    <3>2. Claimed = {Claim(a) : a \in ToSet(custom)}
      BY <1>3
    <3> HIDE DEF Claim, claims, Claimed
    <3> QED
      BY <2>2, <3>1, <3>2
  <2>4. PICK n \in Nat : DOMAIN custom = 1..n
    OBVIOUS
  <2>5. claims \in [1..n -> T]
    BY <1>3, <2>2, <2>4
  <2>6. \A f \in [1..n -> T] : f \in Seq(T)
    OBVIOUS
  <2> QED
    BY <2>3, <2>5, <2>6
<1>6. Attributes(Sifted(StandardKeys, standard), raw) = Gathered(own \o claims)
  BY <1>1, <1>2, <1>3 DEF Attributes
<1>7. \A a \in T : a.key \in OwnedKeys <=> a.by = "env"
  BY DEF OwnedKeys
<1>8. {a.key : a \in T} = standard \cup ({a.key : a \in ToSet(pairs)} \ OwnedKeys)
  <2>1. {a.key : a \in Owned} = standard
    <3>1. \A k \in standard : [key |-> k, by |-> "env"] \in Owned
      OBVIOUS
    <3>2. \A k \in standard : [key |-> k, by |-> "env"].key = k
      OBVIOUS
    <3>3. \A a \in Owned : a.key \in standard
      OBVIOUS
    <3> HIDE DEF Owned
    <3>4. standard \subseteq {a.key : a \in Owned}
      BY <3>1, <3>2
    <3> QED
      BY <3>3, <3>4
  <2>2. {a.key : a \in Claimed} = {a.key : a \in ToSet(pairs)} \ OwnedKeys
    <3> DEFINE K == {a.key : a \in ToSet(pairs)} \ OwnedKeys
    <3>1. \A a \in ToSet(pairs) : a.key \notin OwnedKeys =>
            /\ [key |-> a.key, by |-> "claim"] \in Claimed
            /\ [key |-> a.key, by |-> "claim"].key = a.key
      BY <1>2
    <3>2. \A a \in Claimed : a.key \in K
      OBVIOUS
    <3> HIDE DEF Claimed
    <3>3. K \subseteq {a.key : a \in Claimed}
      BY <3>1
    <3>4. {a.key : a \in Claimed} \subseteq K
      BY <3>2
    <3> QED
      BY <3>3, <3>4
  <2>3. {a.key : a \in T} = {a.key : a \in Owned} \cup {a.key : a \in Claimed}
    OBVIOUS
  <2> QED
    BY <2>1, <2>2, <2>3
<1>9. {a.key : a \in ToSet(pairs)} = {Pairs(raw)[i].key : i \in DOMAIN Pairs(raw)}
  BY <1>2 DEF ToSet
<1> HIDE DEF own, claims
<1>10. PICK s \in Seq(T) : s = own \o claims /\ ToSet(s) = T
  <2> HIDE DEF T, Owned, Claimed
  <2>1. own \o claims \in Seq(T)
    BY <1>4, <1>5
  <2>2. ToSet(own \o claims) = ToSet(own) \cup ToSet(claims)
    BY <1>4, <1>5, MembersOfConcat
  <2> QED
    BY <1>4, <1>5, <2>1, <2>2 DEF T
<1>11. PICK list \in Seq(T) : list = Gathered(s) /\ GatheredOf(list, T)
  <2> HIDE DEF T
  <2> QED BY <1>10, GatheredMembers
<1>12. \A i \in DOMAIN list : list[i] \in T
  <2> HIDE DEF T
  <2> QED OBVIOUS
<1> HIDE DEF T
<1>13. Attributed(list, standard, raw)
  BY <1>7, <1>8, <1>9, <1>11, <1>12 DEF Attributed, GatheredOf
<1> QED
  BY <1>6, <1>10, <1>11, <1>13

LEMMA DescribesOwned ==
  ASSUME deployment \in Deployments, Describe PROVE AttributesAreOwned'
<1>1. /\ deployment.standard \subseteq ToSet(StandardKeys)
      /\ deployment.raw \in Seq(ToSet(deployment.raw))
  BY StartupConstants DEF Ordinary
<1>2. described' = Attributes(Sifted(StandardKeys, deployment.standard), deployment.raw)
      /\ deployment' = deployment
  BY DEF Describe
<1>3. Attributed(described', deployment.standard, deployment.raw)
  BY <1>1, <1>2, AttributesStand
<1> QED
  BY <1>2, <1>3 DEF Attributed, AttributesAreOwned, OnceEach, Keys

-----------------------------------------------------------------------------
(* The policy of the remote side *)

LEMMA CsvIsPart ==
  ASSUME NEW list, list \in Seq(ToSet(list))
  PROVE  ToSet(Sifted(list, ToSet(list) \ {"blank"})) = ToSet(list) \ {"blank"}
<1>1. ToSet(Sifted(list, ToSet(list) \ {"blank"})) = ToSet(list) \cap (ToSet(list) \ {"blank"})
  BY SiftedMembers
<1> QED
  BY <1>1

LEMMA ListOfEight ==
  ASSUME NEW T, NEW a \in T, NEW b \in T, NEW c \in T, NEW d \in T,
         NEW e \in T, NEW f \in T, NEW g \in T, NEW h \in T
  PROVE  <<a, b, c, d, e, f, g, h>> \in Seq(T)
OBVIOUS

(* A launch without a fault has passed all the tests that can fail it.     *)
LEMMA FaultlessLaunch ==
  ASSUME NEW d, LaunchFault(d) = None PROVE \A f \in ToSet(LaunchFaults) : PassedBy(d, f)
<1> DEFINE failing == {f \in ToSet(LaunchFaults) : ~PassedBy(d, f)}
           failed == Sifted(LaunchFaults, failing)
           Named == {"identity", "graph", "missing", "invalid clients", "invalid origins", "policy",
                     "invalid bind", "collision"}
<1>1. LaunchFaults \in Seq(Named)
  <2>1. /\ "identity" \in Named /\ "graph" \in Named /\ "missing" \in Named
        /\ "invalid clients" \in Named /\ "invalid origins" \in Named /\ "policy" \in Named
        /\ "invalid bind" \in Named /\ "collision" \in Named
    OBVIOUS
  <2> HIDE DEF Named
  <2> QED BY <2>1, ListOfEight DEF LaunchFaults
<1>2. ToSet(failed) = ToSet(LaunchFaults) \cap failing /\ failed \in Seq(Named \cap failing)
  BY <1>1, SiftedMembers, SiftedKeeps
<1>3. LaunchFault(d) = IF failed = <<>> THEN None ELSE failed[1]
  BY DEF LaunchFault
<1>4. CASE failed # <<>>
  <2>1. failed[1] \in failing
    <3> HIDE DEF failed, failing, Named
    <3> QED BY <1>2, <1>4
  <2> QED
    BY <1>3, <1>4, <2>1, FaultsSaySomething
<1> HIDE DEF failed, failing, Named
<1>5. CASE failed = <<>>
  <2>1. ToSet(failed) = {}
    BY <1>5 DEF ToSet
  <2>2. ToSet(LaunchFaults) \cap failing = {}
    BY <1>2, <2>1
  <2> QED
    BY <2>2 DEF failing
<1> QED
  BY <1>4, <1>5

(* What a server that was launched as deployed lets in.                    *)
LEMMA PolicyStands ==
  ASSUME NEW d \in Deployments, LaunchFault(d) = None, NEW p, p = PolicyOf(d.remote)
  PROVE  /\ Complaint(p) = None
         /\ {HeaderAuthority(sp) : sp \in ToSet(p.hosts)} = {<<Own, 443>>}
         /\ d.remote.clients \notin {None, <<"blank">>} =>
              ToSet(p.clients) \subseteq ToSet(d.remote.clients)
         /\ d.remote.origins \notin {None, <<"blank">>} =>
              ToSet(p.origins) \subseteq ToSet(d.remote.origins)
         /\ "blank" \notin ToSet(p.clients) \cup ToSet(p.origins)
<1>1. Complaint(p) = None
  <2>1. "policy" \in ToSet(LaunchFaults)
    <3>1. LaunchFaults[6] = "policy" /\ 6 \in DOMAIN LaunchFaults
      BY DEF LaunchFaults
    <3> QED
      BY <3>1 DEF ToSet
  <2>2. PassedBy(d, "policy")
    BY <2>1, FaultlessLaunch
  <2> QED
    BY <2>2 DEF PassedBy
<1>2. {HeaderAuthority(sp) : sp \in ToSet(p.hosts)} = {<<Own, 443>>}
  <2> DEFINE host == [host |-> Own, port |-> None, form |-> "plain"]
  <2>1. p.hosts = <<host>>
    BY DEF PolicyOf
  <2>2. ToSet(<<host>>) = {host}
    BY DEF ToSet
  <2>3. HeaderAuthority(host) = <<Own, 443>>
    BY DEF HeaderAuthority, Ascii, Port
  <2> HIDE DEF host
  <2> QED
    BY <2>1, <2>2, <2>3
<1>3. ASSUME NEW list, list # None => list \in Seq(ToSet(list)), NEW default, "blank" \notin ToSet(default)
      PROVE  /\ list \notin {None, <<"blank">>} => ToSet(Csv(list, default)) \subseteq ToSet(list)
             /\ "blank" \notin ToSet(Csv(list, default))
  <2>1. CASE list \in {None, <<"blank">>}
    BY <1>3, <2>1 DEF Csv, EnvValue
  <2>2. CASE list \notin {None, <<"blank">>}
    <3>1. Csv(list, default) = Sifted(list, ToSet(list) \ {"blank"})
      BY <2>2 DEF Csv, EnvValue
    <3> QED
      BY <1>3, <2>2, <3>1, CsvIsPart
  <2> QED
    BY <2>1, <2>2
<1>4. /\ d.remote.clients # None => d.remote.clients \in Seq(ToSet(d.remote.clients))
      /\ d.remote.origins # None => d.remote.origins \in Seq(ToSet(d.remote.origins))
  BY StartupConstants DEF Ordinary
<1>5. p.clients = Csv(d.remote.clients, DefaultClients) /\ p.origins = Csv(d.remote.origins, DefaultOrigins)
  BY DEF PolicyOf
<1>6. "blank" \notin ToSet(DefaultClients) /\ "blank" \notin ToSet(DefaultOrigins)
  BY StartupConstants
<1>7. /\ d.remote.clients \notin {None, <<"blank">>} =>
           ToSet(p.clients) \subseteq ToSet(d.remote.clients)
      /\ "blank" \notin ToSet(p.clients)
  BY <1>3, <1>4, <1>5, <1>6
<1>8. /\ d.remote.origins \notin {None, <<"blank">>} =>
           ToSet(p.origins) \subseteq ToSet(d.remote.origins)
      /\ "blank" \notin ToSet(p.origins)
  BY <1>3, <1>4, <1>5, <1>6
<1> QED
  BY <1>1, <1>2, <1>7, <1>8
-----------------------------------------------------------------------------
(* The arguments *)

(* An acceptable parse resolves every argument, and no secret key by one.  *)
LEMMA ParseResolves ==
  ASSUME NEW c \in Contracts, deployment \in Deployments,
         NEW p, p = Parsed(c, deployment.argv), Acceptable(p), NEW r, r = MergeSources(p)
  PROVE  /\ \A k \in DOMAIN r : r[k][1] = "argv" => k \notin EnvironmentOnly
         /\ \A i \in DOMAIN deployment.argv :
              deployment.argv[i].value \in {r[k][2] : k \in {key \in DOMAIN r : r[key][1] = "argv"}}
         /\ \A k \in DOMAIN deployment.env :
              /\ k \in DOMAIN r /\ r[k][1] # "dotenv"
              /\ r[k][1] = "env" => r[k][2] = deployment.env[k]
<1> DEFINE argv == deployment.argv
           known == {a \in Options(argv) : a.option \in DOMAIN c.options}
           Chosen(k) == CHOOSE a \in known : c.options[a.option] = k
<1>1. p.unknown = {} /\ p.extras = {} /\ DOMAIN p.provided \cap EnvironmentOnly = {}
  BY DEF Acceptable, Sensitive
<1>2. /\ DOMAIN p.provided = {c.options[a.option] : a \in known}
      /\ \A k \in DOMAIN p.provided : p.provided[k] = <<"argv", Chosen(k).value>>
  BY DEF Parsed
<1>3. known = Options(argv)
  <2>1. p.unknown = Options(argv) \ known
    BY DEF Parsed
  <2> QED
    BY <1>1, <2>1
<1>4. \A i \in DOMAIN argv : argv[i] \in known
  <2>1. p.extras = {i \in DOMAIN argv : argv[i].option = None}
    BY DEF Parsed
  <2>2. \A i \in DOMAIN argv : argv[i].option # None
    BY <1>1, <2>1
  <2>3. \A i \in DOMAIN argv : argv[i] \in Options(argv)
    BY <2>2 DEF Options
  <2> QED
    BY <1>3, <2>3
<1>5. \A a, b \in known : c.options[a.option] = c.options[b.option] => a = b
  <2>1. \A a, b \in Options(argv) :
          {a.option, b.option} \subseteq DOMAIN c.options /\ c.options[a.option] = c.options[b.option]
            => a = b
    BY StartupConstants DEF Ordinary
  <2> QED
    BY <2>1
<1>6. /\ \A k \in DOMAIN p.dotenv : p.dotenv[k][1] = "dotenv"
      /\ \A k \in DOMAIN p.overrides : p.overrides[k][1] = "overrides"
  BY DEF Parsed
<1>7. /\ DOMAIN r = DOMAIN p.provided \cup DOMAIN p.overrides \cup DOMAIN deployment.env \cup DOMAIN p.dotenv
      /\ \A k \in DOMAIN r :
           r[k] = IF k \in DOMAIN p.provided THEN p.provided[k]
                  ELSE IF k \in DOMAIN p.overrides THEN p.overrides[k]
                  ELSE IF k \in DOMAIN deployment.env THEN <<"env", deployment.env[k]>> ELSE p.dotenv[k]
  BY DEF MergeSources
<1>8. \A k \in DOMAIN p.provided : k \in DOMAIN r /\ r[k] = <<"argv", Chosen(k).value>>
  BY <1>2, <1>7
<1> HIDE DEF known
<1>9. ASSUME NEW k \in DOMAIN r, r[k][1] = "argv" PROVE k \notin EnvironmentOnly
  <2>1. k \in DOMAIN p.provided
    <3> SUFFICES ASSUME k \notin DOMAIN p.provided PROVE FALSE
      OBVIOUS
    <3>1. CASE k \in DOMAIN p.overrides
      <4>1. r[k] = p.overrides[k]
        BY <1>7, <3>1
      <4> QED
        BY <1>6, <1>9, <3>1, <4>1
    <3>2. CASE k \notin DOMAIN p.overrides /\ k \in DOMAIN deployment.env
      <4>1. r[k] = <<"env", deployment.env[k]>>
        BY <1>7, <3>2
      <4> QED
        BY <1>9, <4>1
    <3>3. CASE k \notin DOMAIN p.overrides /\ k \notin DOMAIN deployment.env
      <4>1. r[k] = p.dotenv[k] /\ k \in DOMAIN p.dotenv
        BY <1>7, <3>3
      <4> QED
        BY <1>6, <1>9, <4>1
    <3> QED
      BY <3>1, <3>2, <3>3
  <2> QED
    BY <1>1, <2>1
<1>10. ASSUME NEW i \in DOMAIN argv
       PROVE  argv[i].value \in {r[k][2] : k \in {key \in DOMAIN r : r[key][1] = "argv"}}
  <2> DEFINE k == c.options[argv[i].option]
  <2>1. argv[i] \in known /\ k \in DOMAIN p.provided
    BY <1>2, <1>4
  <2>2. Chosen(k) = argv[i]
    BY <1>5, <2>1
  <2>3. k \in DOMAIN r /\ r[k][1] = "argv" /\ r[k][2] = argv[i].value
    BY <1>8, <2>1, <2>2
  <2> HIDE DEF k
  <2> QED
    BY <2>3
<1>11. ASSUME NEW k \in DOMAIN deployment.env
       PROVE  /\ k \in DOMAIN r /\ r[k][1] # "dotenv"
              /\ r[k][1] = "env" => r[k][2] = deployment.env[k]
  <2>1. k \in DOMAIN r
    BY <1>7
  <2>2. CASE k \in DOMAIN p.provided
    BY <1>8, <2>2
  <2>3. CASE k \notin DOMAIN p.provided /\ k \in DOMAIN p.overrides
    BY <1>6, <1>7, <2>1, <2>3
  <2>4. CASE k \notin DOMAIN p.provided /\ k \notin DOMAIN p.overrides
    <3>1. r[k] = <<"env", deployment.env[k]>>
      BY <1>7, <2>1, <2>4
    <3> QED
      BY <2>1, <3>1
  <2> QED
    BY <2>1, <2>2, <2>3, <2>4
<1> QED
  BY <1>9, <1>10, <1>11

LEMMA ObjectionHoldsNames ==
  ASSUME NEW c, deployment \in Deployments, NEW p, p = Parsed(c, deployment.argv)
  PROVE  Objection(p).names \cap ({a.value : a \in Options(deployment.argv)} \cup {"good", "bad"}) = {}
<1>1. Objection(p).names \subseteq {a.option : a \in Options(deployment.argv)} \cup EnvironmentOnly
  <2>1. p.unknown \subseteq Options(deployment.argv)
    BY DEF Parsed
  <2>2. Sensitive(p) \subseteq EnvironmentOnly
    BY DEF Sensitive
  <2>3. \/ Objection(p).names = {}
        \/ Objection(p).names = {a.option : a \in p.unknown}
        \/ Objection(p).names = Sensitive(p)
    BY DEF Objection
  <2> QED
    BY <2>1, <2>2, <2>3
<1> QED
  BY <1>1, StartupConstants DEF Ordinary
-----------------------------------------------------------------------------
(* The start of a server *)

StartupTypes ==
  /\ deployment \in Deployments
  /\ contracts \in [Places -> Contracts \cup {None}]
  /\ progress \in {"snapshot", "audit", "parse", "coerce"} => path \in Places

(* A server that launched has the policy of its deployment, in which       *)
(* nothing was at fault, and one that binds has the keys.                  *)
Launched ==
  /\ progress \in {"warm", "bind", "serving"} =>
       launch = PolicyOf(deployment.remote) /\ LaunchFault(deployment) = None
  /\ progress \in {"bind", "serving"} => warm

StartupInv ==
  /\ StartupTypes /\ Launched
  /\ SecretsStayOutOfArgv /\ RanksAreKept /\ OwnedContract
  /\ DiagnosticsHoldNames /\ AttributesAreOwned

LEMMA LaunchedIsBound == StartupTypes /\ Launched => BoundBehindPolicy
<1> SUFFICES ASSUME StartupTypes, Launched, progress = "serving"
             PROVE  BoundBehindPolicy
  BY DEF BoundBehindPolicy
<1>1. deployment \in Deployments /\ warm
      /\ launch = PolicyOf(deployment.remote) /\ LaunchFault(deployment) = None
  BY DEF StartupTypes, Launched
<1> QED
  BY <1>1, PolicyStands DEF BoundBehindPolicy

LEMMA InitStarts == StartupInit => StartupInv
<1> SUFFICES ASSUME NEW d \in Deployments, NEW c \in Situations, StartupFrom(d, c) PROVE StartupInv
  BY DEF StartupInit
<1>1. StartupTypes
  BY StartupConstants DEF StartupFrom, StartupTypes
<1>2. Launched
  BY DEF StartupFrom, Launched
<1> QED
  BY <1>1, <1>2
  DEF StartupFrom, StartupInv, SecretsStayOutOfArgv, RanksAreKept, OwnedContract,
      DiagnosticsHoldNames, AttributesAreOwned

(* What a step leaves alone stays true.                                    *)
LEMMA ConfigStays ==
  ASSUME StartupInv, UNCHANGED <<deployment, path, resolved>>
  PROVE  SecretsStayOutOfArgv' /\ RanksAreKept' /\ OwnedContract'
<1>1. SecretsStayOutOfArgv'
  BY DEF StartupInv, SecretsStayOutOfArgv
<1>2. RanksAreKept'
  BY DEF StartupInv, RanksAreKept
<1>3. OwnedContract'
  BY DEF StartupInv, OwnedContract
<1> QED
  BY <1>1, <1>2, <1>3

LEMMA AttributesStay ==
  ASSUME StartupInv, UNCHANGED <<deployment, described>> PROVE AttributesAreOwned'
BY DEF StartupInv, AttributesAreOwned

LEMMA ReportStays ==
  ASSUME StartupInv, UNCHANGED <<deployment, report>> PROVE DiagnosticsHoldNames'
BY DEF StartupInv, DiagnosticsHoldNames

LEMMA SilentReport ==
  ASSUME UNCHANGED deployment, NEW code, report' = [code |-> code, names |-> {}]
  PROVE  DiagnosticsHoldNames'
BY DEF DiagnosticsHoldNames

LEMMA RequireReports ==
  ASSUME StartupInv, UNCHANGED deployment, NEW ok, NEW code, NEW next, Require(ok, code, next)
  PROVE  DiagnosticsHoldNames'
<1>1. UNCHANGED report \/ report' = [code |-> code, names |-> {}]
  BY DEF Require, Proceed, GiveUp
<1> QED
  BY <1>1, ReportStays, SilentReport

LEMMA RewriteStarts == StartupInv /\ Rewrite => StartupInv'
<1> SUFFICES ASSUME StartupInv, Rewrite PROVE StartupInv'
  OBVIOUS
<1>1. UNCHANGED <<progress, deployment, path, resolved, described, launch, warm, report>>
  BY DEF Rewrite, configVars, launchVars
<1>2. StartupTypes'
  <2>1. PICK where \in IF path = None THEN Places ELSE {path}, c \in Contracts \cup {None} :
          contracts' = [contracts EXCEPT ![where] = c]
    BY DEF Rewrite
  <2>2. contracts' \in [Places -> Contracts \cup {None}]
    BY <2>1 DEF StartupInv, StartupTypes
  <2> QED
    BY <1>1, <2>2 DEF StartupInv, StartupTypes
<1>3. Launched'
  BY <1>1 DEF StartupInv, Launched
<1> QED
  BY <1>1, <1>2, <1>3, ConfigStays, AttributesStay, ReportStays DEF StartupInv

LEMMA LocateStarts == StartupInv /\ Locate => StartupInv'
<1> SUFFICES ASSUME StartupInv, Locate PROVE StartupInv'
  OBVIOUS
<1> DEFINE present == {where \in Places : contracts[where] # None}
           found == Sifted(Candidates, present)
           Owned == IF deployment.override THEN {"override"} ELSE {"share", "beside"}
<1>1. UNCHANGED <<deployment, contracts, resolved, described, launch, warm>>
  BY DEF Locate, launchVars
<1>2. found \in Seq(Owned)
  <2>1. Candidates \in Seq(Owned)
    <3>1. CASE deployment.override
      BY <3>1 DEF Candidates
    <3>2. CASE ~deployment.override /\ deployment.owned
      <4>1. Owned = {"share", "beside"} /\ Candidates = <<"share", "beside">>
        BY <3>2 DEF Candidates
      <4>2. \A T : "share" \in T /\ "beside" \in T => <<"share", "beside">> \in Seq(T)
        OBVIOUS
      <4> HIDE DEF Owned
      <4> QED
        BY <4>1, <4>2
    <3>3. CASE ~deployment.override /\ ~deployment.owned
      BY <3>3 DEF Candidates
    <3> QED
      BY <3>1, <3>2, <3>3
  <2>2. found \in Seq(Owned \cap present)
    BY <2>1, SiftedKeeps
  <2> HIDE DEF present, found
  <2>3. \A q \in Seq(Owned \cap present) : q \in Seq(Owned)
    OBVIOUS
  <2> QED
    BY <2>2, <2>3
<1>3. CASE found = <<>>
  <2>1. /\ progress' = "failed" /\ path' = path
        /\ \E code : report' = [code |-> code, names |-> {}]
    BY <1>3 DEF Locate, GiveUp
  <2>2. StartupTypes' /\ Launched'
    BY <1>1, <2>1 DEF StartupInv, StartupTypes, Launched
  <2> QED
    BY <1>1, <2>1, <2>2, ConfigStays, AttributesStay, SilentReport DEF StartupInv
<1>4. CASE found # <<>>
  <2>1. path' = found[1] /\ progress' = "snapshot" /\ report' = report
    BY <1>4 DEF Locate, Proceed
  <2>2. found[1] \in Owned
    <3> HIDE DEF found, Owned
    <3> QED BY <1>2, <1>4
  <2>3. StartupTypes'
    BY <1>1, <2>1, <2>2 DEF StartupInv, StartupTypes, Places
  <2>4. Launched'
    BY <2>1 DEF Launched
  <2>5. OwnedContract'
    BY <1>1, <2>1, <2>2 DEF OwnedContract
  <2>6. SecretsStayOutOfArgv' /\ RanksAreKept'
    BY <1>1 DEF StartupInv, SecretsStayOutOfArgv, RanksAreKept
  <2> QED
    BY <1>1, <2>1, <2>3, <2>4, <2>5, <2>6, AttributesStay, ReportStays DEF StartupInv
<1> QED
  BY <1>3, <1>4

LEMMA SnapshotStarts == StartupInv /\ Snapshot => StartupInv'
<1> SUFFICES ASSUME StartupInv, Snapshot PROVE StartupInv'
  OBVIOUS
<1>1. UNCHANGED <<deployment, contracts, path, resolved, described, launch, warm>>
  BY DEF Snapshot, configVars, launchVars
<1>2. progress = "snapshot" /\ progress' \in {"audit", "failed"}
  BY DEF Snapshot, Require, Proceed, GiveUp
<1>3. StartupTypes' /\ Launched'
  BY <1>1, <1>2 DEF StartupInv, StartupTypes, Launched
<1>4. DiagnosticsHoldNames'
  BY <1>1, RequireReports DEF Snapshot
<1> QED
  BY <1>1, <1>3, <1>4, ConfigStays, AttributesStay DEF StartupInv

LEMMA AuditStarts == StartupInv /\ Audit => StartupInv'
<1> SUFFICES ASSUME StartupInv, Audit PROVE StartupInv'
  OBVIOUS
<1>1. UNCHANGED <<deployment, contracts, path, resolved, described, launch, warm>>
  BY DEF Audit, launchVars
<1>2. progress = "audit" /\ progress' \in {"parse", "failed"}
  BY DEF Audit, Require, Proceed, GiveUp
<1>3. StartupTypes' /\ Launched'
  BY <1>1, <1>2 DEF StartupInv, StartupTypes, Launched
<1>4. DiagnosticsHoldNames'
  BY <1>1, RequireReports DEF Audit
<1> QED
  BY <1>1, <1>3, <1>4, ConfigStays, AttributesStay DEF StartupInv

(* The parse and the merge of the sources, under a contract that may be    *)
(* another than the audited one                                            *)
LEMMA ParseStarts == StartupInv /\ ParseArguments => StartupInv'
<1> SUFFICES ASSUME StartupInv, ParseArguments PROVE StartupInv'
  OBVIOUS
<1> DEFINE c == contracts[path]
           p == Parsed(c, deployment.argv)
<1>1. UNCHANGED <<deployment, contracts, path, described, launch, warm>>
  BY DEF ParseArguments, launchVars
<1>2. deployment \in Deployments /\ path \in Places /\ c \in Contracts \cup {None}
  BY DEF StartupInv, StartupTypes, ParseArguments
<1>3. progress = "parse" /\ progress' \in {"coerce", "failed"}
  BY DEF ParseArguments, Proceed, GiveUp
<1>4. StartupTypes' /\ Launched'
  BY <1>1, <1>2, <1>3 DEF StartupInv, StartupTypes, Launched
<1>5. CASE GiveUp("ParseFailed", {}) /\ UNCHANGED resolved
  <2>1. DiagnosticsHoldNames'
    BY <1>1, <1>5, SilentReport DEF GiveUp
  <2> QED
    BY <1>1, <1>4, <1>5, <2>1, ConfigStays, AttributesStay DEF StartupInv
<1>6. CASE c # None /\ Acceptable(p) /\ resolved' = MergeSources(p) /\ Proceed("coerce")
  <2>1. c \in Contracts
    BY <1>2, <1>6
  <2>2. /\ \A k \in DOMAIN resolved' : resolved'[k][1] = "argv" => k \notin EnvironmentOnly
        /\ \A i \in DOMAIN deployment.argv :
             deployment.argv[i].value \in
               {resolved'[k][2] : k \in {key \in DOMAIN resolved' : resolved'[key][1] = "argv"}}
        /\ \A k \in DOMAIN deployment.env :
             /\ k \in DOMAIN resolved' /\ resolved'[k][1] # "dotenv"
             /\ resolved'[k][1] = "env" => resolved'[k][2] = deployment.env[k]
    BY <1>2, <1>6, <2>1, ParseResolves
  <2>3. SecretsStayOutOfArgv'
    BY <1>1, <2>2 DEF SecretsStayOutOfArgv
  <2>4. RanksAreKept'
    BY <1>1, <2>2 DEF RanksAreKept
  <2>5. OwnedContract'
    BY <1>1 DEF StartupInv, OwnedContract
  <2>6. DiagnosticsHoldNames'
    BY <1>1, <1>6, ReportStays DEF Proceed
  <2> QED
    BY <1>1, <1>4, <2>3, <2>4, <2>5, <2>6, AttributesStay DEF StartupInv
<1>7. CASE c # None /\ GiveUp(Objection(p).code, Objection(p).names) /\ UNCHANGED resolved
  <2>1. Objection(p).names
          \cap ({a.value : a \in Options(deployment.argv)} \cup {"good", "bad"}) = {}
    BY <1>2, ObjectionHoldsNames
  <2>2. report'.names = Objection(p).names
    BY <1>7 DEF GiveUp
  <2>3. DiagnosticsHoldNames'
    BY <1>1, <2>1, <2>2 DEF DiagnosticsHoldNames
  <2> QED
    BY <1>1, <1>4, <1>7, <2>3, ConfigStays, AttributesStay DEF StartupInv
<1> QED
  BY <1>5, <1>6, <1>7 DEF ParseArguments

LEMMA CoerceStarts == StartupInv /\ Coerce => StartupInv'
<1> SUFFICES ASSUME StartupInv, Coerce PROVE StartupInv'
  OBVIOUS
<1>1. UNCHANGED <<deployment, contracts, path, resolved, described, launch, warm>>
  BY DEF Coerce, configVars, launchVars
<1>2. progress = "coerce" /\ progress' \in {"describe", "failed"}
  BY DEF Coerce, Require, Proceed, GiveUp
<1>3. StartupTypes' /\ Launched'
  BY <1>1, <1>2 DEF StartupInv, StartupTypes, Launched
<1>4. DiagnosticsHoldNames'
  BY <1>1, RequireReports DEF Coerce
<1> QED
  BY <1>1, <1>3, <1>4, ConfigStays, AttributesStay DEF StartupInv

LEMMA DescribeStarts == StartupInv /\ Describe => StartupInv'
<1> SUFFICES ASSUME StartupInv, Describe PROVE StartupInv'
  OBVIOUS
<1>1. UNCHANGED <<deployment, contracts, path, resolved, launch, warm>>
  BY DEF Describe, configVars
<1>2. progress = "describe" /\ progress' \in {"launch", "failed"}
  BY DEF Describe, Require, Proceed, GiveUp
<1>3. StartupTypes' /\ Launched'
  BY <1>1, <1>2 DEF StartupInv, StartupTypes, Launched
<1>4. AttributesAreOwned'
  BY DescribesOwned DEF StartupInv, StartupTypes
<1>5. DiagnosticsHoldNames'
  <2>1. \/ UNCHANGED report
        \/ \E code : report' = [code |-> code, names |-> {}]
        \/ report' = [code |-> "InvalidLogFilter", names |-> {"log"}]
    BY DEF Describe, Require, Proceed, GiveUp
  <2>2. CASE UNCHANGED report
    BY <1>1, <2>2, ReportStays
  <2>3. CASE \E code : report' = [code |-> code, names |-> {}]
    BY <1>1, <2>3, SilentReport
  <2>4. CASE report' = [code |-> "InvalidLogFilter", names |-> {"log"}]
    <3>1. "log" \notin {a.value : a \in Options(deployment.argv)} \cup {"good", "bad"}
      BY StartupConstants DEF StartupInv, StartupTypes, Ordinary
    <3>2. report'.names = {"log"}
      BY <2>4
    <3> QED
      BY <1>1, <3>1, <3>2 DEF DiagnosticsHoldNames
  <2> QED
    BY <2>1, <2>2, <2>3, <2>4
<1> QED
  BY <1>1, <1>3, <1>4, <1>5, ConfigStays DEF StartupInv

LEMMA LaunchStarts == StartupInv /\ Launch => StartupInv'
<1> SUFFICES ASSUME StartupInv, Launch PROVE StartupInv'
  OBVIOUS
<1>1. UNCHANGED <<deployment, contracts, path, resolved, described, warm>>
  BY DEF Launch, configVars
<1>2. /\ progress = "launch"
      /\ \/ /\ progress' = "warm" /\ report' = report
            /\ launch' = PolicyOf(deployment.remote) /\ LaunchFault(deployment) = None
         \/ progress' = "failed" /\ \E code : report' = [code |-> code, names |-> {}]
  BY DEF Launch, Proceed, GiveUp
<1>3. StartupTypes' /\ Launched'
  BY <1>1, <1>2 DEF StartupInv, StartupTypes, Launched
<1>4. DiagnosticsHoldNames'
  BY <1>1, <1>2, ReportStays, SilentReport
<1> QED
  BY <1>1, <1>3, <1>4, ConfigStays, AttributesStay DEF StartupInv

LEMMA WarmStarts == StartupInv /\ Warm => StartupInv'
<1> SUFFICES ASSUME StartupInv, Warm PROVE StartupInv'
  OBVIOUS
<1>1. UNCHANGED <<deployment, contracts, path, resolved, described, launch>>
  BY DEF Warm, configVars
<1>2. progress = "warm" /\ (progress' = "failed" \/ (progress' = "bind" /\ warm'))
  BY DEF Warm, Require, Proceed, GiveUp
<1>3. StartupTypes' /\ Launched'
  BY <1>1, <1>2 DEF StartupInv, StartupTypes, Launched
<1>4. DiagnosticsHoldNames'
  BY <1>1, RequireReports DEF Warm
<1> QED
  BY <1>1, <1>3, <1>4, ConfigStays, AttributesStay DEF StartupInv

LEMMA BindStarts == StartupInv /\ Bind => StartupInv'
<1> SUFFICES ASSUME StartupInv, Bind PROVE StartupInv'
  OBVIOUS
<1>1. UNCHANGED <<deployment, contracts, path, resolved, described, launch, warm>>
  BY DEF Bind, configVars, launchVars
<1>2. PICK free \in BOOLEAN : Require(free, "bind", "serving")
  BY DEF Bind
<1>3. progress = "bind" /\ progress' \in {"serving", "failed"}
  BY <1>2 DEF Bind, Require, Proceed, GiveUp
<1>4. StartupTypes' /\ Launched'
  BY <1>1, <1>3 DEF StartupInv, StartupTypes, Launched
<1>5. DiagnosticsHoldNames'
  BY <1>1, <1>2, RequireReports
<1> QED
  BY <1>1, <1>4, <1>5, ConfigStays, AttributesStay DEF StartupInv

LEMMA StartupStays == StartupInv /\ UNCHANGED startupVars => StartupInv'
<1> SUFFICES ASSUME StartupInv, UNCHANGED startupVars PROVE StartupInv'
  OBVIOUS
<1>1. UNCHANGED <<progress, deployment, contracts, path, resolved, described, launch, warm, report>>
  BY DEF startupVars, configVars, launchVars
<1>2. StartupTypes' /\ Launched'
  BY <1>1 DEF StartupInv, StartupTypes, Launched
<1> QED
  BY <1>1, <1>2, ConfigStays, AttributesStay, ReportStays DEF StartupInv

(* The inductive invariant of a start, whoever edits the contract between  *)
(* its uses.                                                               *)
THEOREM StartupInvariance == StartupSpec => []StartupInv
<1>1. StartupInv /\ [StartupNext]_startupVars => StartupInv'
  BY RewriteStarts, LocateStarts, SnapshotStarts, AuditStarts, ParseStarts, CoerceStarts,
     DescribeStarts, LaunchStarts, WarmStarts, BindStarts, StartupStays
  DEF StartupNext
<1> QED
  BY <1>1, InitStarts, PTL DEF StartupSpec

(* However the server is started and its contract edited, no secret comes  *)
(* from argv, ranks, ownership and diagnostics are as they should, and a   *)
(* listener is bound only behind the policy of its deployment (config,     *)
(* bootstrap, telemetry and remote.rs as ServerStartup maps them).         *)
THEOREM StartupStands == StartupSpec => []StartupIsTrue
<1>1. StartupInv => StartupIsTrue
  BY LaunchedIsBound DEF StartupInv, StartupIsTrue
<1> QED
  BY <1>1, StartupInvariance, PTL
==============================================================================
