------------------------- MODULE StartCommandProofs -------------------------
(***************************************************************************)
(* Proofs about StartCommand for every set of --join values.  The exit     *)
(* status 0 is reached only through start's own return: dockerRun has     *)
(* returned nil (so the application ended without error, and nothing can   *)
(* change that afterwards) and the deferred s.Stop has run.                *)
(***************************************************************************)
EXTENDS StartCommand, TLAPS

\* The strengthening of ExitZeroMeansClean: from the moment dockerRun has
\* returned nil the application is "ok", and status 0 is set only by Stop.
CleanInv ==
    /\ pc \in {"cancel", "stop", "end"} => app = "ok"
    /\ status = "exit0" => (pc = "end" /\ srv = "stopped")


\* TypeOK in two halves, each small enough for the SMT backend at once:
\* the main goroutine's state and the rest.
TypeMain ==
    /\ join \in Joins
    /\ pc \in {"call", "peer", "launch", "run", "cancel", "stop", "end"}
    /\ step \in 1..6
    /\ srv \in {"none", "started", "stopped"}
    /\ peers \in {"searching", "ready", "closed"}

TypeRest ==
    /\ explorer \in {"none", "running"}
    /\ expChild \in {"none", "running", "exited", "killed"}
    /\ app \in {"none", "running", "ok", "failed", "killed"}
    /\ cancelled \in BOOLEAN
    /\ status \in {"running", "exit0", "exit1", "signal"}

IInv == TypeMain /\ TypeRest /\ CleanInv

LEMMA TypeSplit == TypeOK <=> TypeMain /\ TypeRest
BY Zenon DEF TypeOK, TypeMain, TypeRest

\* Both paths of Calls have five or six calls.
LEMMA CallsLen ==
    ASSUME NEW j
    PROVE  Len(Calls(j)) \in 5..6
<1>1. CASE j = ""
      <2>1. Calls(j) = <<"Load", "Flag", "Initialize", "ServerStart", "Announce">>
            BY <1>1 DEF Calls
      <2> QED BY <2>1
<1>2. CASE j # ""
      <2>1. Calls(j) = <<"Load", "Flag", "Initialize", "ServerStart", "Join", "WriteGenesis">>
            BY <1>2 DEF Calls
      <2> QED BY <2>1
<1> QED BY <1>1, <1>2

LEMMA InitIInv == Init => IInv
<1> SUFFICES ASSUME Init PROVE IInv
    OBVIOUS
<1>1. TypeMain
      BY DEF Init, TypeMain
<1>2. TypeRest
      BY DEF Init, TypeRest
<1>3. CleanInv
      BY DEF Init, CleanInv
<1> QED BY <1>1, <1>2, <1>3 DEF IInv

LEMMA StepIInv == IInv /\ [Next]_vars => IInv'
<1> SUFFICES ASSUME IInv, [Next]_vars PROVE IInv'
    OBVIOUS
<1>1. CASE Call
      <2>1. CASE /\ pc' = IF step < Len(Calls(join)) THEN "call"
                          ELSE IF join = "" THEN "launch" ELSE "peer"
                 /\ step' = IF step < Len(Calls(join)) THEN step + 1 ELSE step
                 /\ srv' = IF Calls(join)[step] = "ServerStart" THEN "started" ELSE srv
                 /\ UNCHANGED <<join, peers, explorer, expChild, app, cancelled, status>>
            <3>1. Len(Calls(join)) \in 5..6
                  BY CallsLen
            <3>2. TypeMain'
                  <4>1. step' \in 1..6
                        <5>1. PICK k \in 5..6 : Len(Calls(join)) = k
                              BY <3>1
                        <5>2. step' = IF step < k THEN step + 1 ELSE step
                              BY <2>1, <5>1
                        <5>3. step \in 1..6
                              BY DEF IInv, TypeMain
                        <5> QED BY <5>2, <5>3
                  <4>2. pc' \in {"call", "peer", "launch", "run", "cancel", "stop", "end"}
                        BY <2>1
                  <4>3. srv' \in {"none", "started", "stopped"}
                        BY <2>1 DEF IInv, TypeMain
                  <4> QED BY <2>1, <4>1, <4>2, <4>3 DEF IInv, TypeMain
            <3>4. TypeRest'
                  BY <2>1 DEF IInv, TypeRest
            <3>3. CleanInv'
                  BY <1>1, <2>1 DEF Call, Alive, IInv, CleanInv
            <3> QED BY <3>2, <3>3, <3>4 DEF IInv
      <2>2. CASE Fatal
            BY <1>1, <2>2 DEF Call, Fatal, Alive, IInv, TypeMain, TypeRest, CleanInv
      <2> QED BY <1>1, <2>1, <2>2 DEF Call
<1>2. CASE PeerFound
      BY <1>2 DEF PeerFound, Alive, IInv, TypeMain, TypeRest, CleanInv
<1>3. CASE SearchEnd
      BY <1>3 DEF SearchEnd, Alive, IInv, TypeMain, TypeRest, CleanInv
<1>4. CASE Receive
      BY <1>4 DEF Receive, Alive, IInv, TypeMain, TypeRest, CleanInv
<1>5. CASE Launch
      BY <1>5 DEF Launch, Alive, IInv, TypeMain, TypeRest, CleanInv
<1>6. CASE AppExit
      BY <1>6 DEF AppExit, IInv, TypeMain, TypeRest, CleanInv
<1>7. CASE ExplorerExit
      BY <1>7 DEF ExplorerExit, IInv, TypeMain, TypeRest, CleanInv
<1>8. CASE Kill
      BY <1>8 DEF Kill, Alive, IInv, TypeMain, TypeRest, CleanInv
<1>9. CASE ExplorerReturn
      BY <1>9 DEF ExplorerReturn, Fatal, Alive, IInv, TypeMain, TypeRest, CleanInv
<1>10. CASE RunReturn
       BY <1>10 DEF RunReturn, Fatal, Alive, IInv, TypeMain, TypeRest, CleanInv
<1>11. CASE Cancel
       BY <1>11 DEF Cancel, Alive, IInv, TypeMain, TypeRest, CleanInv
<1>12. CASE Stop
       BY <1>12 DEF Stop, Alive, IInv, TypeMain, TypeRest, CleanInv
<1>13. CASE Interrupt
       BY <1>13 DEF Interrupt, Alive, IInv, TypeMain, TypeRest, CleanInv
<1>14. CASE Finished \/ UNCHANGED vars
       BY <1>14 DEF Finished, vars, IInv, TypeMain, TypeRest, CleanInv
<1> QED BY <1>1, <1>2, <1>3, <1>4, <1>5, <1>6, <1>7, <1>8, <1>9, <1>10,
           <1>11, <1>12, <1>13, <1>14 DEF Next

\* Every reachable state satisfies the inductive invariant.
THEOREM IInvHolds == Spec => []IInv
<1>1. Init => IInv
      BY InitIInv
<1>2. IInv /\ [Next]_vars => IInv'
      BY StepIInv
<1> QED BY <1>1, <1>2, PTL DEF Spec

\* Type correctness of the `start` model.
THEOREM TypeCorrect == Spec => []TypeOK
<1>1. IInv => TypeOK
      BY TypeSplit DEF IInv
<1> QED BY <1>1, IInvHolds, PTL

\* `start` exits with status 0 only after the application ended without
\* error and the discovery Server was stopped (the run `start` checks it).
THEOREM ExitZeroMeansCleanHolds == Spec => []ExitZeroMeansClean
<1>1. IInv => ExitZeroMeansClean
      BY DEF IInv, CleanInv, ExitZeroMeansClean
<1> QED BY <1>1, IInvHolds, PTL

=============================================================================
