-------------------------- MODULE LifecycleProofs --------------------------
(***************************************************************************)
(* Proofs about Lifecycle for every set of processes, every number of      *)
(* bootstrap peers and every bound on Start calls.                         *)
(***************************************************************************)
EXTENDS Lifecycle, TLAPS

\* The steps of Start between the lock probe and the creation of the node.
PreNodeSteps == {"LoadPlugins", "InitRepo", "OpenRepo", "SetConfig", "NewNode"}

\* How the repo lock relates to each Server: the lock is held by p from a
\* successful fsrepo.Open until the node over it is closed (a Start that
\* returns after that keeps it, a Start that gets past the probe has no
\* node yet), and a Server that created its node has it open until it is
\* stopped.
LockInv ==
    \A p \in Proc :
        /\ (nodeOpen[p] \/ pc[p] \in {"SetConfig", "NewNode"}) => lock = p
        /\ pc[p] \in {"NewDHT", "Online"} => nodeOpen[p]
        /\ pc[p] \in PreNodeSteps => ~nodeOpen[p]

IInv == TypeOK /\ LockInv

-----------------------------------------------------------------------------
\* Overwriting one entry of a function with a value of its range, at an
\* argument that may lie outside its domain, keeps its type.
LEMMA ExceptType ==
    ASSUME NEW S, NEW T, NEW f \in [S -> T], NEW x, NEW v \in T
    PROVE  [f EXCEPT ![x] = v] \in [S -> T]
<1>1. DOMAIN [f EXCEPT ![x] = v] = S
  OBVIOUS
<1>2. \A y \in S : [f EXCEPT ![x] = v][y] \in T
  OBVIOUS
<1>3. QED
  BY <1>1, <1>2, Zenon

LEMMA TypeInit == Init => TypeOK
BY ConstAssumption DEF Init, TypeOK, BootState, NotRunning, Done

LEMMA TypeStep == TypeOK /\ [Next]_vars => TypeOK'
<1> SUFFICES ASSUME TypeOK, [Next]_vars PROVE TypeOK'
  OBVIOUS
<1> USE ConstAssumption DEF TypeOK, StartSteps, BootState, NotRunning, Done
<1>1. ASSUME NEW p \in Proc, StartCall(p) PROVE TypeOK'
  BY <1>1 DEF StartCall
<1>2. ASSUME NEW p \in Proc, CheckLock(p) PROVE TypeOK'
  BY <1>2 DEF CheckLock, Goto, Fail
<1>3. ASSUME NEW p \in Proc, LoadPlugins(p) PROVE TypeOK'
  BY <1>3 DEF LoadPlugins, Goto, Fail
<1>4. ASSUME NEW p \in Proc, InitRepo(p) PROVE TypeOK'
  BY <1>4 DEF InitRepo, IpfsInit, Goto, Fail
<1>5. ASSUME NEW p \in Proc, OpenRepo(p) PROVE TypeOK'
  BY <1>5 DEF OpenRepo, Goto, Fail
<1>6. ASSUME NEW p \in Proc, SetConfig(p) PROVE TypeOK'
  BY <1>6 DEF SetConfig, Goto, Fail
<1>7. ASSUME NEW p \in Proc, NewNode(p) PROVE TypeOK'
  BY <1>7 DEF NewNode, Goto, Fail
<1>8. ASSUME NEW p \in Proc, NewDHT(p) PROVE TypeOK'
  <2>1. [boot EXCEPT ![p][starts[p]] = 0] \in [Proc -> [1..MaxStarts -> BootState]]
    <3>1. [boot[p] EXCEPT ![starts[p]] = 0] \in [1..MaxStarts -> BootState]
      BY ExceptType
    <3>2. QED
      BY <3>1
  <2>2. QED
    BY <1>8, <2>1 DEF NewDHT, Goto, Fail
<1>9. ASSUME NEW p \in Proc, Stop(p) PROVE TypeOK'
  BY <1>9 DEF Stop
<1>10. ASSUME NEW p \in Proc, NEW k \in 1..MaxStarts, BootConnect(p, k)
       PROVE TypeOK'
  BY <1>10 DEF BootConnect
<1>11. ASSUME NEW p \in Proc, NEW k \in 1..MaxStarts, BootClose(p, k)
       PROVE TypeOK'
  BY <1>11 DEF BootClose
<1>12. CASE Finished \/ UNCHANGED vars
  BY <1>12 DEF Finished, vars
<1>13. QED
  BY <1>1, <1>2, <1>3, <1>4, <1>5, <1>6, <1>7, <1>8, <1>9, <1>10,
   <1>11, <1>12 DEF Next, StartStep

\* Every step of Start, Stop and the bootstrap goroutine keeps the
\* variables in their types.
THEOREM TypeCorrect == Spec => []TypeOK
BY TypeInit, TypeStep, PTL DEF Spec

-----------------------------------------------------------------------------
\* LockInv is inductive (with the types).
THEOREM LockInvInductive == IInv /\ [Next]_vars => LockInv'
<1> SUFFICES ASSUME TypeOK, LockInv, [Next]_vars PROVE LockInv'
  BY DEF IInv
<1> USE DEF TypeOK, StartSteps, PreNodeSteps
<1>1. ASSUME NEW p \in Proc, StartCall(p) PROVE LockInv'
  BY <1>1 DEF StartCall, LockInv
<1>2. ASSUME NEW p \in Proc, CheckLock(p) PROVE LockInv'
  \* Passing the probe needs a free lock, so p has no open node.
  BY <1>2, ConstAssumption DEF CheckLock, Goto, Fail, LockInv
<1>3. ASSUME NEW p \in Proc, LoadPlugins(p) PROVE LockInv'
  BY <1>3 DEF LoadPlugins, Goto, Fail, LockInv
<1>4. ASSUME NEW p \in Proc, InitRepo(p) PROVE LockInv'
  BY <1>4 DEF InitRepo, IpfsInit, Goto, Fail, LockInv
<1>5. ASSUME NEW p \in Proc, OpenRepo(p) PROVE LockInv'
  \* A free lock means no other Server has a node or is past fsrepo.Open.
  BY <1>5, ConstAssumption DEF OpenRepo, Goto, Fail, LockInv
<1>6. ASSUME NEW p \in Proc, SetConfig(p) PROVE LockInv'
  BY <1>6 DEF SetConfig, Goto, Fail, LockInv
<1>7. ASSUME NEW p \in Proc, NewNode(p) PROVE LockInv'
  <2>1. CASE Goto(p, "NewNode", "NewDHT") /\ nodeOpen' = [nodeOpen EXCEPT ![p] = TRUE]
             /\ UNCHANGED <<lastErr, lock>>
    \* p held the lock at SetConfig and NewNode, and still does.
    BY <1>7, <2>1 DEF NewNode, Goto, LockInv
  <2>2. CASE Fail(p, "Error") /\ lock' = NoProc /\ UNCHANGED nodeOpen
    \* The lock, held by p, is released; p has no node, and no other
    \* Server had one or was past fsrepo.Open.
    BY <1>7, <2>2, ConstAssumption DEF NewNode, Fail, LockInv
  <2>3. QED
    BY <1>7, <2>1, <2>2 DEF NewNode
<1>8. ASSUME NEW p \in Proc, NewDHT(p) PROVE LockInv'
  BY <1>8 DEF NewDHT, Goto, Fail, LockInv
<1>9. ASSUME NEW p \in Proc, Stop(p) PROVE LockInv'
  \* An online Server holds the lock, so no other Server depends on it.
  BY <1>9, ConstAssumption DEF Stop, LockInv
<1>10. ASSUME NEW p \in Proc, NEW k \in 1..MaxStarts, BootConnect(p, k)
       PROVE LockInv'
  BY <1>10 DEF BootConnect, LockInv
<1>11. ASSUME NEW p \in Proc, NEW k \in 1..MaxStarts, BootClose(p, k)
       PROVE LockInv'
  BY <1>11, ConstAssumption DEF BootClose, LockInv
<1>12. CASE Finished \/ UNCHANGED vars
  BY <1>12 DEF Finished, vars, LockInv
<1>13. QED
  BY <1>1, <1>2, <1>3, <1>4, <1>5, <1>6, <1>7, <1>8, <1>9, <1>10,
     <1>11, <1>12 DEF Next, StartStep

\* No interleaving of Start, Stop and failures of any number of processes leaves two open overlay nodes over one root: the
\* repo lock that fsrepo.Open takes is held by every Server whose node is
\* open (spec 3, "at most one live overlay node per root").
THEOREM OneNodePerRootHolds == Spec => []OneNodePerRoot
<1>1. Init => LockInv
  BY DEF Init, LockInv, PreNodeSteps
<1>2. IInv /\ [Next]_vars => IInv'
  BY LockInvInductive, TypeStep DEF IInv
<1>3. LockInv => OneNodePerRoot
  BY DEF LockInv, OneNodePerRoot
<1>4. QED
  BY <1>1, <1>2, <1>3, TypeInit, PTL DEF Spec, IInv
-----------------------------------------------------------------------------
\* Every reachable state satisfies IInv.
THEOREM IInvHolds == Spec => []IInv
<1>1. Init => IInv
  BY TypeInit DEF Init, IInv, LockInv, PreNodeSteps
<1>2. IInv /\ [Next]_vars => IInv'
  BY LockInvInductive, TypeStep DEF IInv
<1>3. QED
  BY <1>1, <1>2, PTL DEF Spec

====
