--------------------------- MODULE ScaffoldProofs ---------------------------
(***************************************************************************)
(* Proofs about Scaffold for every GOPATH, set of destinations, template   *)
(* tree and number of `create` commands.  Both properties rest on what the *)
(* current command has written, `mine`: it is empty until os.Stat has      *)
(* found the destination absent, then grows by one entry per Walk step, so *)
(* that it is the first next-1 entries while extracting and the whole tree *)
(* after; and the destination holds exactly `mine` from the Stat on.       *)
(***************************************************************************)
EXTENDS Scaffold, TLAPS

Entries == {UserContent} \cup [asset : DOMAIN Assets, suffix : BOOLEAN]

\* The entries of the first k templates, each under its final name.
Written(k) == {Entry(i, FALSE) : i \in 1..k}

Working == {"extract", "tree", "build", "done"}

\* The inductive invariant.
PInv ==
    /\ pc \in {"idle", "gopath", "stat", "extract", "tree", "build", "done", "failed"}
    /\ disk \in [RootDirs -> SUBSET Entries]
    /\ next \in 1..(Len(Assets) + 1)
    /\ pc # "idle" => rootDir \in RootDirs
    /\ pc \in {"gopath", "stat"} => (mine = {} /\ next = 1)
    /\ pc = "extract" => mine = Written(next - 1)
    /\ pc \in {"tree", "build", "done"} => mine = Written(Len(Assets))
    /\ pc \in Working => disk[rootDir] = mine

LEMMA InitPInv == Init => PInv
BY DEF Init, PInv, Entries, Working

\* One Walk step adds the next template to what the command wrote.
LEMMA WrittenNext ==
    ASSUME NEW k \in Nat
    PROVE  Written(k) \cup {Entry(k + 1, FALSE)} = Written(k + 1)
<1>1. ASSUME NEW x
      PROVE  x \in Written(k) \cup {Entry(k + 1, FALSE)} <=> x \in Written(k + 1)
      <2>1. x \in Written(k + 1) <=> \E i \in 1..(k + 1) : x = Entry(i, FALSE)
            BY DEF Written
      <2>2. x \in Written(k) <=> \E i \in 1..k : x = Entry(i, FALSE)
            BY DEF Written
      <2>3. \A i : i \in 1..(k + 1) <=> (i \in 1..k \/ i = k + 1)
            OBVIOUS
      <2> QED BY <2>1, <2>2, <2>3
<1> QED BY <1>1

LEMMA StepPInv == PInv /\ [Next]_vars => PInv'
<1> SUFFICES ASSUME PInv, [Next]_vars PROVE PInv'
    OBVIOUS
<1> USE ConstAssumption
<1>1. CASE Run
      BY <1>1 DEF Run, PInv, Working
<1>2. CASE CheckGoPath
      BY <1>2 DEF CheckGoPath, Fail, PInv, Working
<1>3. CASE Stat
      <2>1. CASE /\ disk[rootDir] = {}
                 /\ pc' = "extract"
                 /\ goPkg' = TrimPrefix(rootDir, GoSrc \o Slash)
                 /\ UNCHANGED <<rootDir, next, disk, mine, attempts>>
            <3>1. mine = {} /\ next = 1
                  BY <1>3 DEF Stat, PInv
            <3>2. Written(next - 1) = {}
                  BY <3>1 DEF Written
            <3> QED BY <1>3, <2>1, <3>1, <3>2 DEF Stat, PInv, Working
      <2>2. CASE Fail
            BY <1>3, <2>2 DEF Stat, Fail, PInv, Working
      <2> QED BY <1>3, <2>1, <2>2 DEF Stat
<1>4. CASE Extract
      <2>1. pc = "extract" /\ next \in 1..Len(Assets) /\ rootDir \in RootDirs
            BY <1>4 DEF Extract, PInv
      <2>2. CASE Put(Entry(next, FALSE))
            <3>1. mine' = Written(next)
                  <4>1. mine' = Written(next - 1) \cup {Entry(next, FALSE)}
                        BY <2>1, <2>2 DEF Put, PInv
                  <4>2. Written(next - 1) \cup {Entry((next - 1) + 1, FALSE)} = Written((next - 1) + 1)
                        <5>1. next - 1 \in Nat
                              BY <2>1
                        <5> QED BY <5>1, WrittenNext
                  <4>3. (next - 1) + 1 = next
                        BY <2>1
                  <4> QED BY <4>1, <4>2, <4>3
            <3>2. disk'[rootDir] = mine'
                  BY <2>1, <2>2 DEF Put, PInv, Working
            <3>3. disk' \in [RootDirs -> SUBSET Entries]
                  <4>1. Entry(next, FALSE) \in Entries
                        <5>1. next \in DOMAIN Assets
                              BY <2>1
                        <5> QED BY <5>1 DEF Entries, Entry
                  <4> QED BY <2>1, <2>2, <4>1 DEF Put, PInv
            <3>4. next' = next + 1 /\ next' \in 1..(Len(Assets) + 1)
                  BY <2>1, <2>2 DEF Put
            <3>5. mine' = Written(next' - 1)
                  <4>1. next' - 1 = next
                        BY <2>1, <3>4
                  <4> QED BY <3>1, <4>1
            <3>6. pc' = "extract" /\ rootDir' = rootDir
                  BY <2>1, <2>2 DEF Put
            <3> QED BY <2>1, <3>2, <3>3, <3>4, <3>5, <3>6 DEF PInv, Working
      <2>3. CASE Fail
            BY <2>1, <2>3 DEF Fail, PInv, Working
      <2> QED BY <1>4, <2>2, <2>3 DEF Extract
<1>5. CASE Extracted
      BY <1>5 DEF Extracted, PInv, Working
<1>6. CASE Tree
      BY <1>6 DEF Tree, Fail, PInv, Working
<1>7. CASE Build
      BY <1>7 DEF Build, Fail, PInv, Working
<1>8. CASE Finished \/ UNCHANGED vars
      BY <1>8 DEF Finished, vars, PInv, Working
<1> QED BY <1>1, <1>2, <1>3, <1>4, <1>5, <1>6, <1>7, <1>8 DEF Next

\* Every reachable state satisfies PInv.
THEOREM PInvHolds == Spec => []PInv
BY InitPInv, StepPInv, PTL DEF Spec

\* `create` never writes into a directory that existed before it ran (the
\* run `scaffold` checks it on one instance).
THEOREM NeverClobbersHolds == Spec => []NeverClobbers
<1>1. PInv => NeverClobbers
      BY DEF PInv, Working, NeverClobbers
<1> QED BY <1>1, PInvHolds, PTL

\* A successful `create` leaves the whole template tree, under its final
\* names.
THEOREM CreatedTreeCompleteHolds == Spec => []CreatedTreeComplete
<1>1. PInv => CreatedTreeComplete
      <2> SUFFICES ASSUME PInv, pc = "done"
                   PROVE  disk[rootDir] = {Entry(i, FALSE) : i \in DOMAIN Assets}
          BY DEF CreatedTreeComplete
      <2>1. DOMAIN Assets = 1..Len(Assets)
            BY ConstAssumption
      <2> QED BY <2>1 DEF PInv, Working, Written
<1> QED BY <1>1, PInvHolds, PTL

=============================================================================
