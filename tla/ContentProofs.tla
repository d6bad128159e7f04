---------------------------- MODULE ContentProofs ----------------------------
(***************************************************************************)
(* Proofs about Content for every set of file contents, foreign            *)
(* directories and bound on Publish calls.  Join keeps, step by step, the  *)
(* files it has fetched so far, each the one of its name under the chain   *)
(* ID, and returns them only after the last one; Publish's sandbox holds,  *)
(* link by link, the caller's files under their names, and only a full     *)
(* sandbox is added.  The caller's files do not change.                    *)
(***************************************************************************)
EXTENDS Content, TLAPS

\* Artifact a is in directory d under its published name, with the
\* caller's file as content.
Linked(d, a) == PublishName[a] \in DOMAIN d /\ d[PublishName[a]] = disk[a]

\* What Join has fetched when it is at a given step.
Fetched(st) ==
    CASE st = "manifest" -> {}
      [] st = "genesis"  -> {"manifest"}
      [] st = "image"    -> {"manifest", "genesis"}
      [] st = "done"     -> Art

\* pub and join are records with their three fields.
RecInv ==
    /\ pub = [step |-> pub.step, i |-> pub.i, dir |-> pub.dir]
    /\ pub.step \in PubStep /\ pub.i \in 1..4
    /\ join = [step |-> join.step, id |-> join.id, got |-> join.got]
    /\ join.step \in JoinStep

\* Join's fetched files, and the NetworkInfo it returned.
JoinInv ==
    /\ join.step \in Art \cup {"done"} =>
          /\ DOMAIN join.got = Fetched(join.step)
          /\ \A b \in Fetched(join.step) :
                /\ JoinName[b] \in DOMAIN join.id
                /\ join.got[b] = join.id[JoinName[b]]
    /\ join.step = "done" => info = join.got

\* Publish's sandbox and what it published.
PubInv ==
    /\ pub.step \in {"Link", "Serial", "Add"} =>
          \A j \in 1..(pub.i - 1) : Linked(pub.dir, LinkOrder[j])
    /\ pub.step \in {"TempDir", "Stat"} => pub.i = 1
    /\ pub.step = "Link" => pub.i \in 1..3
    /\ pub.step \in {"Serial", "Add"} => pub.i = 4
    /\ \A d \in published : \A a \in Art : Linked(d, a)

IInv == RecInv /\ JoinInv /\ PubInv

LEMMA InitIInv == Init => IInv
<1> SUFFICES ASSUME Init PROVE IInv
    OBVIOUS
<1>1. RecInv
      BY DEF Init, RecInv, PubStep, JoinStep
<1>2. JoinInv
      BY DEF Init, JoinInv, Art
<1>3. PubInv
      BY DEF Init, PubInv
<1> QED BY <1>1, <1>2, <1>3 DEF IInv

\* Every artifact comes at some position of LinkOrder.
LEMMA LinkOrderCovers == \A a \in Art : \E j \in 1..3 : LinkOrder[j] = a
BY DEF Art, LinkOrder

LEMMA StepIInv == IInv /\ [Next]_vars => IInv'
<1> SUFFICES ASSUME IInv, [Next]_vars PROVE IInv'
    OBVIOUS
<1> USE ConstAssumption
<1>1. CASE PublishCall
      <2>1. RecInv'
            BY <1>1 DEF PublishCall, IInv, RecInv, PubStep, JoinStep
      <2>2. JoinInv'
            BY <1>1 DEF PublishCall, IInv, RecInv, JoinInv, Fetched
      <2>3. PubInv'
            BY <1>1 DEF PublishCall, IInv, RecInv, PubInv, Linked
      <2> QED BY <2>1, <2>2, <2>3 DEF IInv
<1>2. CASE PublishTempDir
      <2>1. RecInv'
            BY <1>2 DEF PublishTempDir, PubFail, IInv, RecInv, PubStep, JoinStep
      <2>2. JoinInv'
            BY <1>2 DEF PublishTempDir, PubFail, IInv, RecInv, JoinInv, Fetched
      <2>3. PubInv'
            BY <1>2 DEF PublishTempDir, PubFail, IInv, RecInv, PubInv, Linked
      <2> QED BY <2>1, <2>2, <2>3 DEF IInv
<1>3. CASE PublishStat
      <2>1. RecInv'
            BY <1>3 DEF PublishStat, PubFail, IInv, RecInv, PubStep, JoinStep
      <2>2. JoinInv'
            BY <1>3 DEF PublishStat, PubFail, IInv, RecInv, JoinInv, Fetched
      <2>3. PubInv'
            BY <1>3 DEF PublishStat, PubFail, IInv, RecInv, PubInv, Linked
      <2> QED BY <2>1, <2>2, <2>3 DEF IInv
<1>4. CASE PublishLink
      <2> DEFINE a == LinkOrder[pub.i]
                 name == PublishName[a]
                 dir2 == [n \in DOMAIN pub.dir \cup {name} |->
                            IF n = name THEN disk[a] ELSE pub.dir[n]]
      <2>1. pub.step = "Link" /\ pub.i \in 1..3 /\ UNCHANGED <<disk, published, join, info>>
            BY <1>4 DEF PublishLink, IInv, PubInv, RecInv
      <2>2. CASE /\ disk[a] # Missing
                 /\ pub' = [pub EXCEPT !.i = @ + 1,
                                       !.step = IF pub.i = 3 THEN "Serial" ELSE "Link",
                                       !.dir = dir2]
            <3>1. pub' = [step |-> IF pub.i = 3 THEN "Serial" ELSE "Link", i |-> pub.i + 1, dir |-> dir2]
                  BY <2>2 DEF IInv, RecInv
            <3>2. RecInv'
                  BY <2>1, <3>1 DEF IInv, RecInv, PubStep
            <3>3. JoinInv'
                  BY <2>1 DEF IInv, JoinInv
            <3>4. \A j \in 1..pub.i : Linked(dir2, LinkOrder[j])
                  <4>1. \A j \in 1..(pub.i - 1) : Linked(pub.dir, LinkOrder[j])
                        BY <2>1 DEF IInv, PubInv
                  <4>2. \A j \in 1..(pub.i - 1) : PublishName[LinkOrder[j]] # name
                        BY <2>1 DEF PublishName, LinkOrder, Art
                  <4> QED BY <2>1, <4>1, <4>2 DEF Linked
            <3>5. PubInv'
                  <4>0. pub'.i - 1 = pub.i /\ pub'.dir = dir2
                        BY <2>1, <3>1
                  <4>1. \A j \in 1..(pub'.i - 1) : Linked(pub.dir, LinkOrder[j])'
                        BY <2>1, <4>0, <3>4 DEF Linked
                  <4>2. /\ pub'.step \notin {"TempDir", "Stat"}
                        /\ pub'.step = "Link" => pub'.i \in 1..3
                        /\ pub'.step \in {"Serial", "Add"} => pub'.i = 4
                        BY <2>1, <3>1
                  <4>3. \A d \in published' : \A b \in Art : Linked(d, b)'
                        BY <2>1 DEF IInv, PubInv, Linked
                  <4> QED BY <4>1, <4>2, <4>3 DEF PubInv
            <3> QED BY <3>2, <3>3, <3>5 DEF IInv
      <2>3. CASE PubFail
            <3>1. pub' = [step |-> "idle", i |-> pub.i, dir |-> pub.dir]
                  BY <2>3 DEF PubFail, IInv, RecInv
            <3> QED BY <2>1, <2>3, <3>1 DEF PubFail, IInv, RecInv, PubStep, JoinInv, PubInv, Linked
      <2> QED BY <1>4, <2>2, <2>3 DEF PublishLink
<1>5. CASE PublishSerial
      <2>1. RecInv'
            BY <1>5 DEF PublishSerial, PubFail, IInv, RecInv, PubStep, JoinStep
      <2>2. JoinInv'
            BY <1>5 DEF PublishSerial, PubFail, IInv, RecInv, JoinInv, Fetched
      <2>3. PubInv'
            BY <1>5 DEF PublishSerial, PubFail, IInv, RecInv, PubInv, Linked
      <2> QED BY <2>1, <2>2, <2>3 DEF IInv
<1>6. CASE PublishAdd
      <2>1. pub.step = "Add" /\ pub.i = 4 /\ UNCHANGED <<disk, join, info>>
            BY <1>6 DEF PublishAdd, IInv, PubInv, RecInv
      <2>2. \A a \in Art : Linked(pub.dir, a)
            <3>1. \A j \in 1..3 : Linked(pub.dir, LinkOrder[j])
                  BY <2>1 DEF IInv, PubInv
            <3> QED BY <3>1, LinkOrderCovers
      <2>3. CASE /\ store' = store \cup {pub.dir}
                 /\ published' = published \cup {pub.dir}
                 /\ pub' = [pub EXCEPT !.step = "idle"]
            <3>1. pub' = [step |-> "idle", i |-> pub.i, dir |-> pub.dir]
                  BY <2>3 DEF IInv, RecInv
            <3>2. RecInv' /\ JoinInv'
                  BY <2>1, <3>1 DEF IInv, RecInv, PubStep, JoinInv
            <3>3. PubInv'
                  BY <2>1, <2>2, <2>3, <3>1 DEF IInv, PubInv, Linked
            <3> QED BY <3>2, <3>3 DEF IInv
      <2>4. CASE PubFail
            <3>1. pub' = [step |-> "idle", i |-> pub.i, dir |-> pub.dir]
                  BY <2>4 DEF PubFail, IInv, RecInv
            <3> QED BY <2>1, <2>4, <3>1 DEF PubFail, IInv, RecInv, PubStep, JoinInv, PubInv, Linked
      <2> QED BY <1>6, <2>3, <2>4 DEF PublishAdd
<1>7. CASE JoinCall
      <2>1. RecInv'
            BY <1>7 DEF JoinCall, IInv, RecInv, PubStep, JoinStep
      <2>2. JoinInv'
            BY <1>7 DEF JoinCall, IInv, RecInv, JoinInv, Fetched
      <2>3. PubInv'
            BY <1>7 DEF JoinCall, IInv, RecInv, PubInv, Linked
      <2> QED BY <2>1, <2>2, <2>3 DEF IInv
<1>8. CASE JoinFetch
      <2> DEFINE a == join.step
                 name == JoinName[a]
                 next == IF a = "manifest" THEN "genesis"
                         ELSE IF a = "genesis" THEN "image" ELSE "done"
                 got2 == [b \in DOMAIN join.got \cup {a} |->
                            IF b = a THEN join.id[name] ELSE join.got[b]]
      <2>1. join.step \in Art /\ UNCHANGED <<disk, store, pub, sandboxes, published>>
            BY <1>8 DEF JoinFetch
      <2>2. PubInv' /\ RecInv!1' /\ RecInv!2'
            BY <2>1 DEF IInv, PubInv, Linked, RecInv
      <2>3. CASE /\ name \in DOMAIN join.id
                 /\ join' = [join EXCEPT !.step = next, !.got = got2]
                 /\ info' = IF next = "done" THEN join'.got ELSE info
            <3>1. join' = [step |-> next, id |-> join.id, got |-> got2]
                  BY <2>3 DEF IInv, RecInv
            <3>2. Fetched(next) = Fetched(a) \cup {a}
                  BY <2>1 DEF Fetched, Art
            <3>3. next \in Art \cup {"done"}
                  BY <2>1 DEF Art
            <3>4. DOMAIN got2 = Fetched(next)
                  BY <2>1, <3>2 DEF IInv, JoinInv
            <3>5. \A b \in Fetched(next) : JoinName[b] \in DOMAIN join.id /\ got2[b] = join.id[JoinName[b]]
                  BY <2>1, <2>3, <3>2 DEF IInv, JoinInv
            <3>6. JoinInv'
                  BY <2>3, <3>1, <3>3, <3>4, <3>5 DEF JoinInv
            <3>7. RecInv'
                  BY <2>2, <3>1, <3>3 DEF RecInv, JoinStep, Art
            <3> QED BY <2>2, <3>6, <3>7 DEF IInv
      <2>4. CASE /\ join' = [join EXCEPT !.step = "failed"]
                 /\ UNCHANGED info
            <3>1. join' = [step |-> "failed", id |-> join.id, got |-> join.got]
                  BY <2>4 DEF IInv, RecInv
            <3> QED BY <2>2, <2>4, <3>1 DEF IInv, RecInv, JoinInv, JoinStep, Art
      <2> QED BY <1>8, <2>3, <2>4 DEF JoinFetch
<1>9. CASE Finished \/ UNCHANGED vars
      <2>1. UNCHANGED vars
            BY <1>9 DEF Finished
      <2> QED BY <2>1 DEF vars, IInv, RecInv, JoinInv, PubInv, Linked, Fetched
<1> QED BY <1>1, <1>2, <1>3, <1>4, <1>5, <1>6, <1>7, <1>8, <1>9 DEF Next

\* Every reachable state satisfies the inductive invariant.
THEOREM IInvHolds == Spec => []IInv
BY InitIInv, StepIInv, PTL DEF Spec

\* Join returns all or nothing, for any chain ID and any directory behind
\* it: a NetworkInfo it returns has every artifact, each the file of that
\* name under the ID (the run `content` checks it on one instance).
THEOREM JoinNeverPartialHolds == Spec => []JoinNeverPartial
<1>1. IInv => JoinNeverPartial
      <2> SUFFICES ASSUME IInv, join.step = "done"
                   PROVE  \A a \in Art : /\ a \in DOMAIN info
                                        /\ JoinName[a] \in DOMAIN join.id
                                        /\ info[a] = join.id[JoinName[a]]
          BY DEF JoinNeverPartial
      <2>1. Fetched(join.step) = Art
            BY DEF Fetched
      <2> QED BY <2>1 DEF IInv, JoinInv, Art
<1> QED BY <1>1, IInvHolds, PTL

\* Publish stores each artifact under the name Join reads it by.
LEMMA SameNames == \A a \in Art : PublishName[a] = JoinName[a]
BY DEF PublishName, JoinName, Art

\* Publish then Join gives back the caller's files, for any contents and
\* number of Publish calls (the run `content` checks it on one instance).
THEOREM RoundTripHolds == Spec => []RoundTrip
<1>1. IInv /\ JoinNeverPartial => RoundTrip
      <2> SUFFICES ASSUME IInv, JoinNeverPartial, join.step = "done", join.id \in published,
                          NEW a \in Art
                   PROVE  a \in DOMAIN info /\ info[a] = disk[a]
          BY DEF RoundTrip
      <2>1. Linked(join.id, a)
            BY DEF IInv, PubInv
      <2>2. a \in DOMAIN info /\ info[a] = join.id[JoinName[a]]
            BY DEF JoinNeverPartial
      <2> QED BY <2>1, <2>2, SameNames DEF Linked
<1> QED BY <1>1, IInvHolds, JoinNeverPartialHolds, PTL

=============================================================================
