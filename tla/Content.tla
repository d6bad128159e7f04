------------------------------ MODULE Content ------------------------------
(***************************************************************************)
(* Server.Publish and Server.Join of src/unnamed/part_001.  Publish hard-  *)
(* links the manifest, genesis and image files into a fresh temporary      *)
(* directory under the names chainkit.yml, genesis.json and image.tgz and  *)
(* adds the directory to the content store; the directory's content ID is  *)
(* the chain ID.  Join fetches the three names under /ipfs/<chainID>.      *)
(*                                                                         *)
(* Content addressing is taken as collision-free, so a content ID is       *)
(* represented by the directory it names.  The chain ID a user passes to   *)
(* `join` is any ID: one this node published, another directory in the    *)
(* store, or one whose content no reachable peer holds.                    *)
(***************************************************************************)
EXTENDS Naturals

CONSTANTS
    Val,          \* file contents
    Missing,      \* "no such file" on the local disk
    Foreign,      \* directories already in the store, not published here
    Unreachable,  \* a content ID nobody serves
    MaxPublish,   \* bound on the sandboxes Publish creates
    MayJoinUnreachable  \* whether the user may pass an ID nobody serves

\* The artifacts, and the file names Publish stores them under and Join reads.
Art == {"manifest", "genesis", "image"}

\* Mutant: the genesis and image files linked under each other's names.
PublishNameSwapped == [a \in Art |-> CASE a = "manifest" -> "chainkit.yml"
                                       [] a = "genesis"  -> "image.tgz"
                                       [] a = "image"    -> "genesis.json"]

PublishName == [a \in Art |-> CASE a = "manifest" -> "chainkit.yml"
                                [] a = "genesis"  -> "genesis.json"
                                [] a = "image"    -> "image.tgz"]

JoinName == [a \in Art |-> CASE a = "manifest" -> "chainkit.yml"
                             [] a = "genesis"  -> "genesis.json"
                             [] a = "image"    -> "image.tgz"]

FileName == {"chainkit.yml", "genesis.json", "image.tgz"}

\* A directory of the store: some of the file names, each with a content.
Dir == UNION {[N -> Val] : N \in SUBSET FileName}

ASSUME ConstAssumption ==
    /\ Missing \notin Val
    /\ Foreign \subseteq Dir
    /\ Unreachable \notin Dir
    /\ MaxPublish \in Nat
    /\ MayJoinUnreachable \in BOOLEAN

\* The order of Publish's steps and of Join's fetches.
LinkOrder == <<"manifest", "genesis", "image">>
PubStep == {"idle", "TempDir", "Stat", "Link", "Serial", "Add"}
JoinStep == {"idle", "manifest", "genesis", "image", "done", "failed"}

VARIABLES
    disk,       \* disk[a]: the file the caller passes for artifact a
    store,      \* directories the content store holds
    pub,        \* pub.step, pub.i (next link), pub.dir (the sandbox's files)
    sandboxes,  \* temporary directories created and never removed
    published,  \* chain IDs Publish has returned
    join,       \* join.step, join.id (the chain ID), join.got (fetched files)
    info        \* the NetworkInfo Join returned: [Art -> Val], or <<>>

vars == <<disk, store, pub, sandboxes, published, join, info>>

TypeOK ==
    /\ disk \in [Art -> Val \cup {Missing}]
    /\ store \in SUBSET Dir
    /\ pub.step \in PubStep /\ pub.i \in 1..4 /\ pub.dir \in Dir
    /\ sandboxes \in 0..MaxPublish
    /\ published \subseteq Dir
    /\ join.step \in JoinStep
    /\ join.id \in Dir \cup {Unreachable}
    /\ join.got \in UNION {[A -> Val] : A \in SUBSET Art}
    /\ info \in [Art -> Val] \cup {<<>>}

Init ==
    /\ disk \in [Art -> Val \cup {Missing}]
    /\ store = Foreign
    /\ pub = [step |-> "idle", i |-> 1, dir |-> <<>>]
    /\ sandboxes = 0
    /\ published = {}
    /\ join = [step |-> "idle", id |-> Unreachable, got |-> <<>>]
    /\ info = <<>>

-----------------------------------------------------------------------------
(* Publish                                                                  *)
PubFail ==
    /\ pub' = [pub EXCEPT !.step = "idle"]
    /\ UNCHANGED <<store, published>>

PublishCall ==
    /\ pub.step = "idle"
    /\ sandboxes < MaxPublish
    /\ pub' = [step |-> "TempDir", i |-> 1, dir |-> <<>>]
    /\ UNCHANGED <<disk, store, sandboxes, published, join, info>>

\* ioutil.TempDir creates the sandbox (or fails), then os.Stat on it.
PublishTempDir ==
    /\ pub.step = "TempDir"
    /\ \/ pub' = [pub EXCEPT !.step = "Stat"] /\ sandboxes' = sandboxes + 1
       \/ PubFail /\ UNCHANGED sandboxes
    /\ UNCHANGED <<disk, store, published, join, info>>

PublishStat ==
    /\ pub.step = "Stat"
    /\ \/ pub' = [pub EXCEPT !.step = "Link"]
       \/ PubFail
    /\ UNCHANGED <<disk, store, sandboxes, published, join, info>>

\* os.Link of the next artifact into the sandbox; it fails when the file
\* does not exist (or cannot be linked), and Publish returns.
PublishLink ==
    /\ pub.step = "Link"
    /\ LET a == LinkOrder[pub.i]
           name == PublishName[a]
       IN \/ /\ disk[a] # Missing
             /\ pub' = [pub EXCEPT
                          !.i = @ + 1,
                          !.step = IF pub.i = 3 THEN "Serial" ELSE "Link",
                          !.dir = [n \in DOMAIN pub.dir \cup {name} |->
                                     IF n = name THEN disk[a] ELSE pub.dir[n]]]
          \/ PubFail
    /\ UNCHANGED <<disk, store, sandboxes, published, join, info>>

\* files.NewSerialFile over the sandbox.
PublishSerial ==
    /\ pub.step = "Serial"
    /\ \/ pub' = [pub EXCEPT !.step = "Add"]
       \/ PubFail
    /\ UNCHANGED <<disk, store, sandboxes, published, join, info>>

\* Unixfs().Add stores the directory; its CID is returned.
PublishAdd ==
    /\ pub.step = "Add"
    /\ \/ /\ store' = store \cup {pub.dir}
          /\ published' = published \cup {pub.dir}
          /\ pub' = [pub EXCEPT !.step = "idle"]
       \/ PubFail
    /\ UNCHANGED <<disk, sandboxes, join, info>>

(* Join                                                                     *)
\* `join <chainID>`: one Join call for an ID the user has.
JoinCall ==
    /\ join.step = "idle"
    /\ \E id \in store \cup (IF MayJoinUnreachable THEN {Unreachable} ELSE {}) :
          join' = [step |-> "manifest", id |-> id, got |-> <<>>]
    /\ UNCHANGED <<disk, store, pub, sandboxes, published, info>>

\* Mutant: the error of the image's Get is not checked (the image path's
\* error already is not), and Join returns without an image.
JoinFetchIgnoringImageError ==
    /\ join.step \in Art
    /\ join.id # Unreachable
    /\ LET a == join.step
           name == JoinName[a]
           next == IF a = "manifest" THEN "genesis"
                   ELSE IF a = "genesis" THEN "image" ELSE "done"
       IN \/ /\ name \in DOMAIN join.id
             /\ join' = [join EXCEPT
                           !.step = next,
                           !.got = [b \in DOMAIN @ \cup {a} |->
                                      IF b = a THEN join.id[name] ELSE @[b]]]
             /\ info' = IF next = "done" THEN join'.got ELSE info
          \/ /\ a = "image" /\ name \notin DOMAIN join.id
             /\ join' = [join EXCEPT !.step = "done"]
             /\ info' = join.got
          \/ /\ name \in DOMAIN join.id \/ a # "image"
             /\ join' = [join EXCEPT !.step = "failed"]
             /\ UNCHANGED info
    /\ UNCHANGED <<disk, store, pub, sandboxes, published>>

\* Unixfs().Get of /ipfs/<id>/<name> and, for the manifest and genesis,
\* ioutil.ReadAll.  Get does not return while no peer serves the ID (the
\* context of `join` has no deadline); it fails at once when the directory
\* has no such name, and any Get (or ReadAll) may fail on a present name.
\* After the image, the NetworkInfo is returned.
JoinFetch ==
    /\ join.step \in Art
    /\ join.id # Unreachable
    /\ LET a == join.step
           name == JoinName[a]
           next == IF a = "manifest" THEN "genesis"
                   ELSE IF a = "genesis" THEN "image" ELSE "done"
       IN \/ /\ name \in DOMAIN join.id
             /\ join' = [join EXCEPT
                           !.step = next,
                           !.got = [b \in DOMAIN @ \cup {a} |->
                                      IF b = a THEN join.id[name] ELSE @[b]]]
             /\ info' = IF next = "done" THEN join'.got ELSE info
          \/ /\ join' = [join EXCEPT !.step = "failed"]
             /\ UNCHANGED info
    /\ UNCHANGED <<disk, store, pub, sandboxes, published>>

\* The calls are over: Publish has used its sandboxes and Join has been
\* called and cannot step (it returned, or waits on its Get forever).
Finished ==
    /\ pub.step = "idle" /\ sandboxes = MaxPublish
    /\ join.step # "idle" /\ ~ENABLED JoinFetch
    /\ UNCHANGED vars

Next ==
    \/ Finished
    \/ PublishCall \/ PublishTempDir \/ PublishStat \/ PublishLink
    \/ PublishSerial \/ PublishAdd
    \/ JoinCall \/ JoinFetch

\* Publish's steps and a reachable Join make progress.
Fairness == WF_vars(JoinFetch)

Spec == Init /\ [][Next]_vars /\ Fairness

-----------------------------------------------------------------------------
(* Properties                                                              *)

\* Join returns all or nothing (spec 4.4, 7, 9): a NetworkInfo it returns
\* has every artifact, each the file of that name under the chain ID; a
\* directory without one of them, the image included, makes Join fail.
JoinNeverPartial ==
    join.step = "done" =>
        \A a \in Art : /\ a \in DOMAIN info
                      /\ JoinName[a] \in DOMAIN join.id
                      /\ info[a] = join.id[JoinName[a]]

\* Publish then Join gives back the files (spec 8): joining a chain ID
\* that Publish returned yields, artifact by artifact, the contents of the
\* files that were published.
RoundTrip ==
    (join.step = "done" /\ join.id \in published) =>
        \A a \in Art : a \in DOMAIN info /\ info[a] = disk[a]

\* Join on any chain ID eventually returns, with the network information
\* or with an error such as ContentNotFound (spec 4.4, 7).
JoinReturns ==
    (join.step \in Art) ~> (join.step \in {"done", "failed"})

=============================================================================
