----------------------------- MODULE Lifecycle -----------------------------
(***************************************************************************)
(* The discovery Server's lifecycle (src/unnamed/part_001, Server.Start,   *)
(* Server.Stop, Server.dhtConnect) for several OS processes that each own  *)
(* one Server over the SAME repository root, e.g. two `bitcoinx join X`    *)
(* commands of one user.  Each step of Start that calls the overlay        *)
(* library is one action; an action may fail the way the library call may, *)
(* and a failure returns from Start with whatever resources the earlier    *)
(* steps acquired.  The repo lock is the advisory file lock that           *)
(* fsrepo.Open takes and that closing the repo (directly, or through       *)
(* IpfsNode.Close) releases.  go-ipfs's plugin loader injects its          *)
(* datastore plugins into process-wide registries, so a second            *)
(* loader.LoadPlugins in one process fails: a Server gets past that step  *)
(* at most once, whatever Start, Stop, Start its caller makes.            *)
(***************************************************************************)
EXTENDS Integers, FiniteSets

CONSTANTS
    Proc,          \* processes, each running one Server on the shared root
    NoProc,        \* "nobody holds the repo lock"
    NBootstrap,    \* Len(bootstrapPeers)
    MaxStarts      \* bound on Start calls per Server (the code has none)

ASSUME ConstAssumption ==
    /\ NoProc \notin Proc
    /\ NBootstrap \in Nat
    /\ MaxStarts \in Nat \ {0}

VARIABLES
    pc,           \* where each Server is: "Stopped", a step of Start, "Online"
    lastErr,      \* result of the last Start: "none", "AlreadyRunning", "Error"
    lock,         \* holder of the repo lock, or NoProc
    nodeOpen,     \* s.node exists and has not been closed
    initialized,  \* fsrepo.IsInitialized(root): config and identity on disk
    boot,         \* boot[p][k]: progress of the dhtConnect goroutine of p's k-th Start
    chClosed,     \* s.connectedCh has been closed
    starts,       \* number of Start calls p has made
    plugins       \* the plugins are loaded (injected) in p's process

vars == <<pc, lastErr, lock, nodeOpen, initialized, boot, chClosed, starts,
          plugins>>

\* Progress of a dhtConnect goroutine: NotRunning, 0..NBootstrap peers tried, Done.
NotRunning == -1
Done == NBootstrap + 1
BootState == {NotRunning, Done} \cup 0..NBootstrap

StartSteps == {"CheckLock", "LoadPlugins", "InitRepo", "OpenRepo",
               "SetConfig", "NewNode", "NewDHT"}

TypeOK ==
    /\ pc \in [Proc -> {"Stopped", "Online"} \cup StartSteps]
    /\ lastErr \in [Proc -> {"none", "AlreadyRunning", "Error"}]
    /\ lock \in Proc \cup {NoProc}
    /\ nodeOpen \in [Proc -> BOOLEAN]
    /\ initialized \in BOOLEAN
    /\ boot \in [Proc -> [1..MaxStarts -> BootState]]
    /\ chClosed \in [Proc -> BOOLEAN]
    /\ starts \in [Proc -> 0..MaxStarts]
    /\ plugins \in [Proc -> BOOLEAN]

Init ==
    /\ pc = [p \in Proc |-> "Stopped"]
    /\ lastErr = [p \in Proc |-> "none"]
    /\ lock = NoProc
    /\ nodeOpen = [p \in Proc |-> FALSE]
    /\ initialized \in BOOLEAN
    /\ boot = [p \in Proc |-> [k \in 1..MaxStarts |-> NotRunning]]
    /\ chClosed = [p \in Proc |-> FALSE]
    /\ starts = [p \in Proc |-> 0]
    /\ plugins = [p \in Proc |-> FALSE]

-----------------------------------------------------------------------------
\* Start moves p from step `from` to step `to`.
Goto(p, from, to) ==
    /\ pc[p] = from
    /\ pc' = [pc EXCEPT ![p] = to]

\* Start returns the error e from p's current step, keeping what it holds.
Fail(p, e) ==
    /\ pc[p] \in StartSteps
    /\ pc' = [pc EXCEPT ![p] = "Stopped"]
    /\ lastErr' = [lastErr EXCEPT ![p] = e]

\* A call of Start on a Server that is not running.
StartCall(p) ==
    /\ pc[p] = "Stopped"
    /\ starts[p] < MaxStarts
    /\ pc' = [pc EXCEPT ![p] = "CheckLock"]
    /\ lastErr' = [lastErr EXCEPT ![p] = "none"]
    /\ starts' = [starts EXCEPT ![p] = @ + 1]
    /\ UNCHANGED <<lock, nodeOpen, initialized, boot, chClosed, plugins>>

\* fsrepo.LockedByOtherProcess: a lock held by another process is reported
\* as AlreadyRunning; the in-process lock table turns a lock held by p
\* itself into an error; probing a free lock may also fail (permissions).
CheckLock(p) ==
    /\ pc[p] = "CheckLock"
    /\ \/ lock \notin {NoProc, p} /\ Fail(p, "AlreadyRunning")
       \/ lock = p /\ Fail(p, "Error")
       \/ lock = NoProc /\ Fail(p, "Error")
       \/ lock = NoProc /\ Goto(p, "CheckLock", "LoadPlugins") /\ UNCHANGED lastErr
    /\ UNCHANGED <<lock, nodeOpen, initialized, boot, chClosed, starts, plugins>>

\* loader.LoadPlugins over root/plugins: it may fail reading the directory,
\* and it fails once the process has loaded the plugins before, because
\* their datastore types are already registered.
LoadPlugins(p) ==
    /\ pc[p] = "LoadPlugins"
    /\ \/ /\ ~plugins[p]
          /\ Goto(p, "LoadPlugins", "InitRepo") /\ UNCHANGED lastErr
          /\ plugins' = [plugins EXCEPT ![p] = TRUE]
       \/ Fail(p, "Error") /\ UNCHANGED plugins
    /\ UNCHANGED <<lock, nodeOpen, initialized, boot, chClosed, starts>>

\* ipfsInit: config.Init generates the identity and config, fsrepo.Init
\* writes them (re-checking IsInitialized under its own lock); either may
\* fail, and Start returns the error.
IpfsInit(p) ==
    \/ Goto(p, "InitRepo", "OpenRepo") /\ initialized' = TRUE /\ UNCHANGED lastErr
    \/ Fail(p, "Error") /\ UNCHANGED initialized

\* fsrepo.IsInitialized, and ipfsInit when it is not.
InitRepo(p) ==
    /\ pc[p] = "InitRepo"
    /\ \/ /\ initialized
          /\ Goto(p, "InitRepo", "OpenRepo") /\ UNCHANGED <<lastErr, initialized>>
       \/ /\ ~initialized
          /\ IpfsInit(p)
    /\ UNCHANGED <<lock, nodeOpen, boot, chClosed, starts, plugins>>

\* Mutant: a repo open that does not take the lock.
OpenRepoIgnoringLock(p) ==
    /\ pc[p] = "OpenRepo"
    /\ \/ /\ Goto(p, "OpenRepo", "SetConfig")
          /\ lock' = p
          /\ UNCHANGED lastErr
       \/ Fail(p, "Error") /\ UNCHANGED lock
    /\ UNCHANGED <<nodeOpen, initialized, boot, chClosed, starts, plugins>>

\* fsrepo.Open takes the repo lock, and fails (releasing it) when the lock
\* is taken or the repo cannot be read.
OpenRepo(p) ==
    /\ pc[p] = "OpenRepo"
    /\ \/ /\ lock = NoProc
          /\ Goto(p, "OpenRepo", "SetConfig")
          /\ lock' = p
          /\ UNCHANGED lastErr
       \/ Fail(p, "Error") /\ UNCHANGED lock
    /\ UNCHANGED <<nodeOpen, initialized, boot, chClosed, starts, plugins>>

\* repo.SetConfigKey("Addresses.Swarm", ...): on error Start returns without
\* closing the repo, so the lock stays held.
SetConfig(p) ==
    /\ pc[p] = "SetConfig"
    /\ \/ Goto(p, "SetConfig", "NewNode") /\ UNCHANGED lastErr
       \/ Fail(p, "Error")
    /\ UNCHANGED <<lock, nodeOpen, initialized, boot, chClosed, starts, plugins>>

\* core.NewNode: an online node over the repo; on error it tears itself
\* down, which closes the repo and releases the lock.
NewNode(p) ==
    /\ pc[p] = "NewNode"
    /\ \/ /\ Goto(p, "NewNode", "NewDHT")
          /\ nodeOpen' = [nodeOpen EXCEPT ![p] = TRUE]
          /\ UNCHANGED <<lastErr, lock>>
       \/ /\ Fail(p, "Error")
          /\ lock' = NoProc
          /\ UNCHANGED nodeOpen
    /\ UNCHANGED <<initialized, boot, chClosed, starts, plugins>>

\* dht.New, then `go s.dhtConnect(ctx)` and return nil.  On a dht.New error
\* Start returns with the node still open.
NewDHT(p) ==
    /\ pc[p] = "NewDHT"
    /\ \/ /\ Goto(p, "NewDHT", "Online")
          /\ boot' = [boot EXCEPT ![p][starts[p]] = 0]
          /\ UNCHANGED lastErr
       \/ Fail(p, "Error") /\ UNCHANGED boot
    /\ UNCHANGED <<lock, nodeOpen, initialized, chClosed, starts, plugins>>

\* Mutant: a failed Connect returns from dhtConnect without closing the
\* channel (close not deferred).
BootConnectAbortOnError(p, k) ==
    /\ boot[p][k] \in 0..(NBootstrap - 1)
    /\ boot' \in {[boot EXCEPT ![p][k] = @ + 1], [boot EXCEPT ![p][k] = Done]}
    /\ UNCHANGED <<pc, lastErr, lock, nodeOpen, initialized, chClosed, starts, plugins>>

\* dhtConnect tries bootstrap peer i+1; a failure is logged and skipped, so
\* the state is the same whether Connect succeeds or not.
BootConnect(p, k) ==
    /\ boot[p][k] \in 0..(NBootstrap - 1)
    /\ boot' = [boot EXCEPT ![p][k] = @ + 1]
    /\ UNCHANGED <<pc, lastErr, lock, nodeOpen, initialized, chClosed, starts, plugins>>

\* The deferred close(s.connectedCh).  Closing a closed channel would
\* panic; it cannot happen, because LoadPlugins lets only one Start of a
\* Server launch dhtConnect.
BootClose(p, k) ==
    /\ boot[p][k] = NBootstrap
    /\ boot' = [boot EXCEPT ![p][k] = Done]
    /\ chClosed' = [chClosed EXCEPT ![p] = TRUE]
    /\ UNCHANGED <<pc, lastErr, lock, nodeOpen, initialized, starts, plugins>>

\* Stop: s.node.Close() tears down the node and closes the repo.  Callers
\* only call it after a successful Start.
Stop(p) ==
    /\ pc[p] = "Online"
    /\ pc' = [pc EXCEPT ![p] = "Stopped"]
    /\ nodeOpen' = [nodeOpen EXCEPT ![p] = FALSE]
    /\ lock' = NoProc
    /\ UNCHANGED <<lastErr, initialized, boot, chClosed, starts, plugins>>

\* Every Server has made all its Start calls and is stopped.
Finished ==
    /\ \A p \in Proc : pc[p] = "Stopped" /\ starts[p] = MaxStarts
    /\ \A p \in Proc, k \in 1..MaxStarts : boot[p][k] \in {NotRunning, Done}
    /\ UNCHANGED vars

StartStep(p) ==
    \/ CheckLock(p) \/ LoadPlugins(p) \/ InitRepo(p) \/ OpenRepo(p)
    \/ SetConfig(p) \/ NewNode(p) \/ NewDHT(p)

Next ==
    \/ \E p \in Proc : StartCall(p) \/ StartStep(p) \/ Stop(p)
    \/ \E p \in Proc, k \in 1..MaxStarts : BootConnect(p, k) \/ BootClose(p, k)
    \/ Finished

\* The bootstrap goroutine is always scheduled again while it has work.
Fairness ==
    \A p \in Proc, k \in 1..MaxStarts :
        WF_vars(BootConnect(p, k)) /\ WF_vars(BootClose(p, k))

Spec == Init /\ [][Next]_vars /\ Fairness

-----------------------------------------------------------------------------
(* Properties                                                              *)

\* At most one live overlay node per root across the machine (spec 3): no
\* interleaving of two processes' Start, Stop and failure paths leaves two
\* Servers with an open node over the same repository.
OneNodePerRoot ==
    \A p, q \in Proc : nodeOpen[p] /\ nodeOpen[q] => p = q

\* Once Start has returned nil, the bootstrap goroutine eventually closes
\* connectedCh, whatever happens to the connections (spec 4.2), so the
\* waits in Announce and Peers end.
ReadinessFires ==
    \A p \in Proc : (pc[p] = "Online") ~> chClosed[p]

\* A Start that returns an error leaves nothing acquired behind: neither the
\* repo lock nor an open node (spec 4.1).
NoLeakOnFailedStart ==
    \A p \in Proc :
        (pc[p] = "Stopped" /\ lastErr[p] # "none") => (lock # p /\ ~nodeOpen[p])

====
