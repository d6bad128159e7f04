---------------------------- MODULE StartCommand ----------------------------
(***************************************************************************)
(* The `start [--join <id>]` command of src/cmd/start.go.  Run loads the   *)
(* project and the --join flag; start() initializes, starts the discovery  *)
(* Server (Stop deferred), announces a new network or joins one (writing   *)
(* its genesis and taking one value from the peer channel), then launches  *)
(* the explorer in a goroutine, defers cancel() and runs the application   *)
(* with dockerRun until it ends.  ui.Fatal is os.Exit(1), from whichever   *)
(* goroutine calls it: the deferred calls do not run.                      *)
(*                                                                         *)
(* docker and dockerRun (outside src/) run a `docker run` child process    *)
(* under ctx: it is killed when ctx is cancelled, and the call then        *)
(* returns an error, as exec.CommandContext does.  A child process         *)
(* outlives the exit of the command.  The peer channel is fed by the       *)
(* Server's search, which ends, and closes it, within its timeout.         *)
(***************************************************************************)

EXTENDS Naturals, Sequences

CONSTANT Joins   \* the values of the --join flag: "" and a chain ID

ASSUME ConstAssumption == "" \in Joins

\* The fallible calls before the network is live, in order, on each path.
Calls(j) ==
    IF j = "" THEN <<"Load", "Flag", "Initialize", "ServerStart", "Announce">>
              ELSE <<"Load", "Flag", "Initialize", "ServerStart", "Join", "WriteGenesis">>

VARIABLES
    join,       \* the --join flag
    pc,         \* main: a call of Calls(join), "peer", "launch", "run", "cancel", "stop", "end"
    step,       \* the index of the call pc is at
    srv,        \* the discovery Server: "none", "started", "stopped"
    peers,      \* the peer channel: "searching", "ready" (a peer to take), "closed"
    explorer,   \* the startExplorer goroutine: "none", "running"
    expChild,   \* its `docker run`: "none", "running", "exited", "killed"
    app,        \* dockerRun's child: "none", "running", "ok", "failed", "killed"
    cancelled,  \* cancel() has been called
    status      \* the process: "running", "exit0", "exit1", or "signal"

vars == <<join, pc, step, srv, peers, explorer, expChild, app, cancelled, status>>

TypeOK ==
    /\ join \in Joins
    /\ pc \in {"call", "peer", "launch", "run", "cancel", "stop", "end"}
    /\ step \in 1..6
    /\ srv \in {"none", "started", "stopped"}
    /\ peers \in {"searching", "ready", "closed"}
    /\ explorer \in {"none", "running"}
    /\ expChild \in {"none", "running", "exited", "killed"}
    /\ app \in {"none", "running", "ok", "failed", "killed"}
    /\ cancelled \in BOOLEAN
    /\ status \in {"running", "exit0", "exit1", "signal"}

Init ==
    /\ join \in Joins
    /\ pc = "call"
    /\ step = 1
    /\ srv = "none"
    /\ peers = "searching"
    /\ explorer = "none"
    /\ expChild = "none"
    /\ app = "none"
    /\ cancelled = FALSE
    /\ status = "running"

Alive == status = "running"

\* ui.Fatal: os.Exit(1); no deferred call runs, no goroutine goes on.
Fatal ==
    /\ status' = "exit1"
    /\ UNCHANGED <<join, pc, step, srv, peers, explorer, expChild, app, cancelled>>

-----------------------------------------------------------------------------
\* project.Load, Flags().GetString("join"), initialize, discovery.New and
\* s.Start, then s.Announce, or s.Join and ioutil.WriteFile of the genesis:
\* each returns, or its error ends in ui.Fatal.  A started Server has its
\* Stop deferred.
Call ==
    /\ Alive
    /\ pc = "call"
    /\ \/ /\ pc' = IF step < Len(Calls(join)) THEN "call"
                   ELSE IF join = "" THEN "launch" ELSE "peer"
          /\ step' = IF step < Len(Calls(join)) THEN step + 1 ELSE step
          /\ srv' = IF Calls(join)[step] = "ServerStart" THEN "started" ELSE srv
          /\ UNCHANGED <<join, peers, explorer, expChild, app, cancelled, status>>
       \/ Fatal

\* The Server's search finds a provider and offers it on the channel.
PeerFound ==
    /\ Alive
    /\ join # "" /\ srv = "started"
    /\ peers = "searching"
    /\ peers' = "ready"
    /\ UNCHANGED <<join, pc, step, srv, explorer, expChild, app, cancelled, status>>

\* The search ends and the channel is closed.
SearchEnd ==
    /\ Alive
    /\ join # "" /\ srv = "started"
    /\ peers = "searching"
    /\ peers' = "closed"
    /\ UNCHANGED <<join, pc, step, srv, explorer, expChild, app, cancelled, status>>

\* peer := <-peerCh; ui.Info("Peer: %v", peer.Addrs): it takes the offered
\* peer, or the zero value once the channel is closed.
Receive ==
    /\ Alive
    /\ pc = "peer"
    /\ peers \in {"ready", "closed"}
    /\ pc' = "launch"
    /\ UNCHANGED <<join, step, srv, peers, explorer, expChild, app, cancelled, status>>

\* defer cancel(); go startExplorer(ctx, p); dockerRun(ctx, p, "start").
Launch ==
    /\ Alive
    /\ pc = "launch"
    /\ pc' = "run"
    /\ explorer' = "running"
    /\ expChild' = "running"
    /\ app' = "running"
    /\ UNCHANGED <<join, step, srv, peers, cancelled, status>>

\* A `docker run` child ends on its own: the application with or without
\* an error, the explorer (a server) with one.
AppExit ==
    /\ app = "running"
    /\ app' \in {"ok", "failed"}
    /\ UNCHANGED <<join, pc, step, srv, peers, explorer, expChild, cancelled, status>>

ExplorerExit ==
    /\ expChild = "running"
    /\ expChild' = "exited"
    /\ UNCHANGED <<join, pc, step, srv, peers, explorer, app, cancelled, status>>

\* The user presses Ctrl-C: start installs no handler, so the Go runtime's
\* default action ends the process; the `docker run` children, in the same
\* foreground process group, get the signal too and end.
Interrupt ==
    /\ Alive
    /\ status' = "signal"
    /\ app' = IF app = "running" THEN "killed" ELSE app
    /\ expChild' = IF expChild = "running" THEN "killed" ELSE expChild
    /\ UNCHANGED <<join, pc, step, srv, peers, explorer, cancelled>>

\* exec.CommandContext's watcher kills a child once ctx is cancelled.
Kill ==
    /\ Alive
    /\ cancelled
    /\ \/ app = "running" /\ app' = "killed" /\ UNCHANGED expChild
       \/ expChild = "running" /\ expChild' = "killed" /\ UNCHANGED app
    /\ UNCHANGED <<join, pc, step, srv, peers, explorer, cancelled, status>>

\* docker() returns in startExplorer: an error ends in
\* ui.Fatal("Failed to start the Explorer").
ExplorerReturn ==
    /\ Alive
    /\ explorer = "running"
    /\ expChild \in {"exited", "killed"}
    /\ Fatal

\* Mutant: dockerRun's error is not checked.
RunIgnoringError ==
    /\ Alive
    /\ pc = "run"
    /\ app \in {"ok", "failed", "killed"}
    /\ pc' = "cancel"
    /\ UNCHANGED <<join, step, srv, peers, explorer, expChild, app, cancelled, status>>

\* dockerRun returns: an error ends in ui.Fatal, nil lets start return.
RunReturn ==
    /\ Alive
    /\ pc = "run"
    /\ \/ app = "ok" /\ pc' = "cancel"
          /\ UNCHANGED <<join, step, srv, peers, explorer, expChild, app, cancelled, status>>
       \/ app \in {"failed", "killed"} /\ Fatal

\* start returns: its deferred calls run last-in first-out, cancel() then
\* s.Stop(); main returns and the process exits with status 0.
Cancel ==
    /\ Alive
    /\ pc = "cancel"
    /\ pc' = "stop"
    /\ cancelled' = TRUE
    /\ UNCHANGED <<join, step, srv, peers, explorer, expChild, app, status>>

Stop ==
    /\ Alive
    /\ pc = "stop"
    /\ pc' = "end"
    /\ srv' = "stopped"
    /\ status' = "exit0"
    /\ UNCHANGED <<join, step, peers, explorer, expChild, app, cancelled>>

\* The process has exited; its children may run on.
Finished ==
    /\ ~Alive
    /\ UNCHANGED vars

Next ==
    \/ Call \/ PeerFound \/ SearchEnd \/ Receive \/ Launch
    \/ AppExit \/ ExplorerExit \/ Kill \/ ExplorerReturn
    \/ RunReturn \/ Cancel \/ Stop \/ Interrupt
    \/ Finished

\* The command's goroutines, the exec watcher and the Server's search are
\* scheduled, but s.Join may never return: its ctx (context.WithCancel of
\* Background) has no deadline.  The containers may run for ever and the
\* user may never press Ctrl-C.
Fairness ==
    /\ WF_vars(Call /\ Calls(join)[step] # "Join")
    /\ WF_vars(Receive) /\ WF_vars(Launch)
    /\ WF_vars(RunReturn) /\ WF_vars(Cancel) /\ WF_vars(Stop)
    /\ WF_vars(ExplorerReturn) /\ WF_vars(Kill) /\ WF_vars(SearchEnd)

Spec == Init /\ [][Next]_vars /\ Fairness

-----------------------------------------------------------------------------
(* Properties                                                              *)

\* The exit status tells the truth: the command exits with status 0 only
\* once the application has ended without error and the discovery Server
\* has been stopped.
ExitZeroMeansClean ==
    status = "exit0" => (app = "ok" /\ srv = "stopped")

\* A clean end is clean: once the application has ended without error, and
\* neither the explorer failed on its own nor the user pressed Ctrl-C, the
\* command stops the Server, exits with status 0 and leaves no explorer
\* container running.
CleanEnd ==
    (~Alive /\ app = "ok" /\ expChild # "exited" /\ status # "signal")
        => (status = "exit0" /\ srv = "stopped" /\ expChild # "running")

=============================================================================
