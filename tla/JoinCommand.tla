---------------------------- MODULE JoinCommand ----------------------------
(***************************************************************************)
(* The `bitcoinx join <chainID>` command (src/unnamed/part_000, joinCmd's  *)
(* Run): allocate ports, Start the discovery Server (Stop deferred), Join  *)
(* the chain, write the manifest, load the project, run the node's Start   *)
(* in a goroutine that reports on the unbuffered errCh, install the        *)
(* SIGINT/SIGTERM handler on a channel of capacity 1, and select on the    *)
(* two.  ui.Fatal is os.Exit(1): the deferred Stop does not run.           *)
(*                                                                         *)
(* The Server's and the node's own steps are modelled elsewhere (Lifecycle, *)
(* Content) or outside src/; here each call is one step that succeeds or   *)
(* fails.  Several commands may join the same chain at once: they share   *)
(* the root networks/<chainID>, whose repo lock (taken by Start, released   *)
(* by Stop or by the process's exit) lets only one Start succeed.  The     *)
(* user may press Ctrl-C in each terminal at any moment, MaxSignals times. *)
(***************************************************************************)
EXTENDS Naturals

CONSTANTS
    Cmd,         \* the `join` processes, all for one chain ID
    NoCmd,       \* "nobody holds the repo lock"
    MaxSignals,  \* bound on the signals the user sends to each
    SigBuffer    \* capacity of the channel given to signal.Notify (1)

ASSUME ConstAssumption ==
    /\ NoCmd \notin Cmd
    /\ MaxSignals \in Nat
    /\ SigBuffer \in Nat

\* The fallible calls of Run before the node is launched, in order.
Calls == <<"AllocatePorts", "Start", "Join", "WriteManifest", "Project">>

VARIABLES
    pc,        \* where Run is: a call of Calls, "launch", "notify", "select", "exited"
    how,       \* how the process ended: "none", "fatal", "killed", "returned"
    lock,      \* the command whose discovery Server holds the repo lock, or NoCmd
    app,       \* n.Start: "none", "running", "returned" (blocked on errCh), "reported", "stopped"
    notified,  \* signal.Notify has been called
    pending,   \* signals buffered in c
    sent       \* signals the user has sent

vars == <<pc, how, lock, app, notified, pending, sent>>

TypeOK ==
    /\ pc \in [Cmd -> {Calls[i] : i \in 1..5} \cup {"launch", "notify", "select", "exited"}]
    /\ how \in [Cmd -> {"none", "fatal", "killed", "returned"}]
    /\ lock \in Cmd \cup {NoCmd}
    /\ app \in [Cmd -> {"none", "running", "returned", "reported", "stopped"}]
    /\ notified \in [Cmd -> BOOLEAN]
    /\ pending \in [Cmd -> 0..SigBuffer]
    /\ sent \in [Cmd -> 0..MaxSignals]

Init ==
    /\ pc = [c \in Cmd |-> Calls[1]]
    /\ how = [c \in Cmd |-> "none"]
    /\ lock = NoCmd
    /\ app = [c \in Cmd |-> "none"]
    /\ notified = [c \in Cmd |-> FALSE]
    /\ pending = [c \in Cmd |-> 0]
    /\ sent = [c \in Cmd |-> 0]

-----------------------------------------------------------------------------
\* The process of c ends; the OS releases the lock it held.
Exit(c, h) ==
    /\ pc' = [pc EXCEPT ![c] = "exited"]
    /\ how' = [how EXCEPT ![c] = h]
    /\ lock' = IF lock = c THEN NoCmd ELSE lock

\* The call Calls[i] returns; on error Run ends in ui.Fatal (os.Exit(1),
\* skipping every deferred call).  d.Start succeeds only on a free repo
\* lock, and takes it.
Call(c, i) ==
    /\ pc[c] = Calls[i]
    /\ \/ /\ Calls[i] # "Start" \/ lock = NoCmd
          /\ pc' = [pc EXCEPT ![c] = IF i = 5 THEN "launch" ELSE Calls[i + 1]]
          /\ lock' = IF Calls[i] = "Start" THEN c ELSE lock
          /\ UNCHANGED how
       \/ Exit(c, "fatal")
    /\ UNCHANGED <<app, notified, pending, sent>>

\* errCh := make(chan error); go func(){ defer close(errCh); errCh <- n.Start(...) }()
Launch(c) ==
    /\ pc[c] = "launch"
    /\ pc' = [pc EXCEPT ![c] = "notify"]
    /\ app' = [app EXCEPT ![c] = "running"]
    /\ UNCHANGED <<how, lock, notified, pending, sent>>

\* c := make(chan os.Signal, 1); signal.Notify(c, SIGINT, SIGTERM)
Notify(c) ==
    /\ pc[c] = "notify"
    /\ pc' = [pc EXCEPT ![c] = "select"]
    /\ notified' = [notified EXCEPT ![c] = TRUE]
    /\ UNCHANGED <<how, lock, app, pending, sent>>

\* The node's Start returns and its goroutine blocks on `errCh <- err`.
AppReturn(c) ==
    /\ pc[c] # "exited"
    /\ app[c] = "running"
    /\ app' = [app EXCEPT ![c] = "returned"]
    /\ UNCHANGED <<pc, how, lock, notified, pending, sent>>

\* Mutant: an off-by-one in the room left in c, which drops every signal.
SignalOffByOne(c) ==
    /\ pc[c] # "exited"
    /\ sent[c] < MaxSignals
    /\ sent' = [sent EXCEPT ![c] = @ + 1]
    /\ \/ /\ ~notified[c]
          /\ Exit(c, "killed")
          /\ UNCHANGED pending
       \/ /\ notified[c]
          /\ pending' = [pending EXCEPT ![c] = IF @ + 1 < SigBuffer THEN @ + 1 ELSE @]
          /\ UNCHANGED <<pc, how, lock>>
    /\ UNCHANGED <<app, notified>>

\* The user sends SIGINT.  Before signal.Notify the Go runtime's default
\* action ends the process at once.  After it, the runtime delivers the
\* signal into c without blocking: it is dropped when c is full.
Signal(c) ==
    /\ pc[c] # "exited"
    /\ sent[c] < MaxSignals
    /\ sent' = [sent EXCEPT ![c] = @ + 1]
    /\ \/ /\ ~notified[c]
          /\ Exit(c, "killed")
          /\ UNCHANGED pending
       \/ /\ notified[c]
          /\ pending' = [pending EXCEPT ![c] = IF @ < SigBuffer THEN @ + 1 ELSE @]
          /\ UNCHANGED <<pc, how, lock>>
    /\ UNCHANGED <<app, notified>>

\* `case err := <-errCh`: the error is printed, Run returns, d.Stop runs.
SelectErr(c) ==
    /\ pc[c] = "select"
    /\ app[c] = "returned"
    /\ app' = [app EXCEPT ![c] = "reported"]
    /\ Exit(c, "returned")
    /\ UNCHANGED <<notified, pending, sent>>

\* `case sig := <-c`: n.Stop(), Run returns, d.Stop runs.
SelectSignal(c) ==
    /\ pc[c] = "select"
    /\ pending[c] > 0
    /\ pending' = [pending EXCEPT ![c] = @ - 1]
    /\ app' = [app EXCEPT ![c] = IF @ = "running" THEN "stopped" ELSE @]
    /\ Exit(c, "returned")
    /\ UNCHANGED <<notified, sent>>

\* Every process has ended, or waits in select on a node that runs on with
\* no signal left to send.
Finished ==
    /\ \A c \in Cmd :
          \/ pc[c] = "exited"
          \/ /\ pc[c] = "select" /\ app[c] = "running"
             /\ pending[c] = 0 /\ sent[c] = MaxSignals
    /\ UNCHANGED vars

Next ==
    \/ \E c \in Cmd :
          \/ \E i \in 1..5 : Call(c, i)
          \/ Launch(c) \/ Notify(c) \/ AppReturn(c) \/ Signal(c)
          \/ SelectErr(c) \/ SelectSignal(c)
    \/ Finished

\* Run's own steps are scheduled, except d.Join: it runs under
\* context.Background() and never returns for a chain ID nobody serves.
\* The node may run for ever, and the user may never press Ctrl-C.
Fairness ==
    \A c \in Cmd :
        /\ \A i \in 1..5 : Calls[i] # "Join" => WF_vars(Call(c, i))
        /\ WF_vars(Launch(c)) /\ WF_vars(Notify(c))
        /\ WF_vars(SelectErr(c)) /\ WF_vars(SelectSignal(c))

Spec == Init /\ [][Next]_vars /\ Fairness

-----------------------------------------------------------------------------
(* Properties                                                              *)

\* Ctrl-C ends the command: once the user has sent a signal to a `join`
\* process, it eventually exits, whether the signal arrived before
\* signal.Notify, before the select, or while it waits.
SignalEndsCommand ==
    \A c \in Cmd : (sent[c] > 0) ~> (pc[c] = "exited")

=============================================================================
