--------------------------- MODULE PeerExchange ---------------------------
(***************************************************************************)
(* Server.Announce and Server.Peers of src/unnamed/part_001 on a set of    *)
(* running nodes that all use one network identifier (chain ID).           *)
(*                                                                         *)
(* Announce waits on connectedCh, decodes the chain ID, registers the      *)
(* /chainkit/0.1.0 stream handler that writes the node's PeerInfo, then    *)
(* Provides the ID on the DHT under a 10 s timeout.  Peers waits on        *)
(* connectedCh, decodes the ID and starts a goroutine that ranges over     *)
(* FindProvidersAsync(tctx, id, 10), and for each candidate other than     *)
(* itself with known addresses opens a stream (on ctx), decodes one        *)
(* PeerInfo and sends it on the unbuffered channel returned to the caller. *)
(*                                                                         *)
(* The DHT is the external collaborator: a provider record store that a    *)
(* query reads in an arbitrary order, at most once per provider, into a    *)
(* channel buffered with the limit, until the limit is reached, the query  *)
(* context ends or the search gives up.  A PeerInfo is abstracted to the   *)
(* node it describes; the IPv4 addresses appended to it are not modelled.  *)
(***************************************************************************)
EXTENDS Naturals, Sequences, FiniteSets

CONSTANTS
    Node,              \* running nodes (one Server each)
    Searchers,         \* the nodes whose callers call Peers
    NoNode,            \* "no candidate"
    Limit              \* the count passed to FindProvidersAsync (10)

ASSUME ConstAssumption ==
    /\ NoNode \notin Node
    /\ Searchers \subseteq Node
    /\ Limit \in Nat \ {0}

VARIABLES
    ready,      \* ready[n]: n's connectedCh is closed
    ann,        \* ann[n]: n's Announce call
    handler,    \* handler[n]: n serves /chainkit/0.1.0
    providers,  \* nodes with a provider record for the chain ID in the DHT
    sp,         \* sp[s]: s's Peers call and its goroutine
    found,      \* found[s]: providers s's DHT query has already emitted
    buf,        \* buf[s]: the buffered channel FindProvidersAsync returned
    qOpen,      \* qOpen[s]: the DHT query has not closed that channel yet
    expired,    \* expired[s]: tctx's 10 s deadline has passed
    cancelled,  \* cancelled[s]: the caller cancelled ctx
    prod,       \* prod[s]: where the goroutine is in its loop body
    cand,       \* cand[s]: the candidate it is working on
    reading,    \* reading[s]: the caller still receives from the channel
    delivered   \* delivered[s]: nodes whose PeerInfo the caller received

vars == <<ready, ann, handler, providers, sp, found, buf, qOpen, expired,
          cancelled, prod, cand, reading, delivered>>

\* A provider as the DHT reports it: its ID and whether it has addresses.
Candidate == [id : Node, addrs : BOOLEAN]

AnnPhase == {"idle", "waiting", "providing", "ok", "timeout", "error"}
SearchPhase == {"idle", "waiting", "running", "closed", "error"}
ProdPhase == {"range", "open", "decode", "send"}

TypeOK ==
    /\ ready \in [Node -> BOOLEAN]
    /\ ann \in [Node -> AnnPhase]
    /\ handler \in [Node -> BOOLEAN]
    /\ providers \in SUBSET Node
    /\ sp \in [Node -> SearchPhase]
    /\ found \in [Node -> SUBSET Node]
    /\ buf \in [Node -> Seq(Candidate)]
    /\ qOpen \in [Node -> BOOLEAN]
    /\ expired \in [Node -> BOOLEAN]
    /\ cancelled \in [Node -> BOOLEAN]
    /\ prod \in [Node -> ProdPhase]
    /\ cand \in [Node -> Node \cup {NoNode}]
    /\ reading \in [Node -> BOOLEAN]
    /\ delivered \in [Node -> SUBSET Node]

Init ==
    /\ ready = [n \in Node |-> FALSE]
    /\ ann = [n \in Node |-> "idle"]
    /\ handler = [n \in Node |-> FALSE]
    /\ providers = {}
    /\ sp = [n \in Node |-> "idle"]
    /\ found = [n \in Node |-> {}]
    /\ buf = [n \in Node |-> <<>>]
    /\ qOpen = [n \in Node |-> FALSE]
    /\ expired = [n \in Node |-> FALSE]
    /\ cancelled = [n \in Node |-> FALSE]
    /\ prod = [n \in Node |-> "range"]
    /\ cand = [n \in Node |-> NoNode]
    /\ reading = [n \in Node |-> TRUE]
    /\ delivered = [n \in Node |-> {}]

SearchVars == <<sp, found, buf, qOpen, expired, cancelled, prod, cand,
                reading, delivered>>

-----------------------------------------------------------------------------
(* Bootstrap (modelled in Lifecycle): n's dhtConnect closes connectedCh.   *)
Bootstrapped(n) ==
    /\ ~ready[n]
    /\ ready' = [ready EXCEPT ![n] = TRUE]
    /\ UNCHANGED <<ann, handler, providers, SearchVars>>

(* Announce                                                                *)
AnnounceCall(n) ==
    /\ ann[n] = "idle"
    /\ ann' = [ann EXCEPT ![n] = "waiting"]
    /\ UNCHANGED <<ready, handler, providers, SearchVars>>

\* Mutant: the record is provided before any handler is registered.
AnnounceProvideFirst(n) ==
    /\ ann[n] = "waiting"
    /\ ready[n]
    /\ \/ ann' = [ann EXCEPT ![n] = "providing"] /\ providers' = providers \cup {n}
       \/ ann' = [ann EXCEPT ![n] = "error"] /\ UNCHANGED providers
    /\ UNCHANGED <<ready, handler, SearchVars>>

\* `<-s.connectedCh`, cid.Decode, then SetStreamHandler.
AnnounceRegister(n) ==
    /\ ann[n] = "waiting"
    /\ ready[n]
    /\ \/ /\ ann' = [ann EXCEPT ![n] = "providing"]
          /\ handler' = [handler EXCEPT ![n] = TRUE]
       \/ ann' = [ann EXCEPT ![n] = "error"] /\ UNCHANGED handler
    /\ UNCHANGED <<ready, providers, SearchVars>>

\* s.dht.Provide(cctx, id, true) with cctx = 10 s.  The record is stored on
\* success; a timeout or an error may come after it was stored already.
AnnounceProvide(n) ==
    /\ ann[n] = "providing"
    /\ \/ ann' = [ann EXCEPT ![n] = "ok"] /\ providers' = providers \cup {n}
       \/ /\ \E r \in {"timeout", "error"} : ann' = [ann EXCEPT ![n] = r]
          /\ providers' \in {providers, providers \cup {n}}
    /\ UNCHANGED <<ready, handler, SearchVars>>

(* Peers: the call                                                          *)
PeersCall(s) ==
    /\ sp[s] = "idle"
    /\ sp' = [sp EXCEPT ![s] = "waiting"]
    /\ UNCHANGED <<ready, ann, handler, providers, found, buf, qOpen, expired,
                   cancelled, prod, cand, reading, delivered>>

\* `<-s.connectedCh`, cid.Decode, then `go func` and return ch; the
\* goroutine's first act is FindProvidersAsync.
PeersStart(s) ==
    /\ sp[s] = "waiting"
    /\ ready[s]
    /\ \/ sp' = [sp EXCEPT ![s] = "running"] /\ qOpen' = [qOpen EXCEPT ![s] = TRUE]
       \/ sp' = [sp EXCEPT ![s] = "error"] /\ UNCHANGED qOpen
    /\ UNCHANGED <<ready, ann, handler, providers, found, buf, expired,
                   cancelled, prod, cand, reading, delivered>>

(* Peers: the DHT query, the deadline and the caller                       *)
\* The query puts one more provider into the buffered channel; the buffer
\* holds Limit, so this never blocks.
DhtEmit(s) ==
    /\ qOpen[s]
    /\ ~expired[s] /\ ~cancelled[s]
    /\ Cardinality(found[s]) < Limit
    /\ \E p \in providers \ found[s], a \in BOOLEAN :
          /\ buf' = [buf EXCEPT ![s] = Append(@, [id |-> p, addrs |-> a])]
          /\ found' = [found EXCEPT ![s] = @ \cup {p}]
    /\ UNCHANGED <<ready, ann, handler, providers, sp, qOpen, expired,
                   cancelled, prod, cand, reading, delivered>>

\* The query closes its channel: limit reached, tctx done, or nothing more
\* to be found.
DhtClose(s) ==
    /\ qOpen[s]
    /\ qOpen' = [qOpen EXCEPT ![s] = FALSE]
    /\ UNCHANGED <<ready, ann, handler, providers, sp, found, buf, expired,
                   cancelled, prod, cand, reading, delivered>>

\* tctx's deadline passes.
Timeout(s) ==
    /\ sp[s] = "running"
    /\ ~expired[s]
    /\ expired' = [expired EXCEPT ![s] = TRUE]
    /\ UNCHANGED <<ready, ann, handler, providers, sp, found, buf, qOpen,
                   cancelled, prod, cand, reading, delivered>>

\* The caller cancels ctx (which also ends tctx).
Cancel(s) ==
    /\ sp[s] \in {"running", "closed"}
    /\ ~cancelled[s]
    /\ cancelled' = [cancelled EXCEPT ![s] = TRUE]
    /\ UNCHANGED <<ready, ann, handler, providers, sp, found, buf, qOpen,
                   expired, prod, cand, reading, delivered>>

\* The caller stops receiving from the channel and cancels ctx.
Leave(s) ==
    /\ sp[s] = "running"
    /\ reading[s]
    /\ reading' = [reading EXCEPT ![s] = FALSE]
    /\ cancelled' = [cancelled EXCEPT ![s] = TRUE]
    /\ UNCHANGED <<ready, ann, handler, providers, sp, found, buf, qOpen,
                   expired, prod, cand, delivered>>

(* Peers: the goroutine's loop                                              *)
\* Mutant: no check of p.ID against the local node's ID.
RangeNoSelfFilter(s) ==
    /\ sp[s] = "running"
    /\ prod[s] = "range"
    /\ \/ /\ buf[s] # <<>>
          /\ buf' = [buf EXCEPT ![s] = Tail(@)]
          /\ IF Head(buf[s]).addrs
             THEN prod' = [prod EXCEPT ![s] = "open"] /\ cand' = [cand EXCEPT ![s] = Head(buf[s]).id]
             ELSE UNCHANGED <<prod, cand>>
          /\ UNCHANGED sp
       \/ /\ buf[s] = <<>>
          /\ ~qOpen[s]
          /\ sp' = [sp EXCEPT ![s] = "closed"]
          /\ UNCHANGED <<buf, prod, cand>>
    /\ UNCHANGED <<ready, ann, handler, providers, found, qOpen, expired,
                   cancelled, reading, delivered>>

\* Mutant: after the loop the goroutine waits for ctx to be done before
\* closing the channel.
RangeCloseOnCtxDone(s) ==
    /\ sp[s] = "running"
    /\ prod[s] = "range"
    /\ \/ /\ buf[s] # <<>>
          /\ buf' = [buf EXCEPT ![s] = Tail(@)]
          /\ LET c == Head(buf[s]) IN
               IF c.id # s /\ c.addrs
               THEN prod' = [prod EXCEPT ![s] = "open"] /\ cand' = [cand EXCEPT ![s] = c.id]
               ELSE UNCHANGED <<prod, cand>>
          /\ UNCHANGED sp
       \/ /\ buf[s] = <<>>
          /\ ~qOpen[s] /\ cancelled[s]
          /\ sp' = [sp EXCEPT ![s] = "closed"]
          /\ UNCHANGED <<buf, prod, cand>>
    /\ UNCHANGED <<ready, ann, handler, providers, found, qOpen, expired,
                   cancelled, reading, delivered>>

\* `for p := range peers`: the next buffered candidate, skipped when it is
\* this node or has no addresses; the loop ends, and the deferred close(ch)
\* runs, once the channel is closed and drained.
Range(s) ==
    /\ sp[s] = "running"
    /\ prod[s] = "range"
    /\ \/ /\ buf[s] # <<>>
          /\ buf' = [buf EXCEPT ![s] = Tail(@)]
          /\ LET c == Head(buf[s]) IN
               IF c.id # s /\ c.addrs
               THEN prod' = [prod EXCEPT ![s] = "open"] /\ cand' = [cand EXCEPT ![s] = c.id]
               ELSE UNCHANGED <<prod, cand>>
          /\ UNCHANGED sp
       \/ /\ buf[s] = <<>>
          /\ ~qOpen[s]
          /\ sp' = [sp EXCEPT ![s] = "closed"]
          /\ UNCHANGED <<buf, prod, cand>>
    /\ UNCHANGED <<ready, ann, handler, providers, found, qOpen, expired,
                   cancelled, reading, delivered>>

\* NewStream(ctx, p.ID, "/chainkit/0.1.0"): fails when ctx is cancelled or
\* the peer has no handler for the protocol, and may fail to dial.
OpenStream(s) ==
    /\ prod[s] = "open"
    /\ \/ /\ ~cancelled[s] /\ handler[cand[s]]
          /\ prod' = [prod EXCEPT ![s] = "decode"]
       \/ prod' = [prod EXCEPT ![s] = "range"]
    /\ UNCHANGED <<ready, ann, handler, providers, sp, found, buf, qOpen,
                   expired, cancelled, cand, reading, delivered>>

\* json Decode of the PeerInfo the peer's handler encodes; on error the
\* candidate is skipped.  On success its IPv4 addresses are appended.
Decode(s) ==
    /\ prod[s] = "decode"
    /\ prod' \in {[prod EXCEPT ![s] = "send"], [prod EXCEPT ![s] = "range"]}
    /\ UNCHANGED <<ready, ann, handler, providers, sp, found, buf, qOpen,
                   expired, cancelled, cand, reading, delivered>>

\* `ch <- peer` on the unbuffered channel: the hand-off to a reading caller.
Receive(s) ==
    /\ prod[s] = "send"
    /\ reading[s]
    /\ delivered' = [delivered EXCEPT ![s] = @ \cup {cand[s]}]
    /\ prod' = [prod EXCEPT ![s] = "range"]
    /\ UNCHANGED <<ready, ann, handler, providers, sp, found, buf, qOpen,
                   expired, cancelled, cand, reading>>

-----------------------------------------------------------------------------
\* All calls have returned and every goroutine has ended or waits forever
\* on a send nobody receives.
Finished ==
    /\ \A n \in Node :
          /\ ann[n] \in {"idle", "ok", "timeout", "error"}
          /\ \/ sp[n] \in {"idle", "closed", "error"}
             \/ sp[n] = "running" /\ prod[n] = "send" /\ ~reading[n]
    /\ UNCHANGED vars

Goroutine(s) ==
    Range(s) \/ OpenStream(s) \/ Decode(s) \/ Receive(s)

Next ==
    \/ \E n \in Node :
          Bootstrapped(n) \/ AnnounceCall(n) \/ AnnounceRegister(n) \/ AnnounceProvide(n)
    \/ \E s \in Searchers :
          \/ PeersCall(s) \/ PeersStart(s)
          \/ DhtEmit(s) \/ DhtClose(s) \/ Timeout(s) \/ Cancel(s) \/ Leave(s)
          \/ Goroutine(s)
    \/ Finished

\* The bootstrap goroutine, the DHT query, the 10 s timer, the search
\* goroutine and a reading caller all keep running.
Fairness ==
    \A n \in Node :
        /\ WF_vars(Bootstrapped(n))
        /\ WF_vars(AnnounceRegister(n)) /\ WF_vars(AnnounceProvide(n))
        /\ WF_vars(PeersStart(n))
        /\ WF_vars(DhtClose(n)) /\ WF_vars(Timeout(n))
        /\ WF_vars(Goroutine(n))

Spec == Init /\ [][Next]_vars /\ Fairness

-----------------------------------------------------------------------------
(* Properties                                                              *)

\* Peers never hands its caller the local node's own PeerInfo (spec 4.5,
\* 8), although the DHT reports the local node as a provider once it has
\* announced the same chain ID.
NoSelfRecord ==
    \A s \in Node : s \notin delivered[s]

\* A node is findable only once it can answer: whenever the DHT holds a
\* provider record of n, n's stream handler is registered (Announce
\* registers it before Provide, spec 4.5), including after a Provide that
\* timed out or failed; and every PeerInfo a caller received was served by
\* such a handler.
FindableNodesAnswer ==
    /\ \A n \in providers : handler[n]
    /\ \A s \in Node : \A n \in delivered[s] : handler[n] /\ n \in providers

\* A search goroutine whose caller keeps reading its channel ends and
\* closes the channel: after the deadline or a cancellation the DHT query
\* closes its channel and the loop drains what is buffered.
SearchEndsWhileRead ==
    \A s \in Node :
        [](sp[s] = "running" /\ []reading[s] => <>(sp[s] = "closed"))

\* Every search goroutine ends and closes its channel, whatever its caller
\* does (spec 4.5, 5: the emitting task stops on timeout, cancellation or
\* exhaustion, and promptly when the consumer abandons the sequence).
SearchEnds ==
    \A s \in Node : (sp[s] = "running") ~> (sp[s] = "closed")

====
