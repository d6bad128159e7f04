------------------------- MODULE PeerExchangeProofs -------------------------
(***************************************************************************)
(* Proofs about PeerExchange for every set of nodes and searchers and      *)
(* every provider limit.  Both invariants follow the chain a PeerInfo      *)
(* travels: Announce registers the handler before the record can reach    *)
(* the DHT, a query only emits stored records, the goroutine keeps a      *)
(* candidate only when it is not itself, and the caller only receives the *)
(* goroutine's current candidate.  Nothing removes a record or a handler. *)
(***************************************************************************)
EXTENDS PeerExchange, TLAPS

\* Where a candidate is being worked on.
Busy == {"open", "decode", "send"}

\* A record is in the DHT only for a node whose handler is registered, and
\* an Announce that may still Provide has registered it.
ProvInv ==
    /\ \A n \in providers : handler[n]
    /\ \A n \in Node : ann[n] = "providing" => handler[n]

\* What flows from the DHT to the caller is a stored record: the buffered
\* candidates, the goroutine's own (never itself) and what was delivered.
FlowInv ==
    \A s \in Node :
        /\ \A i \in DOMAIN buf[s] : buf[s][i].id \in providers
        /\ prod[s] \in Busy => cand[s] \in providers \ {s}
        /\ delivered[s] \subseteq providers \ {s}

IInv == TypeOK /\ ProvInv /\ FlowInv

-----------------------------------------------------------------------------
\* TypeOK in three parts, each small enough for one backend call: the
\* Announce side, the search's control state, and the query's buffer.
TypeAnn ==
    /\ ready \in [Node -> BOOLEAN]
    /\ ann \in [Node -> AnnPhase]
    /\ handler \in [Node -> BOOLEAN]
    /\ providers \in SUBSET Node

TypeSearch ==
    /\ sp \in [Node -> SearchPhase]
    /\ found \in [Node -> SUBSET Node]
    /\ qOpen \in [Node -> BOOLEAN]
    /\ expired \in [Node -> BOOLEAN]
    /\ cancelled \in [Node -> BOOLEAN]
    /\ prod \in [Node -> ProdPhase]
    /\ cand \in [Node -> Node \cup {NoNode}]
    /\ reading \in [Node -> BOOLEAN]
    /\ delivered \in [Node -> SUBSET Node]

TypeBuf == buf \in [Node -> Seq(Candidate)]

\* The two operations on the query's buffered channel keep a sequence of
\* candidates one: a receive takes the head, the query appends.
LEMMA TailType ==
    ASSUME NEW S, NEW q \in Seq(S), q # <<>>
    PROVE  Tail(q) \in Seq(S) /\ Head(q) \in S
OBVIOUS

LEMMA AppendType ==
    ASSUME NEW S, NEW q \in Seq(S), NEW e \in S
    PROVE  Append(q, e) \in Seq(S)
OBVIOUS

LEMMA TypeSplit == TypeOK <=> TypeAnn /\ TypeSearch /\ TypeBuf
BY Zenon DEF TypeOK, TypeAnn, TypeSearch, TypeBuf

LEMMA TypeInit == Init => TypeOK
<1> SUFFICES ASSUME Init PROVE TypeAnn /\ TypeSearch /\ TypeBuf
    BY TypeSplit
<1> USE ConstAssumption DEF Init
<1>1. TypeAnn
      BY DEF TypeAnn, AnnPhase
<1>2. TypeSearch
      BY DEF TypeSearch, SearchPhase, ProdPhase
<1>3. TypeBuf
      BY DEF TypeBuf
<1> QED BY <1>1, <1>2, <1>3

\* The type is kept only together with FlowInv: the caller receives the
\* goroutine's candidate, a node since the goroutine took it from the DHT.
LEMMA TypeStep == TypeOK /\ FlowInv /\ [Next]_vars => TypeOK'
<1> SUFFICES ASSUME TypeAnn, TypeSearch, TypeBuf, FlowInv, [Next]_vars
             PROVE  TypeAnn' /\ TypeSearch' /\ TypeBuf'
    <2>1. TypeAnn' /\ TypeSearch' /\ TypeBuf' => TypeOK'
          BY Zenon DEF TypeOK, TypeAnn, TypeSearch, TypeBuf
    <2> QED BY <2>1, TypeSplit
<1> USE ConstAssumption DEF AnnPhase, SearchPhase, ProdPhase, SearchVars
<1>1. ASSUME NEW n \in Node, Bootstrapped(n) PROVE TypeAnn' /\ TypeSearch' /\ TypeBuf'
      <2>1. TypeAnn'
            BY <1>1 DEF Bootstrapped, TypeAnn
      <2>2. TypeSearch'
            BY <1>1 DEF Bootstrapped, TypeSearch
      <2>3. TypeBuf'
            BY <1>1 DEF Bootstrapped, TypeBuf
      <2> QED BY <2>1, <2>2, <2>3
<1>2. ASSUME NEW n \in Node, AnnounceCall(n) PROVE TypeAnn' /\ TypeSearch' /\ TypeBuf'
      <2>1. TypeAnn'
            BY <1>2 DEF AnnounceCall, TypeAnn
      <2>2. TypeSearch'
            BY <1>2 DEF AnnounceCall, TypeSearch
      <2>3. TypeBuf'
            BY <1>2 DEF AnnounceCall, TypeBuf
      <2> QED BY <2>1, <2>2, <2>3
<1>3. ASSUME NEW n \in Node, AnnounceRegister(n) PROVE TypeAnn' /\ TypeSearch' /\ TypeBuf'
      <2>1. TypeAnn'
            BY <1>3 DEF AnnounceRegister, TypeAnn
      <2>2. TypeSearch'
            BY <1>3 DEF AnnounceRegister, TypeSearch
      <2>3. TypeBuf'
            BY <1>3 DEF AnnounceRegister, TypeBuf
      <2> QED BY <2>1, <2>2, <2>3
<1>4. ASSUME NEW n \in Node, AnnounceProvide(n) PROVE TypeAnn' /\ TypeSearch' /\ TypeBuf'
      <2>1. TypeAnn'
            BY <1>4 DEF AnnounceProvide, TypeAnn
      <2>2. TypeSearch'
            BY <1>4 DEF AnnounceProvide, TypeSearch
      <2>3. TypeBuf'
            BY <1>4 DEF AnnounceProvide, TypeBuf
      <2> QED BY <2>1, <2>2, <2>3
<1>5. ASSUME NEW s \in Searchers, PeersCall(s) PROVE TypeAnn' /\ TypeSearch' /\ TypeBuf'
      <2>1. TypeAnn'
            BY <1>5 DEF PeersCall, TypeAnn
      <2>2. TypeSearch'
            BY <1>5 DEF PeersCall, TypeSearch
      <2>3. TypeBuf'
            BY <1>5 DEF PeersCall, TypeBuf
      <2> QED BY <2>1, <2>2, <2>3
<1>6. ASSUME NEW s \in Searchers, PeersStart(s) PROVE TypeAnn' /\ TypeSearch' /\ TypeBuf'
      <2>1. TypeAnn'
            BY <1>6 DEF PeersStart, TypeAnn
      <2>2. TypeSearch'
            BY <1>6 DEF PeersStart, TypeSearch
      <2>3. TypeBuf'
            BY <1>6 DEF PeersStart, TypeBuf
      <2> QED BY <2>1, <2>2, <2>3
<1>7. ASSUME NEW s \in Searchers, DhtEmit(s) PROVE TypeAnn' /\ TypeSearch' /\ TypeBuf'
      <2>1. PICK p \in providers \ found[s], b \in BOOLEAN :
                /\ buf' = [buf EXCEPT ![s] = Append(@, [id |-> p, addrs |-> b])]
                /\ found' = [found EXCEPT ![s] = @ \cup {p}]
            BY <1>7 DEF DhtEmit
      <2>2. TypeAnn'
            BY <1>7 DEF DhtEmit, TypeAnn
      <2>3. TypeSearch'
            BY <1>7, <2>1 DEF DhtEmit, TypeSearch, TypeAnn
      <2>4. TypeBuf'
            <3>1. [id |-> p, addrs |-> b] \in Candidate
                  BY DEF TypeAnn, Candidate
            <3>2. Append(buf[s], [id |-> p, addrs |-> b]) \in Seq(Candidate)
                  BY <3>1, AppendType DEF TypeBuf
            <3> QED BY <2>1, <3>2 DEF TypeBuf
      <2> QED BY <2>2, <2>3, <2>4
<1>8. ASSUME NEW s \in Searchers, DhtClose(s) PROVE TypeAnn' /\ TypeSearch' /\ TypeBuf'
      <2>1. TypeAnn'
            BY <1>8 DEF DhtClose, TypeAnn
      <2>2. TypeSearch'
            BY <1>8 DEF DhtClose, TypeSearch
      <2>3. TypeBuf'
            BY <1>8 DEF DhtClose, TypeBuf
      <2> QED BY <2>1, <2>2, <2>3
<1>9. ASSUME NEW s \in Searchers, Timeout(s) PROVE TypeAnn' /\ TypeSearch' /\ TypeBuf'
      <2>1. TypeAnn'
            BY <1>9 DEF Timeout, TypeAnn
      <2>2. TypeSearch'
            BY <1>9 DEF Timeout, TypeSearch
      <2>3. TypeBuf'
            BY <1>9 DEF Timeout, TypeBuf
      <2> QED BY <2>1, <2>2, <2>3
<1>10. ASSUME NEW s \in Searchers, Cancel(s) PROVE TypeAnn' /\ TypeSearch' /\ TypeBuf'
       <2>1. TypeAnn'
             BY <1>10 DEF Cancel, TypeAnn
       <2>2. TypeSearch'
             BY <1>10 DEF Cancel, TypeSearch
       <2>3. TypeBuf'
             BY <1>10 DEF Cancel, TypeBuf
       <2> QED BY <2>1, <2>2, <2>3
<1>11. ASSUME NEW s \in Searchers, Leave(s) PROVE TypeAnn' /\ TypeSearch' /\ TypeBuf'
       <2>1. TypeAnn'
             BY <1>11 DEF Leave, TypeAnn
       <2>2. TypeSearch'
             BY <1>11 DEF Leave, TypeSearch
       <2>3. TypeBuf'
             BY <1>11 DEF Leave, TypeBuf
       <2> QED BY <2>1, <2>2, <2>3
<1>12. ASSUME NEW s \in Searchers, Range(s) PROVE TypeAnn' /\ TypeSearch' /\ TypeBuf'
       <2>1. UNCHANGED <<ready, ann, handler, providers>>
             BY <1>12 DEF Range
       <2>2. TypeAnn'
             BY <2>1 DEF TypeAnn
       <2>3. CASE buf[s] # <<>>
             <3>1. Tail(buf[s]) \in Seq(Candidate) /\ Head(buf[s]) \in Candidate
                   BY <2>3, TailType DEF TypeBuf
             <3>2. /\ buf' = [buf EXCEPT ![s] = Tail(buf[s])]
                   /\ \/ prod' = [prod EXCEPT ![s] = "open"] /\ cand' = [cand EXCEPT ![s] = Head(buf[s]).id]
                      \/ UNCHANGED <<prod, cand>>
                   /\ UNCHANGED <<sp, found, qOpen, expired, cancelled, reading, delivered>>
                   BY <1>12, <2>3 DEF Range
             <3>3. Head(buf[s]).id \in Node
                   BY <3>1 DEF Candidate
             <3>4. TypeSearch'
                   BY <3>2, <3>3 DEF TypeSearch
             <3>5. TypeBuf'
                   BY <3>1, <3>2 DEF TypeBuf
             <3> QED BY <2>2, <3>4, <3>5
       <2>4. CASE buf[s] = <<>>
             <3>1. /\ sp' = [sp EXCEPT ![s] = "closed"]
                   /\ UNCHANGED <<buf, prod, cand, found, qOpen, expired, cancelled, reading, delivered>>
                   BY <1>12, <2>4 DEF Range
             <3> QED BY <2>2, <3>1 DEF TypeSearch, TypeBuf
       <2> QED BY <2>3, <2>4
<1>13. ASSUME NEW s \in Searchers, OpenStream(s) PROVE TypeAnn' /\ TypeSearch' /\ TypeBuf'
       <2>1. TypeAnn'
             BY <1>13 DEF OpenStream, TypeAnn
       <2>2. TypeSearch'
             BY <1>13 DEF OpenStream, TypeSearch
       <2>3. TypeBuf'
             BY <1>13 DEF OpenStream, TypeBuf
       <2> QED BY <2>1, <2>2, <2>3
<1>14. ASSUME NEW s \in Searchers, Decode(s) PROVE TypeAnn' /\ TypeSearch' /\ TypeBuf'
       <2>1. TypeAnn'
             BY <1>14 DEF Decode, TypeAnn
       <2>2. TypeSearch'
             BY <1>14 DEF Decode, TypeSearch
       <2>3. TypeBuf'
             BY <1>14 DEF Decode, TypeBuf
       <2> QED BY <2>1, <2>2, <2>3
<1>15. ASSUME NEW s \in Searchers, Receive(s) PROVE TypeAnn' /\ TypeSearch' /\ TypeBuf'
       <2>1. TypeAnn'
             BY <1>15 DEF Receive, TypeAnn
       <2>2. TypeSearch'
             <3>1. cand[s] \in Node
                   BY <1>15 DEF Receive, FlowInv, Busy, TypeAnn
             <3> QED BY <1>15, <3>1 DEF Receive, TypeSearch
       <2>3. TypeBuf'
             BY <1>15 DEF Receive, TypeBuf
       <2> QED BY <2>1, <2>2, <2>3
<1>16. CASE Finished \/ UNCHANGED vars
       <2>1. UNCHANGED vars
             BY <1>16 DEF Finished
       <2> QED BY <2>1 DEF vars, TypeAnn, TypeSearch, TypeBuf
<1> QED BY <1>1, <1>2, <1>3, <1>4, <1>5, <1>6, <1>7, <1>8, <1>9, <1>10, <1>11, <1>12, <1>13, <1>14, <1>15, <1>16
       DEF Next, Goroutine

LEMMA InitIInv == Init => IInv
<1> SUFFICES ASSUME Init PROVE IInv
    OBVIOUS
<1>1. TypeOK
      BY TypeInit
<1>2. ProvInv
      BY DEF Init, ProvInv
<1>3. FlowInv
      BY DEF Init, FlowInv, Busy
<1> QED BY <1>1, <1>2, <1>3 DEF IInv

\* Announce registers the handler before the record can be stored, and
\* nothing unregisters it.
LEMMA StepProvInv == IInv /\ [Next]_vars => ProvInv'
<1> SUFFICES ASSUME IInv, [Next]_vars PROVE ProvInv'
    OBVIOUS
<1> USE ConstAssumption DEF IInv, TypeOK, SearchVars
<1>1. ASSUME NEW n \in Node, Bootstrapped(n) PROVE ProvInv'
      BY <1>1 DEF Bootstrapped, ProvInv
<1>2. ASSUME NEW n \in Node, AnnounceCall(n) PROVE ProvInv'
      BY <1>2 DEF AnnounceCall, ProvInv
<1>3. ASSUME NEW n \in Node, AnnounceRegister(n) PROVE ProvInv'
      <2>1. UNCHANGED providers
            BY <1>3 DEF AnnounceRegister
      <2>2. CASE ann' = [ann EXCEPT ![n] = "providing"] /\ handler' = [handler EXCEPT ![n] = TRUE]
            BY <2>1, <2>2 DEF ProvInv
      <2>3. CASE ann' = [ann EXCEPT ![n] = "error"] /\ UNCHANGED handler
            BY <2>1, <2>3 DEF ProvInv
      <2> QED BY <1>3, <2>2, <2>3 DEF AnnounceRegister
<1>4. ASSUME NEW n \in Node, AnnounceProvide(n) PROVE ProvInv'
      BY <1>4 DEF AnnounceProvide, ProvInv
<1>5. ASSUME NEW s \in Searchers, PeersCall(s) PROVE ProvInv'
      BY <1>5 DEF PeersCall, ProvInv
<1>6. ASSUME NEW s \in Searchers, PeersStart(s) PROVE ProvInv'
      BY <1>6 DEF PeersStart, ProvInv
<1>7. ASSUME NEW s \in Searchers, DhtEmit(s) PROVE ProvInv'
      BY <1>7 DEF DhtEmit, ProvInv
<1>8. ASSUME NEW s \in Searchers, DhtClose(s) PROVE ProvInv'
      BY <1>8 DEF DhtClose, ProvInv
<1>9. ASSUME NEW s \in Searchers, Timeout(s) PROVE ProvInv'
      BY <1>9 DEF Timeout, ProvInv
<1>10. ASSUME NEW s \in Searchers, Cancel(s) PROVE ProvInv'
       BY <1>10 DEF Cancel, ProvInv
<1>11. ASSUME NEW s \in Searchers, Leave(s) PROVE ProvInv'
       BY <1>11 DEF Leave, ProvInv
<1>12. ASSUME NEW s \in Searchers, Range(s) PROVE ProvInv'
       BY <1>12 DEF Range, ProvInv
<1>13. ASSUME NEW s \in Searchers, OpenStream(s) PROVE ProvInv'
       BY <1>13 DEF OpenStream, ProvInv
<1>14. ASSUME NEW s \in Searchers, Decode(s) PROVE ProvInv'
       BY <1>14 DEF Decode, ProvInv
<1>15. ASSUME NEW s \in Searchers, Receive(s) PROVE ProvInv'
       BY <1>15 DEF Receive, ProvInv
<1>16. CASE Finished \/ UNCHANGED vars
       BY <1>16 DEF Finished, vars, ProvInv
<1> QED BY <1>1, <1>2, <1>3, <1>4, <1>5, <1>6, <1>7, <1>8, <1>9, <1>10, <1>11, <1>12, <1>13, <1>14, <1>15, <1>16
       DEF Next, Goroutine

\* The query emits stored records, the loop keeps only a candidate other
\* than itself, and the caller receives that candidate; records stay.
LEMMA StepFlowInv == IInv /\ [Next]_vars => FlowInv'
<1> SUFFICES ASSUME IInv, [Next]_vars PROVE FlowInv'
    OBVIOUS
<1> USE ConstAssumption DEF IInv, TypeOK, SearchVars
<1>1. ASSUME NEW n \in Node, Bootstrapped(n) PROVE FlowInv'
      BY <1>1 DEF Bootstrapped, FlowInv, Busy
<1>2. ASSUME NEW n \in Node, AnnounceCall(n) PROVE FlowInv'
      BY <1>2 DEF AnnounceCall, FlowInv, Busy
<1>3. ASSUME NEW n \in Node, AnnounceRegister(n) PROVE FlowInv'
      BY <1>3 DEF AnnounceRegister, FlowInv, Busy
<1>4. ASSUME NEW n \in Node, AnnounceProvide(n) PROVE FlowInv'
      BY <1>4 DEF AnnounceProvide, FlowInv, Busy
<1>5. ASSUME NEW s \in Searchers, PeersCall(s) PROVE FlowInv'
      BY <1>5 DEF PeersCall, FlowInv, Busy
<1>6. ASSUME NEW s \in Searchers, PeersStart(s) PROVE FlowInv'
      BY <1>6 DEF PeersStart, FlowInv, Busy
<1>7. ASSUME NEW s \in Searchers, DhtEmit(s) PROVE FlowInv'
      BY <1>7 DEF DhtEmit, FlowInv, Busy
<1>8. ASSUME NEW s \in Searchers, DhtClose(s) PROVE FlowInv'
      BY <1>8 DEF DhtClose, FlowInv, Busy
<1>9. ASSUME NEW s \in Searchers, Timeout(s) PROVE FlowInv'
      BY <1>9 DEF Timeout, FlowInv, Busy
<1>10. ASSUME NEW s \in Searchers, Cancel(s) PROVE FlowInv'
       BY <1>10 DEF Cancel, FlowInv, Busy
<1>11. ASSUME NEW s \in Searchers, Leave(s) PROVE FlowInv'
       BY <1>11 DEF Leave, FlowInv, Busy
<1>12. ASSUME NEW s \in Searchers, Range(s) PROVE FlowInv'
       <2>1. UNCHANGED <<providers, delivered>> /\ prod[s] = "range"
             BY <1>12 DEF Range
       <2>2. CASE buf[s] # <<>>
             <3>1. buf[s] \in Seq(Candidate)
                   BY DEF TypeOK
             <3>2. /\ buf' = [buf EXCEPT ![s] = Tail(buf[s])]
                   /\ \/ /\ Head(buf[s]).id # s
                         /\ prod' = [prod EXCEPT ![s] = "open"]
                         /\ cand' = [cand EXCEPT ![s] = Head(buf[s]).id]
                      \/ UNCHANGED <<prod, cand>>
                   BY <1>12, <2>2 DEF Range
             <3>3. Head(buf[s]).id \in providers
                   BY <2>2, <3>1 DEF FlowInv
             <3>4. \A i \in DOMAIN Tail(buf[s]) : Tail(buf[s])[i].id \in providers
                   BY <2>2, <3>1 DEF FlowInv
             <3> QED BY <2>1, <3>2, <3>3, <3>4 DEF FlowInv, Busy
       <2>3. CASE buf[s] = <<>>
             <3>1. UNCHANGED <<buf, prod, cand>>
                   BY <1>12, <2>3 DEF Range
             <3> QED BY <2>1, <3>1 DEF FlowInv, Busy
       <2> QED BY <2>2, <2>3
<1>13. ASSUME NEW s \in Searchers, OpenStream(s) PROVE FlowInv'
       BY <1>13 DEF OpenStream, FlowInv, Busy
<1>14. ASSUME NEW s \in Searchers, Decode(s) PROVE FlowInv'
       BY <1>14 DEF Decode, FlowInv, Busy
<1>15. ASSUME NEW s \in Searchers, Receive(s) PROVE FlowInv'
       BY <1>15 DEF Receive, FlowInv, Busy
<1>16. CASE Finished \/ UNCHANGED vars
       BY <1>16 DEF Finished, vars, FlowInv
<1> QED BY <1>1, <1>2, <1>3, <1>4, <1>5, <1>6, <1>7, <1>8, <1>9, <1>10, <1>11, <1>12, <1>13, <1>14, <1>15, <1>16
       DEF Next, Goroutine

LEMMA StepIInv == IInv /\ [Next]_vars => IInv'
BY TypeStep, StepProvInv, StepFlowInv DEF IInv

\* Every reachable state satisfies the inductive invariant.
THEOREM IInvHolds == Spec => []IInv
BY InitIInv, StepIInv, PTL DEF Spec

\* Peers' callers and its goroutine, for any nodes and limit, keep the
\* PeerExchange variables in their types.
THEOREM TypeCorrect == Spec => []TypeOK
<1>1. IInv => TypeOK
      BY DEF IInv
<1> QED BY <1>1, IInvHolds, PTL

\* Peers never hands a caller the local node's own PeerInfo, for any
\* number of nodes announcing the chain ID and any limit (the run `peers`
\* checks it on three nodes).
THEOREM NoSelfRecordHolds == Spec => []NoSelfRecord
<1>1. IInv => NoSelfRecord
      BY DEF IInv, FlowInv, NoSelfRecord
<1> QED BY <1>1, IInvHolds, PTL

\* Every provider record in the DHT, and every PeerInfo a caller received,
\* belongs to a node whose stream handler is registered: Announce makes a
\* node findable only once it can answer (the run `peers` checks it).
THEOREM FindableNodesAnswerHolds == Spec => []FindableNodesAnswer
<1>1. IInv => FindableNodesAnswer
      BY DEF IInv, ProvInv, FlowInv, FindableNodesAnswer
<1> QED BY <1>1, IInvHolds, PTL


=============================================================================
