------------------------ MODULE SessionControlProofs ------------------------
(***************************************************************************)
(* Theorems about SessionControl, for every number of devices, sessions    *)
(* and connections, with faults and with overlapping connections.          *)
(***************************************************************************)
EXTENDS SessionControl, TLAPS

(* Facts about the queues *)

LEMMA PushType ==
    ASSUME NEW Q, NEW q \in [Conns -> Seq(Q)], NEW c \in Conns, NEW t, NEW s,
           [t |-> t, s |-> s] \in Q
    PROVE  Push(q, c, t, s) \in [Conns -> Seq(Q)]
BY DEF Push

LEMMA PushElements ==
    ASSUME NEW Q, NEW q \in [Conns -> Seq(Q)], NEW c \in Conns, NEW t, NEW s,
           NEW o \in Conns, NEW i \in 1..Len(Push(q, c, t, s)[o])
    PROVE  \/ i \in 1..Len(q[o]) /\ Push(q, c, t, s)[o][i] = q[o][i]
           \/ o = c /\ Push(q, c, t, s)[o][i] = [t |-> t, s |-> s]
BY DEF Push

LEMMA TailElements ==
    ASSUME NEW Q, NEW q \in Seq(Q), q # <<>>, NEW i \in 1..Len(Tail(q))
    PROVE  /\ i + 1 \in 1..Len(q)
           /\ Tail(q)[i] = q[i + 1]
OBVIOUS

LEMMA HeadElement ==
    ASSUME NEW Q, NEW q \in Seq(Q), q # <<>>
    PROVE  /\ 1 \in 1..Len(q)
           /\ Head(q) = q[1]
           /\ Head(q) \in Q
           /\ Tail(q) \in Seq(Q)
OBVIOUS

-----------------------------------------------------------------------------
(* Type correctness *)

\* Every reachable state of SessionControl is well typed.
THEOREM TypeCorrect == Spec => []TypeOK
<1>1. Init => TypeOK
  BY ConnAssumption DEF Init, TypeOK, Status, PCs, CReqs, Active
<1>2. TypeOK /\ [Next]_vars => TypeOK'
  <2> SUFFICES ASSUME TypeOK, [Next]_vars PROVE TypeOK'
    OBVIOUS
  <2> USE ConnAssumption DEF TypeOK, dbVars, memVars, connVars, agentVars, reqVars
  <2>1. ASSUME NEW s \in Sessions, NEW d \in Devices, CreateCheck(s, d) PROVE TypeOK'
    BY <2>1 DEF CreateCheck, CReqs
  <2>2. ASSUME NEW s \in Sessions, CreateInsert(s) PROVE TypeOK'
    BY <2>2 DEF CreateInsert, CReqs, Status, Active
  <2>3. ASSUME NEW s \in Sessions, CreateBind(s) PROVE TypeOK'
    BY <2>3 DEF CreateBind, CReqs
  <2>4. ASSUME NEW s \in Sessions, CreateSend(s) PROVE TypeOK'
    <3>1. CASE SendOK(s)
      <4>1. Peer(s) \in Conns
        BY <3>1 DEF SendOK, Peer
      <4>2. Push(down, Peer(s), "start", s) \in [Conns -> Seq(DownMsg)]
        BY <4>1, PushType DEF DownMsg
      <4> QED BY <2>4, <4>2 DEF CreateSend, CReqs
    <3>2. CASE ~SendOK(s)
      BY <2>4, <3>2 DEF CreateSend, CReqs
    <3> QED BY <3>1, <3>2
  <2>5. ASSUME NEW s \in Sessions, CreateSendFails(s) PROVE TypeOK'
    BY <2>5 DEF CreateSendFails, CReqs
  <2>6. ASSUME NEW s \in Sessions, CreateMarkLost(s) PROVE TypeOK'
    BY <2>6 DEF CreateMarkLost, CReqs, Status
  <2>7. ASSUME NEW s \in Sessions, CloseMark(s) PROVE TypeOK'
    BY <2>7 DEF CloseMark, Status
  <2>8. ASSUME NEW s \in Sessions, CloseSend(s) PROVE TypeOK'
    <3>1. CASE SendOK(s)
      <4>1. Peer(s) \in Conns
        BY <3>1 DEF SendOK, Peer
      <4>2. Push(down, Peer(s), "close", s) \in [Conns -> Seq(DownMsg)]
        BY <4>1, PushType DEF DownMsg
      <4> QED BY <2>8, <4>2 DEF CloseSend, CReqs
    <3>2. CASE ~SendOK(s)
      BY <2>8, <3>2 DEF CloseSend, CReqs
    <3> QED BY <3>1, <3>2
  <2>9. ASSUME NEW s \in Sessions, WebSubscribe(s) PROVE TypeOK'
    BY <2>9 DEF WebSubscribe
  <2>10. ASSUME NEW c \in Conns, ServerHello(c) PROVE TypeOK'
    BY <2>10 DEF ServerHello, PCs
  <2>11. ASSUME NEW c \in Conns, ServerNoHello(c) PROVE TypeOK'
    BY <2>11 DEF ServerNoHello, PCs
  <2>12. ASSUME NEW c \in Conns, ServerAttach(c) PROVE TypeOK'
    BY <2>12 DEF ServerAttach, PCs, Serving
  <2>13. ASSUME NEW c \in Conns, ServerSyncList(c) PROVE TypeOK'
    BY <2>13 DEF ServerSyncList, PCs, Serving, ActiveOf
  <2>14. ASSUME NEW c \in Conns, NEW s \in Sessions, MarkListed(c, s) PROVE TypeOK'
    BY <2>14 DEF MarkListed, Status
  <2>15. ASSUME NEW c \in Conns, ServerSyncDone(c) PROVE TypeOK'
    BY <2>15 DEF ServerSyncDone, PCs, Serving
  <2>16. ASSUME NEW c \in Conns, ServerSeesBreak(c) PROVE TypeOK'
    BY <2>16 DEF ServerSeesBreak, PCs, CleanUp
  <2>17. ASSUME NEW c \in Conns, CleanUpList(c) PROVE TypeOK'
    BY <2>17 DEF CleanUpList, PCs, CleanUp, ActiveOf
  <2>18. ASSUME NEW c \in Conns, CleanUpMarked(c) PROVE TypeOK'
    BY <2>18 DEF CleanUpMarked, PCs, CleanUp
  <2>19. ASSUME NEW c \in Conns, CleanUpOffline(c) PROVE TypeOK'
    BY <2>19 DEF CleanUpOffline, PCs, CleanUp
  <2>20. ASSUME NEW c \in Conns, CleanUpDetach(c) PROVE TypeOK'
    BY <2>20 DEF CleanUpDetach, PCs
  <2>21. ASSUME NEW c \in Conns, ServerStarted(c) PROVE TypeOK'
    <3>1. Head(up[c]) \in UpMsg /\ Tail(up[c]) \in Seq(UpMsg)
      BY <2>21, HeadElement DEF ServerStarted
    <3> QED BY <2>21, <3>1 DEF ServerStarted, UpMsg, Status, Active
  <2>22. ASSUME NEW c \in Conns, ServerReadStatus(c) PROVE TypeOK'
    <3> DEFINE m == Head(up[c])
    <3>1. m \in UpMsg /\ Tail(up[c]) \in Seq(UpMsg)
      BY <2>22, HeadElement DEF ServerReadStatus
    <3>2. status[m.s] \in Status /\ "write" \in PCs
      BY <3>1 DEF UpMsg, PCs, Serving
    <3>3. <<m>> \in {<<>>} \union {<<x>> : x \in UpMsg}
      BY <3>1
    <3>4. CASE Owns(c, m.s)
      BY <2>22, <3>1, <3>2, <3>3, <3>4 DEF ServerReadStatus
    <3>5. CASE ~Owns(c, m.s)
      BY <2>22, <3>1, <3>5 DEF ServerReadStatus
    <3> QED BY <3>4, <3>5
  <2>23. ASSUME NEW c \in Conns, ServerWriteStatus(c) PROVE TypeOK'
    <3> DEFINE m == cur[c][1]
    <3>1. AfterStdout(rd[c]) \in Status /\ AfterExit(rd[c]) \in Status
      BY DEF AfterStdout, AfterExit, Status, Active
    <3>2. status' \in [Sessions -> Status]
      BY <2>23, <3>1 DEF ServerWriteStatus
    <3> QED BY <2>23, <3>2 DEF ServerWriteStatus, PCs, Serving, Status
  <2>24. ASSUME NEW c \in Conns, AgentConnect(c) PROVE TypeOK'
    BY <2>24 DEF AgentConnect, PCs
  <2>25. ASSUME NEW c \in Conns, AgentStart(c) PROVE TypeOK'
    <3> DEFINE m == Head(down[c])
    <3>1. m \in DownMsg /\ Tail(down[c]) \in Seq(DownMsg)
      BY <2>25, HeadElement DEF AgentStart
    <3>2. Push(up, c, "started", m.s) \in [Conns -> Seq(UpMsg)]
      BY <3>1, PushType DEF UpMsg, DownMsg
    <3> QED BY <2>25, <3>1, <3>2 DEF AgentStart, DownMsg
  <2>26. ASSUME NEW c \in Conns, AgentClose(c) PROVE TypeOK'
    <3> DEFINE m == Head(down[c])
    <3>1. m \in DownMsg /\ Tail(down[c]) \in Seq(DownMsg)
      BY <2>26, HeadElement DEF AgentClose
    <3>2. Push(up, c, "exit", m.s) \in [Conns -> Seq(UpMsg)]
      BY <3>1, PushType DEF UpMsg, DownMsg
    <3> QED BY <2>26, <3>1, <3>2 DEF AgentClose, DownMsg
  <2>27. ASSUME NEW c \in Conns, NEW s \in Sessions, AgentOutput(c, s) PROVE TypeOK'
    <3>1. Push(up, c, "stdout", s) \in [Conns -> Seq(UpMsg)]
      BY PushType DEF UpMsg
    <3> QED BY <2>27, <3>1 DEF AgentOutput
  <2>28. ASSUME NEW c \in Conns, NEW s \in Sessions, AgentShellExit(c, s) PROVE TypeOK'
    <3>1. Push(up, c, "exit", s) \in [Conns -> Seq(UpMsg)]
      BY PushType DEF UpMsg
    <3> QED BY <2>28, <3>1 DEF AgentShellExit
  <2>29. ASSUME NEW c \in Conns, AgentEnds(c) PROVE TypeOK'
    BY <2>29 DEF AgentEnds
  <2>30. ASSUME NEW c \in Conns, LinkBreaks(c) PROVE TypeOK'
    BY <2>30 DEF LinkBreaks
  <2>31. ASSUME ServerRestart PROVE TypeOK'
    BY <2>31 DEF ServerRestart, PCs, CReqs, Status
  <2>32. CASE UNCHANGED vars
    BY <2>32 DEF vars
  <2> QED
    BY <2>1, <2>2, <2>3, <2>4, <2>5, <2>6, <2>7, <2>8, <2>9, <2>10, <2>11, <2>12, <2>13, <2>14, <2>15, <2>16, <2>17, <2>18, <2>19, <2>20, <2>21, <2>22, <2>23, <2>24, <2>25, <2>26, <2>27, <2>28, <2>29, <2>30, <2>31, <2>32
    DEF Next, User, Requests, Connections, Faults, CreateRequest, Handler,
        Handshake, Synchronise, Receive, Disconnect, ServerSyncMark, CleanUpMark,
        AgentLoop, AgentShells, AgentCrash, AgentSeesBreak
<1>3. QED BY <1>1, <1>2, PTL DEF Spec

\* Presence shows a device online only while some connection's handler has
\* accepted its hello and not yet taken it offline.
THEOREM OnlineCorrect == Spec => []OnlineHasHandler
<1>1. Init => OnlineHasHandler
  BY ConnAssumption DEF Init, OnlineHasHandler
<1>2. TypeOK /\ TypeOK' /\ OnlineHasHandler /\ [Next]_vars => OnlineHasHandler'
  <2> SUFFICES ASSUME TypeOK, TypeOK', OnlineHasHandler, [Next]_vars PROVE OnlineHasHandler'
    OBVIOUS
  <2> USE ConnAssumption DEF dbVars, memVars, connVars, agentVars, reqVars, OnlineHasHandler
  <2>1. ASSUME NEW s \in Sessions, NEW d \in Devices, CreateCheck(s, d) PROVE OnlineHasHandler'
    BY <2>1 DEF TypeOK, CreateCheck
  <2>2. ASSUME NEW s \in Sessions, CreateInsert(s) PROVE OnlineHasHandler'
    BY <2>2 DEF TypeOK, CreateInsert
  <2>3. ASSUME NEW s \in Sessions, CreateBind(s) PROVE OnlineHasHandler'
    BY <2>3 DEF TypeOK, CreateBind
  <2>4. ASSUME NEW s \in Sessions, CreateSend(s) PROVE OnlineHasHandler'
    BY <2>4 DEF TypeOK, CreateSend
  <2>5. ASSUME NEW s \in Sessions, CreateSendFails(s) PROVE OnlineHasHandler'
    BY <2>5 DEF TypeOK, CreateSendFails
  <2>6. ASSUME NEW s \in Sessions, CreateMarkLost(s) PROVE OnlineHasHandler'
    BY <2>6 DEF TypeOK, CreateMarkLost
  <2>7. ASSUME NEW s \in Sessions, CloseMark(s) PROVE OnlineHasHandler'
    BY <2>7 DEF TypeOK, CloseMark
  <2>8. ASSUME NEW s \in Sessions, CloseSend(s) PROVE OnlineHasHandler'
    BY <2>8 DEF TypeOK, CloseSend
  <2>9. ASSUME NEW s \in Sessions, WebSubscribe(s) PROVE OnlineHasHandler'
    BY <2>9 DEF TypeOK, WebSubscribe
  <2>10. ASSUME NEW c \in Conns, ServerHello(c) PROVE OnlineHasHandler'
    BY <2>10 DEF TypeOK, ServerHello
  <2>11. ASSUME NEW c \in Conns, ServerNoHello(c) PROVE OnlineHasHandler'
    BY <2>11 DEF TypeOK, ServerNoHello
  <2>12. ASSUME NEW c \in Conns, ServerAttach(c) PROVE OnlineHasHandler'
    BY <2>12 DEF TypeOK, ServerAttach
  <2>13. ASSUME NEW c \in Conns, ServerSyncList(c) PROVE OnlineHasHandler'
    BY <2>13 DEF TypeOK, ServerSyncList
  <2>14. ASSUME NEW c \in Conns, NEW s \in Sessions, MarkListed(c, s) PROVE OnlineHasHandler'
    BY <2>14 DEF TypeOK, MarkListed
  <2>15. ASSUME NEW c \in Conns, ServerSyncDone(c) PROVE OnlineHasHandler'
    BY <2>15 DEF TypeOK, ServerSyncDone
  <2>16. ASSUME NEW c \in Conns, ServerSeesBreak(c) PROVE OnlineHasHandler'
    BY <2>16 DEF TypeOK, ServerSeesBreak
  <2>17. ASSUME NEW c \in Conns, CleanUpList(c) PROVE OnlineHasHandler'
    BY <2>17 DEF TypeOK, CleanUpList
  <2>18. ASSUME NEW c \in Conns, CleanUpMarked(c) PROVE OnlineHasHandler'
    BY <2>18 DEF TypeOK, CleanUpMarked
  <2>19. ASSUME NEW c \in Conns, CleanUpOffline(c) PROVE OnlineHasHandler'
    BY <2>19 DEF TypeOK, CleanUpOffline
  <2>20. ASSUME NEW c \in Conns, CleanUpDetach(c) PROVE OnlineHasHandler'
    BY <2>20 DEF TypeOK, CleanUpDetach
  <2>21. ASSUME NEW c \in Conns, ServerStarted(c) PROVE OnlineHasHandler'
    BY <2>21 DEF TypeOK, ServerStarted
  <2>22. ASSUME NEW c \in Conns, ServerReadStatus(c) PROVE OnlineHasHandler'
    <3>1. /\ pc \in [Conns -> PCs] /\ pc[c] = "read"
          /\ agents \in [Devices -> Conns \union {NoConn}]
      BY <2>22 DEF TypeOK, ServerReadStatus
    <3>2. pc' = pc \/ pc' = [pc EXCEPT ![c] = "write"]
      BY <2>22 DEF ServerReadStatus
    <3>3. UNCHANGED memVars
      BY <2>22 DEF ServerReadStatus
    <3> QED BY <3>1, <3>2, <3>3
  <2>23. ASSUME NEW c \in Conns, ServerWriteStatus(c) PROVE OnlineHasHandler'
    BY <2>23 DEF TypeOK, ServerWriteStatus
  <2>24. ASSUME NEW c \in Conns, AgentConnect(c) PROVE OnlineHasHandler'
    BY <2>24 DEF TypeOK, AgentConnect
  <2>25. ASSUME NEW c \in Conns, AgentStart(c) PROVE OnlineHasHandler'
    BY <2>25 DEF TypeOK, AgentStart
  <2>26. ASSUME NEW c \in Conns, AgentClose(c) PROVE OnlineHasHandler'
    BY <2>26 DEF TypeOK, AgentClose
  <2>27. ASSUME NEW c \in Conns, NEW s \in Sessions, AgentOutput(c, s) PROVE OnlineHasHandler'
    BY <2>27 DEF TypeOK, AgentOutput
  <2>28. ASSUME NEW c \in Conns, NEW s \in Sessions, AgentShellExit(c, s) PROVE OnlineHasHandler'
    BY <2>28 DEF TypeOK, AgentShellExit
  <2>29. ASSUME NEW c \in Conns, AgentEnds(c) PROVE OnlineHasHandler'
    BY <2>29 DEF TypeOK, AgentEnds
  <2>30. ASSUME NEW c \in Conns, LinkBreaks(c) PROVE OnlineHasHandler'
    BY <2>30 DEF TypeOK, LinkBreaks
  <2>31. ASSUME ServerRestart PROVE OnlineHasHandler'
    BY <2>31 DEF TypeOK, ServerRestart
  <2>32. CASE UNCHANGED vars
    BY <2>32 DEF vars
  <2> QED
    BY <2>1, <2>2, <2>3, <2>4, <2>5, <2>6, <2>7, <2>8, <2>9, <2>10, <2>11, <2>12, <2>13, <2>14, <2>15, <2>16, <2>17, <2>18, <2>19, <2>20, <2>21, <2>22, <2>23, <2>24, <2>25, <2>26, <2>27, <2>28, <2>29, <2>30, <2>31, <2>32
    DEF TypeOK, Next, User, Requests, Connections, Faults, CreateRequest, Handler,
        Handshake, Synchronise, Receive, Disconnect, ServerSyncMark, CleanUpMark,
        AgentLoop, AgentShells, AgentCrash, AgentSeesBreak
<1>3. QED BY <1>1, <1>2, TypeCorrect, PTL DEF Spec

\* The Hub never holds the peer of a handler that has returned, and a device's
\* entry is always a connection of that device.
THEOREM PeersCorrect == Spec => []NoDeadPeer
<1>1. Init => NoDeadPeer
  BY ConnAssumption DEF Init, NoDeadPeer, Serving, CleanUp
<1>2. TypeOK /\ TypeOK' /\ NoDeadPeer /\ [Next]_vars => NoDeadPeer'
  <2> SUFFICES ASSUME TypeOK, TypeOK', NoDeadPeer, [Next]_vars PROVE NoDeadPeer'
    OBVIOUS
  <2> USE ConnAssumption DEF dbVars, memVars, connVars, agentVars, reqVars, NoDeadPeer, Serving, CleanUp
  <2>1. ASSUME NEW s \in Sessions, NEW d \in Devices, CreateCheck(s, d) PROVE NoDeadPeer'
    BY <2>1 DEF TypeOK, CreateCheck
  <2>2. ASSUME NEW s \in Sessions, CreateInsert(s) PROVE NoDeadPeer'
    BY <2>2 DEF TypeOK, CreateInsert
  <2>3. ASSUME NEW s \in Sessions, CreateBind(s) PROVE NoDeadPeer'
    BY <2>3 DEF TypeOK, CreateBind
  <2>4. ASSUME NEW s \in Sessions, CreateSend(s) PROVE NoDeadPeer'
    BY <2>4 DEF TypeOK, CreateSend
  <2>5. ASSUME NEW s \in Sessions, CreateSendFails(s) PROVE NoDeadPeer'
    BY <2>5 DEF TypeOK, CreateSendFails
  <2>6. ASSUME NEW s \in Sessions, CreateMarkLost(s) PROVE NoDeadPeer'
    BY <2>6 DEF TypeOK, CreateMarkLost
  <2>7. ASSUME NEW s \in Sessions, CloseMark(s) PROVE NoDeadPeer'
    BY <2>7 DEF TypeOK, CloseMark
  <2>8. ASSUME NEW s \in Sessions, CloseSend(s) PROVE NoDeadPeer'
    BY <2>8 DEF TypeOK, CloseSend
  <2>9. ASSUME NEW s \in Sessions, WebSubscribe(s) PROVE NoDeadPeer'
    BY <2>9 DEF TypeOK, WebSubscribe
  <2>10. ASSUME NEW c \in Conns, ServerHello(c) PROVE NoDeadPeer'
    BY <2>10 DEF TypeOK, ServerHello
  <2>11. ASSUME NEW c \in Conns, ServerNoHello(c) PROVE NoDeadPeer'
    BY <2>11 DEF TypeOK, ServerNoHello
  <2>12. ASSUME NEW c \in Conns, ServerAttach(c) PROVE NoDeadPeer'
    BY <2>12 DEF TypeOK, ServerAttach
  <2>13. ASSUME NEW c \in Conns, ServerSyncList(c) PROVE NoDeadPeer'
    BY <2>13 DEF TypeOK, ServerSyncList
  <2>14. ASSUME NEW c \in Conns, NEW s \in Sessions, MarkListed(c, s) PROVE NoDeadPeer'
    BY <2>14 DEF TypeOK, MarkListed
  <2>15. ASSUME NEW c \in Conns, ServerSyncDone(c) PROVE NoDeadPeer'
    BY <2>15 DEF TypeOK, ServerSyncDone
  <2>16. ASSUME NEW c \in Conns, ServerSeesBreak(c) PROVE NoDeadPeer'
    BY <2>16 DEF TypeOK, ServerSeesBreak
  <2>17. ASSUME NEW c \in Conns, CleanUpList(c) PROVE NoDeadPeer'
    BY <2>17 DEF TypeOK, CleanUpList
  <2>18. ASSUME NEW c \in Conns, CleanUpMarked(c) PROVE NoDeadPeer'
    BY <2>18 DEF TypeOK, CleanUpMarked
  <2>19. ASSUME NEW c \in Conns, CleanUpOffline(c) PROVE NoDeadPeer'
    BY <2>19 DEF TypeOK, CleanUpOffline
  <2>20. ASSUME NEW c \in Conns, CleanUpDetach(c) PROVE NoDeadPeer'
    BY <2>20 DEF TypeOK, CleanUpDetach
  <2>21. ASSUME NEW c \in Conns, ServerStarted(c) PROVE NoDeadPeer'
    BY <2>21 DEF TypeOK, ServerStarted
  <2>22. ASSUME NEW c \in Conns, ServerReadStatus(c) PROVE NoDeadPeer'
    <3>1. /\ pc \in [Conns -> PCs] /\ pc[c] = "read"
          /\ agents \in [Devices -> Conns \union {NoConn}]
      BY <2>22 DEF TypeOK, ServerReadStatus
    <3>2. pc' = pc \/ pc' = [pc EXCEPT ![c] = "write"]
      BY <2>22 DEF ServerReadStatus
    <3>3. UNCHANGED memVars
      BY <2>22 DEF ServerReadStatus
    <3> QED BY <3>1, <3>2, <3>3
  <2>23. ASSUME NEW c \in Conns, ServerWriteStatus(c) PROVE NoDeadPeer'
    BY <2>23 DEF TypeOK, ServerWriteStatus
  <2>24. ASSUME NEW c \in Conns, AgentConnect(c) PROVE NoDeadPeer'
    BY <2>24 DEF TypeOK, AgentConnect
  <2>25. ASSUME NEW c \in Conns, AgentStart(c) PROVE NoDeadPeer'
    BY <2>25 DEF TypeOK, AgentStart
  <2>26. ASSUME NEW c \in Conns, AgentClose(c) PROVE NoDeadPeer'
    BY <2>26 DEF TypeOK, AgentClose
  <2>27. ASSUME NEW c \in Conns, NEW s \in Sessions, AgentOutput(c, s) PROVE NoDeadPeer'
    BY <2>27 DEF TypeOK, AgentOutput
  <2>28. ASSUME NEW c \in Conns, NEW s \in Sessions, AgentShellExit(c, s) PROVE NoDeadPeer'
    BY <2>28 DEF TypeOK, AgentShellExit
  <2>29. ASSUME NEW c \in Conns, AgentEnds(c) PROVE NoDeadPeer'
    BY <2>29 DEF TypeOK, AgentEnds
  <2>30. ASSUME NEW c \in Conns, LinkBreaks(c) PROVE NoDeadPeer'
    BY <2>30 DEF TypeOK, LinkBreaks
  <2>31. ASSUME ServerRestart PROVE NoDeadPeer'
    BY <2>31 DEF TypeOK, ServerRestart
  <2>32. CASE UNCHANGED vars
    BY <2>32 DEF vars
  <2> QED
    BY <2>1, <2>2, <2>3, <2>4, <2>5, <2>6, <2>7, <2>8, <2>9, <2>10, <2>11, <2>12, <2>13, <2>14, <2>15, <2>16, <2>17, <2>18, <2>19, <2>20, <2>21, <2>22, <2>23, <2>24, <2>25, <2>26, <2>27, <2>28, <2>29, <2>30, <2>31, <2>32
    DEF TypeOK, Next, User, Requests, Connections, Faults, CreateRequest, Handler,
        Handshake, Synchronise, Receive, Disconnect, ServerSyncMark, CleanUpMark,
        AgentLoop, AgentShells, AgentCrash, AgentSeesBreak
<1>3. QED BY <1>1, <1>2, TypeCorrect, PTL DEF Spec

\* The inductive invariant of routing: rows, routes, peers, shells and messages
\* agree on the device of a session.
THEOREM RoutingCorrect == Spec => []RoutingInv
<1>1. Init => RoutingInv
  BY ConnAssumption DEF Init, RoutingInv, RowInv, NoDeadPeer, OnlyOnOwner, Serving, CleanUp, Owns
<1>2. TypeOK /\ TypeOK' /\ RoutingInv /\ [Next]_vars => RoutingInv'
  <2> SUFFICES ASSUME TypeOK, TypeOK', RoutingInv, [Next]_vars PROVE RoutingInv'
    OBVIOUS
  <2> USE ConnAssumption DEF dbVars, memVars, connVars, agentVars, reqVars, RoutingInv, RowInv, NoDeadPeer, OnlyOnOwner, Serving, CleanUp, Owns
  <2>1. ASSUME NEW s \in Sessions, NEW d \in Devices, CreateCheck(s, d) PROVE RoutingInv'
    BY <2>1 DEF TypeOK, CreateCheck
  <2>2. ASSUME NEW s \in Sessions, CreateInsert(s) PROVE RoutingInv'
    BY <2>2 DEF TypeOK, CreateInsert
  <2>3. ASSUME NEW s \in Sessions, CreateBind(s) PROVE RoutingInv'
    BY <2>3 DEF TypeOK, CreateBind
  <2>4. ASSUME NEW s \in Sessions, CreateSend(s) PROVE RoutingInv'
    <3>1. CASE SendOK(s)
      <4>1. /\ Peer(s) \in Conns
            /\ route[s] \in Devices /\ agents[route[s]] = Peer(s)
        BY <3>1 DEF SendOK, Peer, TypeOK
      <4>2. owner[s] = ConnDevice[Peer(s)]
        BY <4>1
      <4>3. UNCHANGED <<owner, route, agents, pc, ptys, target>>
        BY <2>4 DEF CreateSend
      <4>4. creq' = creq \/ creq' = [creq EXCEPT ![s] = "done"]
        BY <2>4 DEF CreateSend
      <4>5. down' = down \/ down' = Push(down, Peer(s), "start", s)
        BY <2>4 DEF CreateSend
      <4>6. ASSUME NEW c \in Conns, NEW i \in 1..Len(down'[c])
            PROVE  owner[down'[c][i].s] = ConnDevice[c]
        <5>1. down \in [Conns -> Seq(DownMsg)]
          BY DEF TypeOK
        <5>2. CASE down' = down
          BY <5>2
        <5>3. CASE down' = Push(down, Peer(s), "start", s)
          <6>1. \/ i \in 1..Len(down[c]) /\ down'[c][i] = down[c][i]
                \/ c = Peer(s) /\ down'[c][i] = [t |-> "start", s |-> s]
            BY <4>1, <5>1, <5>3, PushElements
          <6> QED BY <4>2, <6>1
        <5> QED BY <4>5, <5>2, <5>3
      <4> QED BY <4>3, <4>4, <4>6 DEF TypeOK
    <3>2. CASE ~SendOK(s)
      BY <2>4, <3>2 DEF TypeOK, CreateSend
    <3> QED BY <3>1, <3>2
  <2>5. ASSUME NEW s \in Sessions, CreateSendFails(s) PROVE RoutingInv'
    BY <2>5 DEF TypeOK, CreateSendFails
  <2>6. ASSUME NEW s \in Sessions, CreateMarkLost(s) PROVE RoutingInv'
    BY <2>6 DEF TypeOK, CreateMarkLost
  <2>7. ASSUME NEW s \in Sessions, CloseMark(s) PROVE RoutingInv'
    BY <2>7 DEF TypeOK, CloseMark
  <2>8. ASSUME NEW s \in Sessions, CloseSend(s) PROVE RoutingInv'
    <3>1. CASE SendOK(s)
      <4>1. /\ Peer(s) \in Conns
            /\ route[s] \in Devices /\ agents[route[s]] = Peer(s)
        BY <3>1 DEF SendOK, Peer, TypeOK
      <4>2. owner[s] = ConnDevice[Peer(s)]
        BY <4>1
      <4>3. UNCHANGED <<owner, route, agents, pc, ptys, target>>
        BY <2>8 DEF CloseSend
      <4>4. creq' = creq \/ creq' = [creq EXCEPT ![s] = "done"]
        BY <2>8 DEF CloseSend
      <4>5. down' = down \/ down' = Push(down, Peer(s), "close", s)
        BY <2>8 DEF CloseSend
      <4>6. ASSUME NEW c \in Conns, NEW i \in 1..Len(down'[c])
            PROVE  owner[down'[c][i].s] = ConnDevice[c]
        <5>1. down \in [Conns -> Seq(DownMsg)]
          BY DEF TypeOK
        <5>2. CASE down' = down
          BY <5>2
        <5>3. CASE down' = Push(down, Peer(s), "close", s)
          <6>1. \/ i \in 1..Len(down[c]) /\ down'[c][i] = down[c][i]
                \/ c = Peer(s) /\ down'[c][i] = [t |-> "close", s |-> s]
            BY <4>1, <5>1, <5>3, PushElements
          <6> QED BY <4>2, <6>1
        <5> QED BY <4>5, <5>2, <5>3
      <4> QED BY <4>3, <4>4, <4>6 DEF TypeOK
    <3>2. CASE ~SendOK(s)
      BY <2>8, <3>2 DEF TypeOK, CloseSend
    <3> QED BY <3>1, <3>2
  <2>9. ASSUME NEW s \in Sessions, WebSubscribe(s) PROVE RoutingInv'
    BY <2>9 DEF TypeOK, WebSubscribe
  <2>10. ASSUME NEW c \in Conns, ServerHello(c) PROVE RoutingInv'
    BY <2>10 DEF TypeOK, ServerHello
  <2>11. ASSUME NEW c \in Conns, ServerNoHello(c) PROVE RoutingInv'
    BY <2>11 DEF TypeOK, ServerNoHello
  <2>12. ASSUME NEW c \in Conns, ServerAttach(c) PROVE RoutingInv'
    BY <2>12 DEF TypeOK, ServerAttach
  <2>13. ASSUME NEW c \in Conns, ServerSyncList(c) PROVE RoutingInv'
    BY <2>13 DEF TypeOK, ServerSyncList
  <2>14. ASSUME NEW c \in Conns, NEW s \in Sessions, MarkListed(c, s) PROVE RoutingInv'
    BY <2>14 DEF TypeOK, MarkListed
  <2>15. ASSUME NEW c \in Conns, ServerSyncDone(c) PROVE RoutingInv'
    BY <2>15 DEF TypeOK, ServerSyncDone
  <2>16. ASSUME NEW c \in Conns, ServerSeesBreak(c) PROVE RoutingInv'
    BY <2>16 DEF TypeOK, ServerSeesBreak
  <2>17. ASSUME NEW c \in Conns, CleanUpList(c) PROVE RoutingInv'
    BY <2>17 DEF TypeOK, CleanUpList
  <2>18. ASSUME NEW c \in Conns, CleanUpMarked(c) PROVE RoutingInv'
    BY <2>18 DEF TypeOK, CleanUpMarked
  <2>19. ASSUME NEW c \in Conns, CleanUpOffline(c) PROVE RoutingInv'
    BY <2>19 DEF TypeOK, CleanUpOffline
  <2>20. ASSUME NEW c \in Conns, CleanUpDetach(c) PROVE RoutingInv'
    BY <2>20 DEF TypeOK, CleanUpDetach
  <2>21. ASSUME NEW c \in Conns, ServerStarted(c) PROVE RoutingInv'
    BY <2>21 DEF TypeOK, ServerStarted
  <2>22. ASSUME NEW c \in Conns, ServerReadStatus(c) PROVE RoutingInv'
    <3>1. /\ pc \in [Conns -> PCs] /\ pc[c] = "read"
          /\ agents \in [Devices -> Conns \union {NoConn}]
      BY <2>22 DEF TypeOK, ServerReadStatus
    <3>2. pc' = pc \/ pc' = [pc EXCEPT ![c] = "write"]
      BY <2>22 DEF ServerReadStatus
    <3>3. UNCHANGED <<dbVars, memVars, reqVars, ptys, down>>
      BY <2>22 DEF ServerReadStatus
    <3> QED BY <3>1, <3>2, <3>3
  <2>23. ASSUME NEW c \in Conns, ServerWriteStatus(c) PROVE RoutingInv'
    BY <2>23 DEF TypeOK, ServerWriteStatus
  <2>24. ASSUME NEW c \in Conns, AgentConnect(c) PROVE RoutingInv'
    BY <2>24 DEF TypeOK, AgentConnect
  <2>25. ASSUME NEW c \in Conns, AgentStart(c) PROVE RoutingInv'
    BY <2>25 DEF TypeOK, AgentStart
  <2>26. ASSUME NEW c \in Conns, AgentClose(c) PROVE RoutingInv'
    BY <2>26 DEF TypeOK, AgentClose
  <2>27. ASSUME NEW c \in Conns, NEW s \in Sessions, AgentOutput(c, s) PROVE RoutingInv'
    BY <2>27 DEF TypeOK, AgentOutput
  <2>28. ASSUME NEW c \in Conns, NEW s \in Sessions, AgentShellExit(c, s) PROVE RoutingInv'
    BY <2>28 DEF TypeOK, AgentShellExit
  <2>29. ASSUME NEW c \in Conns, AgentEnds(c) PROVE RoutingInv'
    BY <2>29 DEF TypeOK, AgentEnds
  <2>30. ASSUME NEW c \in Conns, LinkBreaks(c) PROVE RoutingInv'
    BY <2>30 DEF TypeOK, LinkBreaks
  <2>31. ASSUME ServerRestart PROVE RoutingInv'
    BY <2>31 DEF TypeOK, ServerRestart
  <2>32. CASE UNCHANGED vars
    BY <2>32 DEF vars
  <2> QED
    BY <2>1, <2>2, <2>3, <2>4, <2>5, <2>6, <2>7, <2>8, <2>9, <2>10, <2>11, <2>12, <2>13, <2>14, <2>15, <2>16, <2>17, <2>18, <2>19, <2>20, <2>21, <2>22, <2>23, <2>24, <2>25, <2>26, <2>27, <2>28, <2>29, <2>30, <2>31, <2>32
    DEF TypeOK, Next, User, Requests, Connections, Faults, CreateRequest, Handler,
        Handshake, Synchronise, Receive, Disconnect, ServerSyncMark, CleanUpMark,
        AgentLoop, AgentShells, AgentCrash, AgentSeesBreak
<1>3. QED BY <1>1, <1>2, TypeCorrect, PTL DEF Spec

\* A shell runs, and start and close messages travel, only on a connection of
\* the device that owns the session: for every set of devices, connections and
\* sessions, through overlapping connections, crashes and restarts of the server.
THEOREM OwnerCorrect == Spec => []OnlyOnOwner
<1>1. RoutingInv => OnlyOnOwner
  BY DEF RoutingInv
<1> QED BY <1>1, RoutingCorrect, PTL
=============================================================================
