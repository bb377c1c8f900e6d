----------------------- MODULE SessionHandlersProofs -----------------------
(* Theorems about SessionHandlers, for all settings, any number of retries, *)
(* connections and datagrams, and TCP servers that may fail to start.       *)
EXTENDS SessionHandlers, SequenceTheorems, TLAPS

ConnectionsTyped == connections \in Seq(Connection)

----------------------------------------------------------------------------
(* How a step changes the connections.                                      *)

\* An end that changes leaves the other connections as they are.
LEMMA EndChanges ==
  ASSUME ConnectionsTyped, NEW c \in DOMAIN connections, NEW r \in Connection,
         connections' = [connections EXCEPT ![c] = r]
  PROVE  /\ ConnectionsTyped'
         /\ Len(connections') = Len(connections)
         /\ DOMAIN connections' = DOMAIN connections
         /\ \A d \in DOMAIN connections :
              connections'[d] = IF d = c THEN r ELSE connections[d]
<1>1. c \in 1..Len(connections) /\ DOMAIN connections = 1..Len(connections)
  BY LenProperties DEF ConnectionsTyped
<1>2. /\ connections' \in Seq(Connection)
      /\ Len(connections') = Len(connections)
      /\ \A d \in 1..Len(connections) :
           connections'[d] = IF d = c THEN r ELSE connections[d]
  BY <1>1, ExceptSeq DEF ConnectionsTyped
<1>3. DOMAIN connections' = 1..Len(connections')
  BY <1>2, LenProperties
<1> QED
  BY <1>1, <1>2, <1>3 DEF ConnectionsTyped

\* A new connection leaves the others as they are.
LEMMA ConnectionAdded ==
  ASSUME ConnectionsTyped, NEW r \in Connection,
         connections' = Append(connections, r)
  PROVE  /\ ConnectionsTyped'
         /\ Len(connections) \in Nat
         /\ Len(connections') = Len(connections) + 1
         /\ DOMAIN connections' = DOMAIN connections \cup {Len(connections')}
         /\ connections'[Len(connections')] = r
         /\ \A d \in DOMAIN connections : connections'[d] = connections[d]
BY DEF ConnectionsTyped

\* Stopping and closing an end keeps a connection a connection.
LEMMA EndTyped ==
  ASSUME NEW r \in Connection
  PROVE  /\ \A e \in {"live", "stopping", "closed"} : [r EXCEPT !.evcc = e] \in Connection
         /\ \A e \in {"live", "stopping", "closed"} : [r EXCEPT !.secc = e] \in Connection
         /\ \A e \in {"failed", "terminate", "pause"} :
              [r EXCEPT !.secc = "stopping", !.ending = e] \in Connection
BY DEF Connection

----------------------------------------------------------------------------
(* The EVCC: one thing at a time.                                           *)

\* The inductive invariant: EvccOneAtATime and the types it needs.
EvccInv ==
  /\ ConnectionsTyped
  /\ evcc_pc \in {"starting", "idle", "polling", "awaiting", "ended", "crashed"}
  /\ evcc_queue \in Seq(Notification)
  /\ udp_inbox \in Seq({"response"} \cup Garbled)
  /\ EvccOneAtATime

\* Nothing happens to the invariant when the EVCC's ends and its handler stay.
LEMMA EvccUntouched ==
  ASSUME EvccInv, ConnectionsTyped', UNCHANGED evccVars,
         DOMAIN connections' = DOMAIN connections,
         \A d \in DOMAIN connections : connections'[d].evcc = connections[d].evcc
  PROVE  EvccInv'
<1>1. EvccSessions' = EvccSessions
  BY DEF EvccSessions
<1> QED
  BY <1>1 DEF EvccInv, EvccOneAtATime, evccVars

\* A notification taken leaves an empty queue, and no session was there.
LEMMA TakesOne ==
  ASSUME EvccInv, NEW n, Takes(n)
  PROVE  /\ evcc_queue = << n >> /\ evcc_queue' = << >>
         /\ EvccSessions = {} /\ evcc_pc = "idle"
         /\ UNCHANGED udp_inbox
         /\ n \in {"stop_successful", "stop_failed"} => comm_session # 0
<1>1. Len(evcc_queue) = 1 /\ evcc_queue # << >> /\ EvccSessions = {} /\ evcc_pc = "idle"
  BY DEF EvccInv, EvccOneAtATime, Takes
<1>2. evcc_queue = << n >>
  <2>1. Head(evcc_queue) = n
    BY DEF Takes
  <2> QED
    BY <1>1, <2>1 DEF EvccInv
<1>3. evcc_queue' = << >>
  BY <1>1 DEF Takes, EvccInv
<1> QED
  BY <1>1, <1>2, <1>3 DEF EvccInv, EvccOneAtATime, Takes

\* With nothing queued and no session the invariant asks for types only.
LEMMA NothingOwed ==
  ASSUME EvccInv, UNCHANGED connections, EvccSessions = {},
         evcc_queue' = << >>,
         udp_inbox' \in Seq({"response"} \cup Garbled),
         evcc_pc' \in {"starting", "idle", "polling", "awaiting", "ended", "crashed"}
  PROVE  EvccInv'
<1>1. EvccSessions' = {}
  BY DEF EvccSessions
<1>2. evcc_queue' \in Seq(Notification)
  BY EmptySeq
<1> QED
  BY <1>1, <1>2 DEF EvccInv, EvccOneAtATime, ConnectionsTyped

\* restart_sdp ends in one of its two waits or in "failed".
LEMMA RestartSdpPc ==
  ASSUME NEW new, NEW failed, RestartSdp(new, failed)
  PROVE  evcc_pc' \in {"polling", "awaiting", failed}
BY DEF RestartSdp, SendSdp

LEMMA EvccInvInit == Init => EvccInv
<1> SUFFICES ASSUME Init PROVE EvccInv
  OBVIOUS
<1>1. EvccSessions = {}
  BY DEF Init, LinkInit, EvccSessions
<1> QED
  BY <1>1, EmptySeq DEF Init, LinkInit, EvccInit, EvccInv, EvccOneAtATime, ConnectionsTyped

\* Each of the EVCC handler's own steps.
LEMMA EvccInvEvccStep ==
  ASSUME EvccInv, EvccStep
  PROVE  EvccInv'
<1>1. CASE StartSdp
  <2>1. evcc_queue = << >> /\ EvccSessions = {}
    BY <1>1 DEF EvccInv, EvccOneAtATime, StartSdp
  <2>2. evcc_pc' \in {"polling", "awaiting", "ended"}
    BY <1>1, RestartSdpPc DEF StartSdp
  <2> QED
    BY <1>1, <2>1, <2>2, NothingOwed DEF StartSdp, EvccInv
<1>2. CASE DatagramReceived
  <2>1. udp_inbox' \in Seq({"response"} \cup Garbled)
    BY <1>2 DEF DatagramReceived, EvccInv
  <2>2. EvccSessions' = EvccSessions
    BY <1>2 DEF DatagramReceived, EvccSessions
  <2> QED
    BY <1>2, <2>1, <2>2 DEF DatagramReceived, EvccInv, EvccOneAtATime, ConnectionsTyped
<1>20. CASE ErrorReceived
  <2>1. EvccSessions' = EvccSessions
    BY <1>20 DEF ErrorReceived, linkVars, EvccSessions
  <2> QED
    BY <1>20, <2>1 DEF ErrorReceived, linkVars, EvccInv, EvccOneAtATime, ConnectionsTyped
<1>3. CASE Receive
  <2>1. evcc_queue = << >> /\ EvccSessions = {}
    BY <1>3 DEF EvccInv, EvccOneAtATime, Receive
  <2>2. EvccSessions' = {}
    BY <1>3, <2>1 DEF Receive, linkVars, EvccSessions
  <2>3. udp_inbox' \in Seq({"response"} \cup Garbled)
    BY <1>3, HeadTailProperties DEF Receive, EvccInv
  <2>4. PICK n \in {"response", "timeout"} \cup Garbled : evcc_queue' = << n >>
    <3>1. CASE udp_inbox # << >>
      <4>1. Head(udp_inbox) \in {"response"} \cup Garbled
        BY <3>1, HeadTailProperties DEF EvccInv
      <4>2. evcc_queue' = Append(<< >>, Head(udp_inbox))
        BY <1>3, <2>1, <3>1 DEF Receive
      <4>3. evcc_queue' = << Head(udp_inbox) >>
        BY <4>2
      <4> QED
        BY <4>1, <4>3, Zenon
    <3>2. CASE udp_inbox = << >>
      BY <1>3, <2>1, <3>2 DEF Receive
    <3> QED
      BY <3>1, <3>2
  <2>5. n \in Notification \ {"stop_successful", "stop_failed"}
    BY <2>4, LinkAssumption DEF Notification
  <2>6. /\ evcc_queue' \in Seq(Notification)
        /\ Len(evcc_queue') = 1
        /\ evcc_queue' \notin {<< "stop_successful" >>, << "stop_failed" >>}
    BY <2>4, <2>5
  <2>7. evcc_pc' = "idle" /\ ConnectionsTyped'
    BY <1>3 DEF Receive, linkVars, EvccInv, ConnectionsTyped
  <2> QED
    BY <2>2, <2>3, <2>6, <2>7 DEF EvccInv, EvccOneAtATime
<1>4. CASE ProcessOtherPacket
  <2>1. PICK n : Takes(n)
    BY <1>4 DEF ProcessOtherPacket
  <2>2. evcc_pc' \in {"polling", "awaiting", "idle", "crashed"}
    BY <1>4, RestartSdpPc DEF ProcessOtherPacket, Takes
  <2> QED
    BY <1>4, <2>1, <2>2, TakesOne, NothingOwed DEF ProcessOtherPacket, EvccInv
<1>5. CASE ProcessTimeout
  <2>1. evcc_pc' \in {"polling", "awaiting", "idle"}
    BY <1>5, RestartSdpPc DEF ProcessTimeout
  <2> QED
    BY <1>5, <2>1, TakesOne, NothingOwed DEF ProcessTimeout, EvccInv
<1>6. ASSUME NEW successful \in BOOLEAN, ProcessStop(successful)
      PROVE  EvccInv'
  <2>1. PICK n : Takes(n)
    BY <1>6 DEF ProcessStop
  <2>2. evcc_pc' \in {"polling", "awaiting", "idle", "crashed", "ended"}
    BY <1>6, RestartSdpPc DEF ProcessStop
  <2> QED
    BY <1>6, <2>1, <2>2, TakesOne, NothingOwed DEF ProcessStop, EvccInv
<1>7. ASSUME NEW c \in DOMAIN connections, NEW successful \in BOOLEAN,
             EvccCloses(c, successful)
      PROVE  EvccInv'
  <2>1. connections[c] \in Connection
    BY LenProperties, ElementOfSeq DEF EvccInv, ConnectionsTyped
  <2>2. /\ c \in EvccSessions
        /\ evcc_queue = << >>
        /\ EvccSessions = {c}
        /\ evcc_pc = "idle" => comm_session # 0
        /\ evcc_pc \notin {"starting", "polling", "awaiting"}
    <3>1. c \in EvccSessions
      BY <1>7 DEF EvccCloses, EvccSessions
    <3> QED
      BY <3>1 DEF EvccInv, EvccOneAtATime
  <2>3. PICK r \in Connection : /\ connections' = [connections EXCEPT ![c] = r]
                                /\ r.evcc = "closed"
    <3>1. [connections[c] EXCEPT !.evcc = "closed"] \in Connection
      BY <2>1, EndTyped
    <3>2. [connections[c] EXCEPT !.evcc = "closed"].evcc = "closed"
      BY <2>1 DEF Connection
    <3> QED
      BY <1>7, <3>1, <3>2 DEF EvccCloses
  <2>4. ConnectionsTyped' /\ EvccSessions' = {}
    <3>1. /\ ConnectionsTyped' /\ DOMAIN connections' = DOMAIN connections
          /\ \A d \in DOMAIN connections :
               connections'[d] = IF d = c THEN r ELSE connections[d]
      BY <2>3, EndChanges DEF EvccInv
    <3> QED
      BY <2>2, <2>3, <3>1 DEF EvccSessions
  <2>5. PICK n \in {"stop_successful", "stop_failed"} : evcc_queue' = << n >>
    BY <1>7, <2>2 DEF EvccCloses
  <2>6. evcc_queue' \in Seq(Notification) /\ Len(evcc_queue') = 1
    BY <2>5 DEF Notification
  <2> QED
    BY <1>7, <2>2, <2>4, <2>6 DEF EvccCloses, EvccInv, EvccOneAtATime
<1>8. ASSUME NEW c \in DOMAIN connections, EvccStops(c)
      PROVE  EvccInv'
  <2>1. connections[c] \in Connection
    BY LenProperties, ElementOfSeq DEF EvccInv, ConnectionsTyped
  <2>2. PICK r \in Connection : /\ connections' = [connections EXCEPT ![c] = r]
                                /\ r.evcc = "stopping"
    <3>1. [connections[c] EXCEPT !.evcc = "stopping"] \in Connection
      BY <2>1, EndTyped
    <3>2. [connections[c] EXCEPT !.evcc = "stopping"].evcc = "stopping"
      BY <2>1 DEF Connection
    <3> QED
      BY <1>8, <3>1, <3>2 DEF EvccStops
  <2>3. /\ ConnectionsTyped' /\ DOMAIN connections' = DOMAIN connections
        /\ \A d \in DOMAIN connections :
             connections'[d] = IF d = c THEN r ELSE connections[d]
    BY <2>2, EndChanges DEF EvccInv
  <2>4. EvccSessions' = EvccSessions
    BY <1>8, <2>2, <2>3 DEF EvccStops, EvccSessions
  <2> QED
    BY <1>8, <2>3, <2>4 DEF EvccStops, evccVars, EvccInv, EvccOneAtATime
<1> QED
  BY <1>1, <1>2, <1>20, <1>3, <1>4, <1>5, <1>6, <1>7, <1>8 DEF EvccStep

----------------------------------------------------------------------------
(* The SECC: deaf only while a session's end will wake it.                  *)

NoticeRecord == [kind : {"idle", "udp", "tcp", "stop"}, c : Nat,
                 action : {"none", "terminate", "pause"}]

\* The inductive invariant: PausedForSession, and that the connections it
\* speaks of, registered or about to be, exist.
SeccInv ==
  /\ ConnectionsTyped
  /\ secc_task \in NoticeRecord
  /\ secc_queue \in Seq(NoticeRecord)
  /\ \A i \in DOMAIN secc_queue :
       secc_queue[i].kind = "tcp" => secc_queue[i].c \in DOMAIN connections
  /\ comm_sessions \in {0} \cup DOMAIN connections
  /\ PausedForSession

\* A notification queued leaves those there were.
LEMMA NoticeQueued ==
  ASSUME SeccInv, NEW n \in NoticeRecord, secc_queue' = Append(secc_queue, n)
  PROVE  /\ secc_queue' \in Seq(NoticeRecord)
         /\ \A i \in DOMAIN secc_queue : i \in DOMAIN secc_queue' /\ secc_queue'[i] = secc_queue[i]
         /\ \A i \in DOMAIN secc_queue' : \/ secc_queue'[i] = n
                                          \/ i \in DOMAIN secc_queue /\ secc_queue'[i] = secc_queue[i]
         /\ \E i \in DOMAIN secc_queue' : secc_queue'[i] = n
<1>1. /\ secc_queue' \in Seq(NoticeRecord)
      /\ DOMAIN secc_queue' = 1..(Len(secc_queue) + 1)
      /\ DOMAIN secc_queue = 1..Len(secc_queue)
      /\ Len(secc_queue) \in Nat
      /\ secc_queue'[Len(secc_queue) + 1] = n
      /\ \A i \in 1..Len(secc_queue) : secc_queue'[i] = secc_queue[i]
  BY DEF SeccInv
<1> QED
  BY <1>1

\* A notification taken from the queue leaves the others.
LEMMA NoticeTaken ==
  ASSUME SeccInv, secc_queue # << >>, secc_queue' = Tail(secc_queue)
  PROVE  /\ secc_queue' \in Seq(NoticeRecord)
         /\ 1 \in DOMAIN secc_queue /\ Head(secc_queue) = secc_queue[1]
         /\ Head(secc_queue) \in NoticeRecord
         /\ \A i \in DOMAIN secc_queue' :
              i + 1 \in DOMAIN secc_queue /\ secc_queue'[i] = secc_queue[i + 1]
         /\ \A i \in DOMAIN secc_queue : \/ secc_queue[i] = Head(secc_queue)
                                         \/ \E j \in DOMAIN secc_queue' : secc_queue'[j] = secc_queue[i]
<1>1. /\ secc_queue' \in Seq(NoticeRecord)
      /\ Head(secc_queue) \in NoticeRecord
      /\ Len(secc_queue') = Len(secc_queue) - 1
      /\ \A i \in 1..Len(secc_queue') : secc_queue'[i] = secc_queue[i + 1]
  BY HeadTailProperties DEF SeccInv
<1>2. /\ Len(secc_queue) \in Nat \ {0}
      /\ DOMAIN secc_queue = 1..Len(secc_queue)
      /\ DOMAIN secc_queue' = 1..Len(secc_queue')
  BY <1>1, EmptySeq, LenProperties DEF SeccInv
<1>3. Head(secc_queue) = secc_queue[1]
  BY <1>2 DEF SeccInv
<1>4. ASSUME NEW i \in DOMAIN secc_queue, i # 1
      PROVE  \E j \in DOMAIN secc_queue' : secc_queue'[j] = secc_queue[i]
  <2>1. i - 1 \in DOMAIN secc_queue' /\ (i - 1) + 1 = i
    BY <1>1, <1>2, <1>4
  <2> QED
    BY <1>1, <1>2, <2>1
<1> QED
  BY <1>1, <1>2, <1>3, <1>4

\* Nothing happens to the invariant when the SECC's ends and its handler stay.
LEMMA SeccUntouched ==
  ASSUME SeccInv, ConnectionsTyped',
         DOMAIN connections \subseteq DOMAIN connections',
         \A d \in DOMAIN connections : connections'[d].secc = connections[d].secc,
         UNCHANGED << secc_task, secc_queue, pause_server, comm_sessions >>
  PROVE  SeccInv'
<1>1. PausedForSession'
  <2>1. SUFFICES ASSUME pause_server
                 PROVE  comm_sessions # 0 /\ EndToCome(comm_sessions)'
    BY DEF PausedForSession
  <2>2. comm_sessions \in DOMAIN connections /\ EndToCome(comm_sessions)
    BY <2>1 DEF SeccInv, PausedForSession
  <2>3. comm_sessions # 0
    BY <2>1 DEF SeccInv, PausedForSession
  <2> QED
    BY <2>2, <2>3 DEF EndToCome
<1> QED
  BY <1>1 DEF SeccInv

LEMMA SeccInvInit == Init => SeccInv
BY EmptySeq DEF Init, LinkInit, SeccInit, SeccInv, PausedForSession, ConnectionsTyped,
                Idle, Notice, NoticeRecord

\* What Finish does to the SECC: a new server and a response leave what the
\* UDP server and the register are; the end of a session resumes the first.
LEMMA FinishResumes ==
  ASSUME SeccInv, NEW n, Finish(n)
  PROVE  /\ UNCHANGED connections
         /\ comm_sessions' \in {0, comm_sessions}
         /\ \/ n.kind = "udp" /\ UNCHANGED << pause_server, comm_sessions >>
            \/ n.kind # "udp" /\ pause_server' = FALSE
<1>1. CASE n.kind = "udp"
  BY <1>1 DEF Finish, Respond
<1>2. CASE n.kind # "udp"
  <2>1. EndSession(n.c, n.action)
    BY <1>2 DEF Finish
  <2>2. comm_sessions = 0 => pause_server = FALSE
    BY DEF SeccInv, PausedForSession
  <2> QED
    BY <1>2, <2>1, <2>2 DEF EndSession, linkVars
<1> QED
  BY <1>1, <1>2

LEMMA SeccInvSeccStep ==
  ASSUME SeccInv, SeccStep
  PROVE  SeccInv'
<1>1. CASE RequestReceived
  <2>1. UNCHANGED << connections, secc_task, secc_queue, pause_server, comm_sessions >>
    BY <1>1 DEF RequestReceived
  <2> QED
    BY <2>1, SeccUntouched DEF SeccInv, ConnectionsTyped
<1>2. CASE RelayRequest
  <2> DEFINE n == Notice("udp", 0, "none")
  <2>1. n \in NoticeRecord /\ n.kind = "udp"
    BY DEF Notice, NoticeRecord
  <2>2. /\ secc_queue' = Append(secc_queue, n)
        /\ UNCHANGED << connections, secc_task, pause_server, comm_sessions >>
    BY <1>2 DEF RelayRequest, linkVars
  <2> HIDE DEF n
  <2>3. /\ secc_queue' \in Seq(NoticeRecord)
        /\ \A i \in DOMAIN secc_queue : i \in DOMAIN secc_queue' /\ secc_queue'[i] = secc_queue[i]
        /\ \A i \in DOMAIN secc_queue' : \/ secc_queue'[i] = n
                                         \/ i \in DOMAIN secc_queue /\ secc_queue'[i] = secc_queue[i]
    BY <2>1, <2>2, NoticeQueued
  <2>4. EndToCome(comm_sessions) => EndToCome(comm_sessions)'
    BY <2>2, <2>3 DEF EndToCome
  <2> QED
    BY <2>1, <2>2, <2>3, <2>4 DEF SeccInv, PausedForSession, ConnectionsTyped
<1>3. CASE HandleNotice
  <2> DEFINE n == Head(secc_queue)
  <2>1. /\ secc_queue # << >> /\ secc_queue' = Tail(secc_queue)
        /\ n.kind \in {"udp", "stop"} /\ secc_task = Idle
    BY <1>3 DEF HandleNotice
  <2>2. /\ secc_queue' \in Seq(NoticeRecord) /\ n \in NoticeRecord
        /\ \A i \in DOMAIN secc_queue' :
             i + 1 \in DOMAIN secc_queue /\ secc_queue'[i] = secc_queue[i + 1]
        /\ \A i \in DOMAIN secc_queue : \/ secc_queue[i] = n
                                        \/ \E j \in DOMAIN secc_queue' : secc_queue'[j] = secc_queue[i]
    BY <2>1, NoticeTaken
  <2>3. secc_task.kind = "idle"
    BY <2>1 DEF Idle, Notice
  <2>4. \/ secc_task' = n /\ UNCHANGED << connections, pause_server, comm_sessions >>
        \/ Finish(n) /\ UNCHANGED secc_task
    BY <1>3 DEF HandleNotice, linkVars
  <2> HIDE DEF n
  <2>5. CASE secc_task' = n /\ UNCHANGED << connections, pause_server, comm_sessions >>
    <3>1. EndToCome(comm_sessions) => EndToCome(comm_sessions)'
      BY <2>2, <2>3, <2>5 DEF EndToCome
    <3> QED
      BY <2>2, <2>5, <3>1 DEF SeccInv, PausedForSession, ConnectionsTyped
  <2>6. CASE Finish(n) /\ UNCHANGED secc_task
    <3>1. /\ UNCHANGED connections /\ comm_sessions' \in {0, comm_sessions}
          /\ \/ n.kind = "udp" /\ UNCHANGED << pause_server, comm_sessions >>
             \/ pause_server' = FALSE
      BY <2>6, FinishResumes
    <3>2. CASE n.kind = "udp" /\ UNCHANGED << pause_server, comm_sessions >>
      <4>1. EndToCome(comm_sessions) => EndToCome(comm_sessions)'
        BY <2>2, <2>6, <3>1, <3>2 DEF EndToCome
      <4> QED
        BY <2>2, <2>6, <3>1, <3>2, <4>1 DEF SeccInv, PausedForSession, ConnectionsTyped
    <3>3. CASE pause_server' = FALSE
      BY <2>2, <2>6, <3>1, <3>3 DEF SeccInv, PausedForSession, ConnectionsTyped
    <3> QED
      BY <3>1, <3>2, <3>3
  <2> QED
    BY <2>4, <2>5, <2>6
<1>4. CASE ServerClosed
  <2>1. Finish(secc_task) /\ secc_task' = Idle /\ UNCHANGED secc_queue
    BY <1>4 DEF ServerClosed
  <2>2. Idle \in NoticeRecord
    BY DEF Idle, Notice, NoticeRecord
  <2>3. /\ UNCHANGED connections /\ comm_sessions' \in {0, comm_sessions}
        /\ \/ secc_task.kind = "udp" /\ UNCHANGED << pause_server, comm_sessions >>
           \/ pause_server' = FALSE
    BY <2>1, FinishResumes
  <2>4. CASE secc_task.kind = "udp" /\ UNCHANGED << pause_server, comm_sessions >>
    <3>1. EndToCome(comm_sessions) => EndToCome(comm_sessions)'
      BY <2>1, <2>3, <2>4 DEF EndToCome
    <3> QED
      BY <2>1, <2>2, <2>3, <2>4, <3>1 DEF SeccInv, PausedForSession, ConnectionsTyped
  <2>5. CASE pause_server' = FALSE
    BY <2>1, <2>2, <2>3, <2>5 DEF SeccInv, PausedForSession, ConnectionsTyped
  <2> QED
    BY <2>3, <2>4, <2>5
<1>5. CASE HandleTcpClient
  <2> DEFINE c == Head(secc_queue).c
  <2>1. /\ secc_queue # << >> /\ secc_queue' = Tail(secc_queue)
        /\ Head(secc_queue).kind = "tcp"
        /\ connections' = [connections EXCEPT ![c].secc = "live"]
        /\ comm_sessions' = c
        /\ UNCHANGED secc_task
    BY <1>5 DEF HandleTcpClient
  <2>2. /\ secc_queue' \in Seq(NoticeRecord)
        /\ 1 \in DOMAIN secc_queue /\ Head(secc_queue) = secc_queue[1]
        /\ \A i \in DOMAIN secc_queue' :
             i + 1 \in DOMAIN secc_queue /\ secc_queue'[i] = secc_queue[i + 1]
    BY <2>1, NoticeTaken
  <2>3. c \in DOMAIN connections
    BY <2>1, <2>2 DEF SeccInv
  <2> HIDE DEF c
  <2>4. connections[c] \in Connection /\ c # 0
    BY <2>3, LenProperties, ElementOfSeq DEF SeccInv, ConnectionsTyped
  <2>5. PICK r \in Connection : /\ connections' = [connections EXCEPT ![c] = r]
                                /\ r.secc = "live"
    <3>1. [connections[c] EXCEPT !.secc = "live"] \in Connection
      BY <2>4, EndTyped
    <3>2. [connections[c] EXCEPT !.secc = "live"].secc = "live"
      BY <2>4 DEF Connection
    <3> QED
      BY <2>1, <3>1, <3>2
  <2>6. /\ ConnectionsTyped' /\ DOMAIN connections' = DOMAIN connections
        /\ connections'[c] = r
    BY <2>3, <2>5, EndChanges DEF SeccInv
  <2>7. PausedForSession'
    BY <2>1, <2>4, <2>5, <2>6 DEF PausedForSession, EndToCome
  <2> QED
    BY <2>1, <2>2, <2>3, <2>6, <2>7 DEF SeccInv
<1>6. ASSUME NEW c \in DOMAIN connections, NEW ending \in {"failed", "terminate", "pause"},
             SeccStops(c, ending)
      PROVE  SeccInv'
  <2>1. connections[c] \in Connection
    BY LenProperties, ElementOfSeq DEF SeccInv, ConnectionsTyped
  <2>2. PICK r \in Connection : /\ connections' = [connections EXCEPT ![c] = r]
                                /\ r.secc = "stopping"
    <3>1. [connections[c] EXCEPT !.secc = "stopping", !.ending = ending] \in Connection
      BY <2>1, EndTyped
    <3>2. [connections[c] EXCEPT !.secc = "stopping", !.ending = ending].secc = "stopping"
      BY <2>1 DEF Connection
    <3>3. connections' = [connections EXCEPT ![c] =
                            [connections[c] EXCEPT !.secc = "stopping", !.ending = ending]]
      BY <1>6, <2>1, LenProperties DEF SeccStops, SeccInv, ConnectionsTyped, Connection
    <3> QED
      BY <3>1, <3>2, <3>3
  <2>3. /\ ConnectionsTyped' /\ DOMAIN connections' = DOMAIN connections
        /\ \A d \in DOMAIN connections :
             connections'[d] = IF d = c THEN r ELSE connections[d]
    BY <2>2, EndChanges DEF SeccInv
  <2>4. UNCHANGED << secc_task, secc_queue, pause_server, comm_sessions >>
    BY <1>6 DEF SeccStops, seccVars
  <2>5. PausedForSession'
    BY <2>2, <2>3, <2>4 DEF SeccInv, PausedForSession, EndToCome
  <2> QED
    BY <2>3, <2>4, <2>5 DEF SeccInv
<1>7. ASSUME NEW c \in DOMAIN connections, SeccCloses(c)
      PROVE  SeccInv'
  <2> DEFINE n == Notice("stop", c, IF connections[c].ending = "pause" THEN "pause"
                                                                      ELSE "terminate")
  <2>1. connections[c] \in Connection /\ c \in Nat
    BY LenProperties, ElementOfSeq DEF SeccInv, ConnectionsTyped
  <2>2. n \in NoticeRecord /\ n.kind = "stop" /\ n.c = c
    BY <2>1 DEF Notice, NoticeRecord
  <2>3. /\ secc_queue' = Append(secc_queue, n)
        /\ UNCHANGED << secc_task, pause_server, comm_sessions >>
    BY <1>7 DEF SeccCloses
  <2> HIDE DEF n
  <2>4. /\ secc_queue' \in Seq(NoticeRecord)
        /\ \A i \in DOMAIN secc_queue : i \in DOMAIN secc_queue' /\ secc_queue'[i] = secc_queue[i]
        /\ \A i \in DOMAIN secc_queue' : \/ secc_queue'[i] = n
                                         \/ i \in DOMAIN secc_queue /\ secc_queue'[i] = secc_queue[i]
        /\ \E i \in DOMAIN secc_queue' : secc_queue'[i] = n
    BY <2>2, <2>3, NoticeQueued
  <2>5. PICK r \in Connection : connections' = [connections EXCEPT ![c] = r]
    <3>1. [connections[c] EXCEPT !.secc = "closed"] \in Connection
      BY <2>1, EndTyped
    <3> QED
      BY <1>7, <3>1 DEF SeccCloses
  <2>6. /\ ConnectionsTyped' /\ DOMAIN connections' = DOMAIN connections
        /\ \A d \in DOMAIN connections :
             connections'[d] = IF d = c THEN r ELSE connections[d]
    BY <2>5, EndChanges DEF SeccInv
  <2>7. ASSUME pause_server
        PROVE  EndToCome(comm_sessions)'
    <3>1. comm_sessions \in DOMAIN connections /\ EndToCome(comm_sessions)
      BY <2>7 DEF SeccInv, PausedForSession
    <3>2. CASE comm_sessions = c
      BY <2>2, <2>3, <2>4, <3>2 DEF EndToCome
    <3>3. CASE comm_sessions # c
      <4>1. connections'[comm_sessions] = connections[comm_sessions]
        BY <2>6, <3>1, <3>3
      <4> QED
        BY <2>3, <2>4, <3>1, <4>1 DEF EndToCome
    <3> QED
      BY <3>2, <3>3
  <2>8. PausedForSession'
    BY <2>3, <2>7 DEF SeccInv, PausedForSession
  <2> QED
    BY <2>2, <2>3, <2>4, <2>6, <2>8 DEF SeccInv
<1> QED
  BY <1>1, <1>2, <1>3, <1>4, <1>5, <1>6, <1>7 DEF SeccStep

----------------------------------------------------------------------------
(* Each handler under the other's steps, and under the network's.           *)

\* The EVCC's steps leave the SECC's ends of the connections.
LEMMA SeccInvEvccStep ==
  ASSUME SeccInv, EvccStep, UNCHANGED seccVars
  PROVE  SeccInv'
<1>1. CASE UNCHANGED connections
  BY <1>1, SeccUntouched DEF SeccInv, ConnectionsTyped, seccVars
<1>2. ASSUME NEW c \in DOMAIN connections, NEW e \in {"stopping", "closed"},
             connections' = [connections EXCEPT ![c].evcc = e]
      PROVE  SeccInv'
  <2>1. connections[c] \in Connection
    BY LenProperties, ElementOfSeq DEF SeccInv, ConnectionsTyped
  <2>2. PICK r \in Connection : /\ connections' = [connections EXCEPT ![c] = r]
                                /\ r.secc = connections[c].secc
    <3>1. [connections[c] EXCEPT !.evcc = e] \in Connection
      BY <2>1, EndTyped
    <3>2. [connections[c] EXCEPT !.evcc = e].secc = connections[c].secc
      BY <2>1 DEF Connection
    <3> QED
      BY <1>2, <3>1, <3>2
  <2>3. /\ ConnectionsTyped' /\ DOMAIN connections' = DOMAIN connections
        /\ \A d \in DOMAIN connections :
             connections'[d] = IF d = c THEN r ELSE connections[d]
    BY <2>2, EndChanges DEF SeccInv
  <2> QED
    BY <2>2, <2>3, SeccUntouched DEF seccVars
<1>3. ASSUME NEW c \in DOMAIN connections, NEW successful \in BOOLEAN,
             EvccCloses(c, successful)
      PROVE  SeccInv'
  BY <1>2, <1>3 DEF EvccCloses
<1>4. ASSUME NEW c \in DOMAIN connections, EvccStops(c)
      PROVE  SeccInv'
  BY <1>2, <1>4 DEF EvccStops
<1> QED
  BY <1>1, <1>3, <1>4 DEF EvccStep, StartSdp, DatagramReceived, ErrorReceived, Receive, linkVars,
     ProcessOtherPacket, ProcessTimeout, ProcessStop

\* The SECC's steps leave the EVCC's ends of the connections.
LEMMA EvccInvSeccStep ==
  ASSUME EvccInv, SeccInv, SeccStep, UNCHANGED evccVars
  PROVE  EvccInv'
<1>1. CASE UNCHANGED connections
  BY <1>1, EvccUntouched DEF EvccInv, ConnectionsTyped
<1>2. ASSUME NEW c \in DOMAIN connections, NEW r \in Connection,
             connections' = [connections EXCEPT ![c] = r],
             r.evcc = connections[c].evcc
      PROVE  EvccInv'
  <2>1. /\ ConnectionsTyped' /\ DOMAIN connections' = DOMAIN connections
        /\ \A d \in DOMAIN connections :
             connections'[d] = IF d = c THEN r ELSE connections[d]
    BY <1>2, EndChanges DEF EvccInv
  <2> QED
    BY <1>2, <2>1, EvccUntouched
<1>3. ASSUME NEW c \in DOMAIN connections, NEW e \in {"live", "closed"},
             connections' = [connections EXCEPT ![c].secc = e]
      PROVE  EvccInv'
  <2>1. connections[c] \in Connection
    BY LenProperties, ElementOfSeq DEF EvccInv, ConnectionsTyped
  <2>2. /\ [connections[c] EXCEPT !.secc = e] \in Connection
        /\ [connections[c] EXCEPT !.secc = e].evcc = connections[c].evcc
    BY <2>1 DEF Connection
  <2> QED
    BY <1>2, <1>3, <2>2
<1>4. CASE HandleTcpClient
  <2>1. /\ secc_queue # << >> /\ secc_queue' = Tail(secc_queue)
        /\ Head(secc_queue).kind = "tcp"
        /\ connections' = [connections EXCEPT ![Head(secc_queue).c].secc = "live"]
    BY <1>4 DEF HandleTcpClient
  <2>2. Head(secc_queue).c \in DOMAIN connections
    BY <2>1, NoticeTaken DEF SeccInv
  <2> QED
    BY <1>3, <2>1, <2>2
<1>5. ASSUME NEW c \in DOMAIN connections, NEW ending \in {"failed", "terminate", "pause"},
             SeccStops(c, ending)
      PROVE  EvccInv'
  <2>1. connections[c] \in Connection
    BY LenProperties, ElementOfSeq DEF EvccInv, ConnectionsTyped
  <2> DEFINE r == [connections[c] EXCEPT !.secc = "stopping", !.ending = ending]
  <2>2. r \in Connection /\ r.evcc = connections[c].evcc
    BY <2>1 DEF Connection
  <2>3. connections' = [connections EXCEPT ![c] = r]
    BY <1>5, <2>1, LenProperties DEF SeccStops, EvccInv, ConnectionsTyped, Connection
  <2> HIDE DEF r
  <2> QED
    BY <1>2, <2>2, <2>3
<1>6. ASSUME NEW c \in DOMAIN connections, SeccCloses(c)
      PROVE  EvccInv'
  BY <1>3, <1>6 DEF SeccCloses
<1>7. HandleNotice \/ ServerClosed => UNCHANGED connections
  <2>1. HandleNotice => Finish(Head(secc_queue)) \/ UNCHANGED connections
    BY DEF HandleNotice, linkVars
  <2>2. ServerClosed => Finish(secc_task)
    BY DEF ServerClosed
  <2> QED
    BY <2>1, <2>2, FinishResumes
<1> QED
  BY <1>1, <1>4, <1>5, <1>6, <1>7 DEF SeccStep, RequestReceived, RelayRequest, linkVars

\* A new connection: the EVCC's one session, and a notification for the SECC.
LEMMA ConnectInv ==
  ASSUME EvccInv, SeccInv, NEW connected \in BOOLEAN, Connect(connected)
  PROVE  EvccInv' /\ SeccInv'
<1>1. /\ Takes("response") /\ evcc_pc' = evcc_pc
  BY DEF Connect, ProcessSdpResponse
<1>2. /\ EvccSessions = {} /\ evcc_pc = "idle" /\ evcc_queue' = << >> /\ UNCHANGED udp_inbox
  BY <1>1, TakesOne
<1>3. CASE connected /\ ~ SecurityMismatch
  <2> DEFINE r == [evcc |-> "live", secc |-> "accepted", ending |-> "none"]
             k == Len(connections) + 1
             n == Notice("tcp", k, "none")
  <2>1. connections' = Append(connections, r) /\ comm_session' = k
    BY <1>3 DEF Connect, ProcessSdpResponse, StartCommSession
  <2>2. r \in Connection
    BY DEF Connection
  <2> HIDE DEF r
  <2>3. /\ ConnectionsTyped' /\ Len(connections) \in Nat
        /\ Len(connections') = k
        /\ DOMAIN connections' = DOMAIN connections \cup {k}
        /\ \A d \in DOMAIN connections : connections'[d] = connections[d]
    BY <2>1, <2>2, ConnectionAdded DEF EvccInv
  <2>4. EvccSessions' \subseteq {k} /\ k # 0
    BY <1>2, <2>3 DEF EvccSessions
  <2>5. EvccInv'
    <3>1. EvccOneAtATime'
      BY <1>1, <1>2, <2>1, <2>4 DEF EvccOneAtATime
    <3> QED
      BY <1>1, <1>2, <2>3, <3>1, EmptySeq DEF EvccInv
  <2>6. n \in NoticeRecord /\ n.c = k
    BY <2>3 DEF Notice, NoticeRecord
  <2>7. /\ secc_queue' = Append(secc_queue, n)
        /\ UNCHANGED << secc_task, pause_server, comm_sessions >>
    BY <1>3 DEF Connect, ClientConnected
  <2> HIDE DEF k, n
  <2>8. /\ secc_queue' \in Seq(NoticeRecord)
        /\ \A i \in DOMAIN secc_queue : i \in DOMAIN secc_queue' /\ secc_queue'[i] = secc_queue[i]
        /\ \A i \in DOMAIN secc_queue' : \/ secc_queue'[i] = n
                                         \/ i \in DOMAIN secc_queue /\ secc_queue'[i] = secc_queue[i]
    BY <2>6, <2>7, NoticeQueued
  <2>9. \A i \in DOMAIN secc_queue' :
          secc_queue'[i].kind = "tcp" => secc_queue'[i].c \in DOMAIN connections'
    BY <2>3, <2>6, <2>8 DEF SeccInv
  <2>10. PausedForSession'
    <3>1. SUFFICES ASSUME pause_server
                   PROVE  comm_sessions # 0 /\ EndToCome(comm_sessions)'
      BY <2>7 DEF PausedForSession
    <3>2. comm_sessions # 0 /\ comm_sessions \in DOMAIN connections /\ EndToCome(comm_sessions)
      BY <3>1 DEF SeccInv, PausedForSession
    <3>3. connections'[comm_sessions] = connections[comm_sessions]
      BY <2>3, <3>2
    <3> QED
      BY <2>7, <2>8, <3>2, <3>3 DEF EndToCome
  <2> QED
    BY <2>3, <2>5, <2>7, <2>8, <2>9, <2>10 DEF SeccInv
<1>4. CASE ~ (connected /\ ~ SecurityMismatch)
  <2>1. UNCHANGED << connections, seccVars >>
    BY <1>4 DEF Connect, ProcessSdpResponse, StartCommSession
  <2>2. EvccInv'
    BY <1>1, <1>2, <2>1, NothingOwed DEF EvccInv
  <2>3. SeccInv'
    BY <2>1, SeccUntouched DEF SeccInv, ConnectionsTyped, seccVars
  <2> QED
    BY <2>2, <2>3
<1> QED
  BY <1>3, <1>4

\* Each step keeps both invariants.
LEMMA HandlersInvNext ==
  ASSUME EvccInv, SeccInv, [Next]_vars
  PROVE  EvccInv' /\ SeccInv'
<1>1. CASE EvccNext
  BY <1>1, EvccInvEvccStep, SeccInvEvccStep DEF EvccNext
<1>2. CASE SeccNext
  BY <1>2, EvccInvSeccStep, SeccInvSeccStep DEF SeccNext
<1>3. CASE (LoseRequest \/ LoseResponse) /\ UNCHANGED << evccVars, seccVars >>
  <2>1. UNCHANGED << connections, evccVars, seccVars >>
    BY <1>3 DEF LoseRequest, LoseResponse
  <2> QED
    BY <2>1, EvccUntouched, SeccUntouched DEF EvccInv, SeccInv, ConnectionsTyped, seccVars
<1>4. CASE \E connected \in BOOLEAN : Connect(connected)
  BY <1>4, ConnectInv
<1>5. CASE UNCHANGED vars
  <2>1. UNCHANGED << connections, evccVars, seccVars >>
    BY <1>5 DEF vars, linkVars
  <2> QED
    BY <2>1, EvccUntouched, SeccUntouched DEF EvccInv, SeccInv, ConnectionsTyped, seccVars
<1> QED
  BY <1>1, <1>2, <1>3, <1>4, <1>5 DEF Next, NetworkNext

\* Both inductive invariants hold of every behaviour.
THEOREM HandlersInvHolds == Spec => [](EvccInv /\ SeccInv)
<1>1. Init => EvccInv /\ SeccInv
  BY EvccInvInit, SeccInvInit
<1>2. (EvccInv /\ SeccInv) /\ [Next]_vars => (EvccInv /\ SeccInv)'
  BY HandlersInvNext
<1> QED
  BY <1>1, <1>2, PTL DEF Spec

\* The EVCC's handler never has two things to wait for: one SDP answer, one
\* session or one notification, and a session for every StopNotification.
THEOREM EvccIsOwedOneThing == Spec => []EvccOneAtATime
<1>1. EvccInv => EvccOneAtATime
  BY DEF EvccInv
<1> QED
  BY <1>1, HandlersInvHolds, PTL

\* Whenever the SECC ignores SDP requests, a registered session's end is still
\* to come.
THEOREM SeccIsPausedForASession == Spec => []PausedForSession
<1>1. SeccInv => PausedForSession
  BY DEF SeccInv
<1> QED
  BY <1>1, HandlersInvHolds, PTL

\* The handler is never ended by the end of a session: whenever it takes a
\* StopNotification, "self.comm_session" is there to be stopped.
THEOREM StopFindsSession ==
  Spec => [](evcc_pc = "idle" /\ evcc_queue # << >>
             /\ Head(evcc_queue) \in {"stop_successful", "stop_failed"}
               => comm_session # 0)
<1>1. EvccInv => (evcc_pc = "idle" /\ evcc_queue # << >>
                  /\ Head(evcc_queue) \in {"stop_successful", "stop_failed"}
                    => comm_session # 0)
  <2>1. SUFFICES ASSUME EvccInv, evcc_pc = "idle", evcc_queue # << >>,
                        Head(evcc_queue) \in {"stop_successful", "stop_failed"}
                 PROVE  comm_session # 0
    OBVIOUS
  <2>2. Len(evcc_queue) = 1
    BY <2>1 DEF EvccInv, EvccOneAtATime
  <2>3. evcc_queue = << Head(evcc_queue) >>
    BY <2>1, <2>2 DEF EvccInv
  <2> QED
    BY <2>1, <2>3 DEF EvccInv, EvccOneAtATime
<1> QED
  BY <1>1, HandlersInvHolds, PTL

----------------------------------------------------------------------------
(* Types: the counters stay within their bounds.                            *)

\* What TypeOK asks for beyond EvccInv and SeccInv, and that an SDP request
\* under way has been counted: Receive decrements without looking.
CountersInv ==
  /\ config \in Configs
  /\ requests \in Nat /\ responses \in Nat /\ udp_received \in Nat
  /\ Len(connections) <= MaxConnections
  /\ sdp_retries_number \in 0..SDP_MAX_REQUEST_COUNTER
  /\ evcc_pc = "awaiting" => sdp_retries_number > 0
  /\ sdp_retry_cycles \in 0..SdpRetryCycles
  /\ comm_session \in 0..Len(connections)
  /\ pause_server \in BOOLEAN /\ listening \in BOOLEAN
  /\ udp_started \in BOOLEAN

LEMMA CountersInit == Init => CountersInv
<1> SUFFICES ASSUME Init PROVE CountersInv
  OBVIOUS
<1>1. Len(connections) = 0
  BY DEF Init, LinkInit
<1>2. pause_server \in BOOLEAN /\ listening \in BOOLEAN /\ udp_started \in BOOLEAN
  BY DEF Init, SeccInit, EvccInit
<1>3. evcc_pc # "awaiting" /\ config \in Configs
  BY DEF Init, EvccInit, LinkInit
<1>4. /\ requests \in Nat /\ responses \in Nat /\ udp_received \in Nat
      /\ Len(connections) <= MaxConnections
      /\ sdp_retries_number \in 0..SDP_MAX_REQUEST_COUNTER
      /\ sdp_retry_cycles \in 0..SdpRetryCycles
      /\ comm_session \in 0..Len(connections)
  BY <1>1, EvccAssumption, LinkAssumption DEF Init, LinkInit, EvccInit, SeccInit
<1> QED
  BY <1>1, <1>2, <1>3, <1>4 DEF CountersInv

\* restart_sdp starts a cycle or a request only within its counters.
LEMMA RestartSdpCounts ==
  ASSUME CountersInv, NEW new \in BOOLEAN, NEW failed \in {"idle", "ended"},
         RestartSdp(new, failed)
  PROVE  /\ requests' \in Nat
         /\ sdp_retries_number' \in 0..SDP_MAX_REQUEST_COUNTER
         /\ sdp_retry_cycles' \in 0..SdpRetryCycles
         /\ evcc_pc' = "awaiting" => sdp_retries_number' > 0
         /\ udp_started' \in BOOLEAN
<1>1. CASE ~ SendSdp
  BY <1>1, EvccAssumption DEF CountersInv, RestartSdp
<1>2. CASE SendSdp
  <2>1. requests' \in Nat /\ udp_started' \in BOOLEAN
    <3>1. requests' \in {requests, requests + 1} /\ udp_started' \in {udp_started, FALSE}
      BY <1>2, Zenon DEF SendSdp
    <3>2. requests \in Nat /\ udp_started \in BOOLEAN
      BY DEF CountersInv
    <3>3. requests' \in Nat
      BY <3>1, <3>2
    <3>4. udp_started' \in BOOLEAN
      BY <3>1, <3>2, Zenon
    <3> QED
      BY <3>3, <3>4
  <2>2. /\ sdp_retries_number' \in 0..SDP_MAX_REQUEST_COUNTER
        /\ sdp_retry_cycles' \in 0..SdpRetryCycles
        /\ evcc_pc' = "awaiting" => sdp_retries_number' > 0
    <3> DEFINE Start == /\ IF new THEN sdp_retry_cycles > 0 ELSE sdp_retries_number > 0
                        /\ sdp_retry_cycles' = IF new THEN sdp_retry_cycles - 1
                                                      ELSE sdp_retry_cycles
                        /\ sdp_retries_number' = IF new THEN SDP_MAX_REQUEST_COUNTER
                                                        ELSE sdp_retries_number
    <3>1. CASE Start
      BY <3>1, EvccAssumption DEF CountersInv
    <3>2. CASE /\ evcc_pc' = failed /\ sdp_retry_cycles' = sdp_retry_cycles
               /\ sdp_retries_number' \in {sdp_retries_number, SDP_MAX_REQUEST_COUNTER}
      BY <3>2, EvccAssumption DEF CountersInv
    <3> QED
      BY <3>1, <3>2 DEF RestartSdp
  <2> QED
    BY <2>1, <2>2
<1> QED
  BY <1>1, <1>2

LEMMA CountersEvccStep ==
  ASSUME EvccInv, CountersInv, EvccStep, UNCHANGED seccVars
  PROVE  CountersInv'
<1> USE DEF seccVars
<1>1. CASE StartSdp
  BY <1>1, RestartSdpCounts DEF StartSdp, CountersInv
<1>2. CASE DatagramReceived
  BY <1>2 DEF DatagramReceived, CountersInv
<1>20. CASE ErrorReceived
  BY <1>20 DEF ErrorReceived, linkVars, CountersInv
<1>3. CASE Receive
  <2>1. /\ sdp_retries_number' = sdp_retries_number - 1 /\ sdp_retries_number > 0
        /\ evcc_pc' = "idle"
        /\ UNCHANGED << linkVars, udp_received, udp_started, sdp_retry_cycles, comm_session,
                        pause_server, listening >>
    BY <1>3 DEF Receive, CountersInv
  <2>2. sdp_retries_number' \in 0..SDP_MAX_REQUEST_COUNTER
    BY <2>1, EvccAssumption DEF CountersInv
  <2> QED
    BY <2>1, <2>2 DEF CountersInv, linkVars
<1>4. CASE ProcessOtherPacket
  BY <1>4, RestartSdpCounts DEF ProcessOtherPacket, CountersInv, Takes
<1>5. CASE ProcessTimeout
  BY <1>5, RestartSdpCounts DEF ProcessTimeout, CountersInv
<1>6. ASSUME NEW successful \in BOOLEAN, ProcessStop(successful)
      PROVE  CountersInv'
  <2>1. Len(connections) \in Nat
    BY LenProperties DEF EvccInv, ConnectionsTyped
  <2>2. comm_session' \in 0..Len(connections)
    BY <1>6, <2>1 DEF ProcessStop
  <2>3. CASE comm_session # 0 /\ ~ successful
    <3>1. RestartSdp(TRUE, "idle")
      BY <1>6, <2>3 DEF ProcessStop
    <3>2. /\ requests' \in Nat
          /\ sdp_retries_number' \in 0..SDP_MAX_REQUEST_COUNTER
          /\ sdp_retry_cycles' \in 0..SdpRetryCycles
          /\ evcc_pc' = "awaiting" => sdp_retries_number' > 0
          /\ udp_started' \in BOOLEAN
      BY <3>1, RestartSdpCounts
    <3> QED
      BY <1>6, <2>2, <3>2 DEF ProcessStop, CountersInv
  <2>4. CASE ~ (comm_session # 0 /\ ~ successful)
    BY <1>6, <2>2, <2>4 DEF ProcessStop, CountersInv
  <2> QED
    BY <2>3, <2>4
<1>7. ASSUME NEW c \in DOMAIN connections, NEW e \in {"stopping", "closed"},
             connections' = [connections EXCEPT ![c].evcc = e],
             UNCHANGED << config, requests, responses, evcc_pc, udp_started,
                          sdp_retries_number, sdp_retry_cycles, comm_session >>
      PROVE  CountersInv'
  <2>1. [connections[c] EXCEPT !.evcc = e] \in Connection
    BY EndTyped, LenProperties, ElementOfSeq DEF EvccInv, ConnectionsTyped
  <2>2. Len(connections') = Len(connections)
    BY <1>7, <2>1, EndChanges DEF EvccInv
  <2> QED
    BY <1>7, <2>2 DEF CountersInv
<1> QED
  BY <1>1, <1>2, <1>20, <1>3, <1>4, <1>5, <1>6, <1>7
  DEF EvccStep, EvccCloses, EvccStops, evccVars

LEMMA CountersSeccStep ==
  ASSUME SeccInv, CountersInv, SeccStep, UNCHANGED evccVars
  PROVE  CountersInv'
<1> USE DEF evccVars
<1>1. CASE RequestReceived
  BY <1>1 DEF RequestReceived, CountersInv
<1>2. CASE RelayRequest
  BY <1>2 DEF RelayRequest, CountersInv, linkVars
<1>3. ASSUME NEW n, Finish(n), UNCHANGED udp_received
      PROVE  CountersInv'
  <2>1. CASE Respond
    <3>1. listening' \in BOOLEAN
      BY <2>1, SeccAssumption DEF Respond
    <3> QED
      BY <1>3, <2>1, <3>1 DEF Respond, CountersInv
  <2>2. CASE EndSession(n.c, n.action)
    <3>1. listening' \in BOOLEAN /\ pause_server' \in BOOLEAN
      BY <2>2 DEF EndSession, CountersInv
    <3> QED
      BY <1>3, <2>2, <3>1 DEF EndSession, CountersInv, linkVars
  <2> QED
    BY <1>3, <2>1, <2>2 DEF Finish
<1>4. CASE HandleNotice
  <2>1. CASE Finish(Head(secc_queue))
    BY <1>3, <1>4, <2>1 DEF HandleNotice
  <2>2. CASE ~ Finish(Head(secc_queue))
    BY <1>4, <2>2 DEF HandleNotice, CountersInv, linkVars
  <2> QED
    BY <2>1, <2>2
<1>5. CASE ServerClosed
  BY <1>3, <1>5 DEF ServerClosed
<1>6. ASSUME NEW c \in DOMAIN connections, NEW r \in Connection,
             connections' = [connections EXCEPT ![c] = r],
             pause_server' \in BOOLEAN,
             UNCHANGED << config, requests, responses, udp_received, listening >>
      PROVE  CountersInv'
  <2>1. Len(connections') = Len(connections)
    BY <1>6, EndChanges DEF SeccInv
  <2> QED
    BY <1>6, <2>1 DEF CountersInv
<1>7. CASE HandleTcpClient
  <2> DEFINE c == Head(secc_queue).c
  <2>1. c \in DOMAIN connections
    BY <1>7, NoticeTaken DEF HandleTcpClient, SeccInv
  <2>2. [connections[c] EXCEPT !.secc = "live"] \in Connection
    BY <2>1, EndTyped, LenProperties, ElementOfSeq DEF SeccInv, ConnectionsTyped
  <2> QED
    BY <1>6, <1>7, <2>1, <2>2 DEF HandleTcpClient
<1>8. ASSUME NEW c \in DOMAIN connections, NEW ending \in {"failed", "terminate", "pause"},
             SeccStops(c, ending)
      PROVE  CountersInv'
  <2>1. connections[c] \in Connection
    BY LenProperties, ElementOfSeq DEF SeccInv, ConnectionsTyped
  <2>2. [connections[c] EXCEPT !.secc = "stopping", !.ending = ending] \in Connection
    BY <2>1, EndTyped
  <2>3. connections' = [connections EXCEPT ![c] =
                          [connections[c] EXCEPT !.secc = "stopping", !.ending = ending]]
    BY <1>8, <2>1, LenProperties DEF SeccStops, SeccInv, ConnectionsTyped, Connection
  <2> QED
    BY <1>6, <1>8, <2>2, <2>3 DEF SeccStops, seccVars, CountersInv
<1>9. ASSUME NEW c \in DOMAIN connections, SeccCloses(c)
      PROVE  CountersInv'
  <2>1. [connections[c] EXCEPT !.secc = "closed"] \in Connection
    BY EndTyped, LenProperties, ElementOfSeq DEF SeccInv, ConnectionsTyped
  <2> QED
    BY <1>6, <1>9, <2>1 DEF SeccCloses, CountersInv
<1> QED
  BY <1>1, <1>2, <1>4, <1>5, <1>7, <1>8, <1>9 DEF SeccStep

LEMMA CountersConnect ==
  ASSUME EvccInv, CountersInv, NEW connected \in BOOLEAN, Connect(connected)
  PROVE  CountersInv'
<1>1. Len(connections) \in Nat
  BY LenProperties DEF EvccInv, ConnectionsTyped
<1>2. CASE connected /\ ~ SecurityMismatch
  <2> DEFINE r == [evcc |-> "live", secc |-> "accepted", ending |-> "none"]
  <2>1. connections' = Append(connections, r)
    BY <1>2 DEF Connect, ProcessSdpResponse, StartCommSession
  <2>2. r \in Connection
    BY DEF Connection
  <2> HIDE DEF r
  <2>3. Len(connections') = Len(connections) + 1
    BY <2>1, <2>2, ConnectionAdded DEF EvccInv
  <2>4. Len(connections') <= MaxConnections
    BY <1>1, <1>2, <2>3, LinkAssumption DEF Connect, CountersInv
  <2> QED
    BY <1>1, <1>2, <2>3, <2>4
    DEF Connect, ProcessSdpResponse, StartCommSession, ClientConnected, CountersInv
<1>3. CASE ~ (connected /\ ~ SecurityMismatch)
  BY <1>3 DEF Connect, ProcessSdpResponse, StartCommSession, seccVars, CountersInv
<1> QED
  BY <1>2, <1>3

\* No counter leaves its range: no SDP request is sent beyond those of the
\* cycles allowed, no connection made beyond the bound, and every notification
\* and connection is of its kind.
THEOREM HandlersTypeCorrect == Spec => []TypeOK
<1>1. EvccInv /\ SeccInv /\ CountersInv /\ [Next]_vars => CountersInv'
  <2>1. SUFFICES ASSUME EvccInv, SeccInv, CountersInv, [Next]_vars
                 PROVE  CountersInv'
    OBVIOUS
  <2>2. CASE EvccNext
    BY <2>1, <2>2, CountersEvccStep DEF EvccNext
  <2>3. CASE SeccNext
    BY <2>1, <2>3, CountersSeccStep DEF SeccNext
  <2>4. CASE (LoseRequest \/ LoseResponse) /\ UNCHANGED << evccVars, seccVars >>
    BY <2>1, <2>4 DEF LoseRequest, LoseResponse, CountersInv, evccVars, seccVars
  <2>5. CASE \E connected \in BOOLEAN : Connect(connected)
    BY <2>1, <2>5, CountersConnect
  <2>6. CASE UNCHANGED vars
    BY <2>1, <2>6 DEF CountersInv, vars, linkVars, evccVars, seccVars
  <2> QED
    BY <2>1, <2>2, <2>3, <2>4, <2>5, <2>6 DEF Next, NetworkNext
<1>2. EvccInv /\ SeccInv /\ CountersInv => TypeOK
  <2>1. SUFFICES ASSUME EvccInv, SeccInv, CountersInv PROVE TypeOK
    OBVIOUS
  <2>2. Len(connections) \in Nat /\ DOMAIN connections = 1..Len(connections)
    BY <2>1, LenProperties DEF EvccInv, ConnectionsTyped
  <2> QED
    BY <2>1, <2>2 DEF EvccInv, ConnectionsTyped, SeccInv, CountersInv, TypeOK
<1> QED
  BY <1>1, <1>2, CountersInit, HandlersInvHolds, PTL DEF Spec

============================================================================
