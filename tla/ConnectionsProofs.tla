-------------------------- MODULE ConnectionsProofs -------------------------
(***************************************************************************)
(* Proofs about Connections, for every set of connections and clients,     *)
(* every capacity of the outgoing channels and every pair of access lists. *)
(***************************************************************************)
EXTENDS Connections, TLAPS

-----------------------------------------------------------------------------
(* Type correctness                                                        *)

\* The tables of the relay: tasks, sockets and locks.
TablesOK ==
    /\ pending \subseteq Conns
    /\ active \in [Keys -> SUBSET Conns]
    /\ proto \in [Conns -> {"handshake", "transport"}]
    /\ socket \in [Conns -> {"none", "open", "broken", "closed"}]
    /\ greeted \subseteq Conns
    /\ holder \in [Conns -> SUBSET Tasks]
    /\ reader \in [Conns -> SocketTask]
    /\ writer \in [Conns -> SocketTask]
    /\ purge \in {"due", "done"}

ChannelsOK ==
    /\ outgoing \in [Conns -> Seq(Frames)]
    /\ \A c \in Conns : Len(outgoing[c]) <= Capacity

TasksOK == task \in [Tasks -> TaskType]

LEMMA TypeParts == TypeOK <=> TablesOK /\ ChannelsOK /\ TasksOK
  BY DEF TypeOK, TablesOK, ChannelsOK, TasksOK

LEMMA IdleType == Idle \in TaskType
  BY DEF Idle, TaskType, Frames

LEMMA SendToType ==
    ASSUME TasksOK, NEW t \in Tasks, NEW d \in Conns, NEW frame \in Frames,
           SendTo(t, d, frame)
    PROVE  TasksOK'
<1>1. task[t] \in TaskType
  BY DEF TasksOK
<1>2. [task[t] EXCEPT !.pc = "lock", !.to = {d}, !.frame = frame] \in TaskType
  BY <1>1 DEF TaskType
<1> QED
  BY <1>2 DEF SendTo, TasksOK

LEMMA SendToEffect ==
    ASSUME TasksOK, NEW t \in Tasks, NEW d, NEW frame, SendTo(t, d, frame)
    PROVE  /\ task'[t].pc = "lock" /\ task'[t].to = {d}
           /\ task'[t].frame = frame
           /\ \A u \in Tasks \ {t} : task'[u] = task[u]
<1>1. task \in [Tasks -> TaskType] /\ DOMAIN task[t] = DOMAIN Idle
  BY DEF TasksOK, TaskType, Idle
<1>2. task' = [task EXCEPT ![t] =
                  [task[t] EXCEPT !.pc = "lock", !.to = {d}, !.frame = frame]]
  BY DEF SendTo
<1> QED
  BY <1>1, <1>2 DEF Idle

LEMMA ErrorFrameType == \A c : ErrorFrame(c) \in Frames
  BY DEF ErrorFrame, Frames

LEMMA TasksNext == TypeOK /\ [Next]_vars => TasksOK'
<1> SUFFICES ASSUME TypeOK, [Next]_vars PROVE TasksOK'
  OBVIOUS
<1>0. /\ TasksOK /\ task \in [Tasks -> TaskType]
      /\ \A t \in Tasks : task[t] \in TaskType
      /\ \A c \in Conns : c \in Tasks
      /\ Notifier \in Tasks
  BY TypeParts DEF TasksOK, Tasks
<1>1. CASE task' = task
  BY <1>0, <1>1 DEF TasksOK
<1>2. ASSUME NEW t \in Tasks,
             NEW pc \in {"idle", "handshake", "handshaken", "promote", "send",
                         "ended"},
             task' = [task EXCEPT ![t].pc = pc]
      PROVE  TasksOK'
  BY <1>0, <1>2 DEF TasksOK, TaskType
<1>3. ASSUME NEW t \in Tasks, task' = [task EXCEPT ![t] = Idle]
      PROVE  TasksOK'
  BY <1>0, <1>3, IdleType DEF TasksOK
<1>4. ASSUME NEW c \in Conns, Outside(c) PROVE TasksOK'
  <2>1. ASSUME NEW key \in Keys, RelayPeer(c, key) PROVE TasksOK'
    <3>1. CASE active[key] = {}
      BY <1>0, <2>1, <3>1, SendToType, ErrorFrameType DEF RelayPeer
    <3>2. CASE active[key] # {}
      <4>1. PICK d \in active[key] : SendTo(c, d, "opaque")
        BY <2>1, <3>2 DEF RelayPeer
      <4> QED
        BY <1>0, <4>1, SendToType DEF TypeOK, Frames
    <3> QED
      BY <3>1, <3>2
  <2>2. CASE HandshakeError(c) \/ ServerMessage(c)
    BY <1>0, <2>2, SendToType, ErrorFrameType DEF HandshakeError, ServerMessage
  <2>3. CASE ServerHandshake(c) \/ DecodeFails(c)
    BY <1>0, <1>2, <2>3 DEF ServerHandshake, DecodeFails
  <2> QED
    BY <1>1, <1>4, <2>1, <2>2, <2>3
       DEF Outside, Upgrade, SocketFault, ReadAbandoned
<1>5. ASSUME NEW c \in Conns, Inside(c) PROVE TasksOK'
  <2>1. CASE HandshakeReply(c)
    <3>1. CASE task' = [task EXCEPT ![c] =
                   [@ EXCEPT !.pc = "lock", !.to = {c}, !.frame = "error"]]
      BY <1>0, <3>1, SendToType DEF SendTo, Frames
    <3> QED
      BY <1>0, <1>2, <2>1, <3>1 DEF HandshakeReply
  <2>2. CASE PromoteRead(c)
    BY <1>0, <1>2, <2>2 DEF PromoteRead
  <2>3. CASE PromoteConnection(c)
    BY <1>0, <1>3, <2>3 DEF PromoteConnection
  <2> QED
    BY <1>5, <2>1, <2>2, <2>3 DEF Inside
<1>6. ASSUME NEW t \in Tasks, Sending(t) PROVE TasksOK'
  <2>1. CASE Lock(t)
    BY <1>2, <2>1 DEF Lock
  <2>2. CASE Send(t)
    <3>1. [task[t] EXCEPT !.pc = "loop", !.to = {}] \in TaskType
      BY <1>0 DEF TaskType
    <3> QED
      BY <1>0, <2>2, <3>1, IdleType DEF Send, TasksOK
  <2>3. CASE SendFails(t)
    <3>1. CASE task' = [task EXCEPT ![t] = Idle]
      BY <1>3, <3>1
    <3>2. CASE t # Notifier /\ SendTo(t, t, ErrorFrame(t))
      BY <1>0, <3>2, SendToType, ErrorFrameType DEF Tasks
    <3> QED
      BY <2>3, <3>1, <3>2 DEF SendFails
  <2> QED
    BY <1>6, <2>1, <2>2, <2>3 DEF Sending
<1>7. CASE NotifyPeers
  <2>1. \A keys \in SUBSET Participants :
            [Idle EXCEPT !.pc = "loop", !.keys = keys] \in TaskType
    BY ConnectionsAssumption DEF Idle, TaskType, Frames
  <2> QED
    BY <1>0, <1>7, <2>1 DEF NotifyPeers, TasksOK
<1>8. CASE Notifying
  <2>1. CASE NotifyPeer
    <3> DEFINE old == task[Notifier]
               pc(key) == IF active[key] = {} THEN "loop" ELSE "lock"
               new(key) == [old EXCEPT !.pc = pc(key), !.to = active[key],
                                       !.keys = old.keys \ {key}]
    <3>1. PICK key \in task[Notifier].keys :
              task' = [task EXCEPT ![Notifier] = new(key)]
      BY <1>0, <2>1 DEF NotifyPeer
    <3>2. key \in Keys /\ active[key] \subseteq Conns
      BY <1>0 DEF TaskType, TypeOK
    <3>3. old \in TaskType /\ pc(key) \in {"loop", "lock"}
          /\ old.keys \ {key} \in SUBSET Keys
      BY <1>0 DEF TaskType
    <3>4. new(key) \in TaskType
      <4> HIDE DEF old, pc
      <4> QED
        BY <3>2, <3>3 DEF TaskType
    <3> QED
      <4> HIDE DEF new
      <4> QED
        BY <1>0, <3>1, <3>4 DEF TasksOK
  <2>2. CASE NotifyDone
    BY <1>0, <1>3, <2>2 DEF NotifyDone
  <2> QED
    BY <1>8, <2>1, <2>2 DEF Notifying
<1>9. CASE UNCHANGED vars
  BY <1>1, <1>9 DEF vars
<1> QED
  BY <1>1, <1>4, <1>5, <1>6, <1>7, <1>8, <1>9
     DEF Next, SocketWriter, WriteFrame, WriteDisconnect, WriteRemove,
         SocketReader, ReadError, ReadDisconnect, ReadRemove, ReadClose,
         EchoClose, PurgeDue, PurgeExpired

LEMMA ChannelsNext == TypeOK /\ [Next]_vars => ChannelsOK'
<1> SUFFICES ASSUME TypeOK, [Next]_vars PROVE ChannelsOK'
  OBVIOUS
<1>0. /\ ChannelsOK /\ Capacity \in Nat
      /\ outgoing \in [Conns -> Seq(Frames)]
      /\ \A c \in Conns : outgoing[c] \in Seq(Frames) /\ Len(outgoing[c]) <= Capacity
  BY TypeParts, ConnectionsAssumption DEF ChannelsOK
<1>1. CASE outgoing' = outgoing
  BY <1>0, <1>1 DEF ChannelsOK
<1>2. ASSUME NEW d \in Conns, NEW frame \in Frames, HasRoom(d),
             outgoing' = [outgoing EXCEPT ![d] = Append(@, frame)]
      PROVE  ChannelsOK'
  <2>1. /\ Append(outgoing[d], frame) \in Seq(Frames)
        /\ Len(Append(outgoing[d], frame)) <= Capacity
    BY <1>0, <1>2 DEF HasRoom
  <2> QED
    BY <1>0, <1>2, <2>1 DEF ChannelsOK
<1>3. ASSUME NEW c \in Conns, HandshakeReply(c) PROVE ChannelsOK'
  BY <1>1, <1>2, <1>3 DEF HandshakeReply, Frames
<1>4. ASSUME NEW t \in Tasks, Send(t) PROVE ChannelsOK'
  <2>1. task[t].to \subseteq Conns /\ task[t].frame \in Frames
    BY DEF TypeOK, TaskType
  <2> QED
    BY <1>2, <1>4, <2>1 DEF Send
<1>5. ASSUME NEW c \in Conns, WriteFrame(c) PROVE ChannelsOK'
  <2>1. outgoing[c] # <<>> /\ outgoing' = [outgoing EXCEPT ![c] = Tail(@)]
    BY <1>5 DEF WriteFrame
  <2>2. /\ Tail(outgoing[c]) \in Seq(Frames)
        /\ Len(Tail(outgoing[c])) <= Capacity
    BY <1>0, <2>1
  <2> QED
    BY <1>0, <2>1, <2>2 DEF ChannelsOK
<1>6. ASSUME NEW c \in Conns, WriteRemove(c) PROVE ChannelsOK'
  BY <1>0, <1>6 DEF WriteRemove, ChannelsOK
<1>7. ASSUME NEW c \in Conns, EchoClose(c) PROVE ChannelsOK'
  BY <1>1, <1>2, <1>7 DEF EchoClose, Frames
<1> QED
  BY <1>1, <1>3, <1>4, <1>5, <1>6, <1>7
     DEF Next, Outside, Upgrade, SocketFault, ServerHandshake, HandshakeError,
         RelayPeer, ServerMessage, DecodeFails, ReadAbandoned,
         Inside, PromoteRead, PromoteConnection,
         SocketWriter, WriteDisconnect,
         SocketReader, ReadError, ReadDisconnect, ReadRemove, ReadClose,
         Sending, Lock, SendFails, NotifyPeers, Notifying, NotifyPeer,
         NotifyDone, PurgeDue, PurgeExpired, vars, sockets

LEMMA TablesNext == TypeOK /\ [Next]_vars => TablesOK'
<1> SUFFICES ASSUME TypeOK, [Next]_vars PROVE TablesOK'
  OBVIOUS
<1>0. TablesOK /\ \A c \in Conns : public_key[c] \in Keys
  BY TypeParts, ConnectionsAssumption
<1>1. ASSUME NEW c \in Conns, Outside(c) PROVE TablesOK'
  <2>1. CASE Upgrade(c)
    BY <1>0, <2>1 DEF Upgrade, TablesOK, SocketTask
  <2>2. CASE SocketFault(c)
    BY <1>0, <2>2, ConnectionsAssumption DEF SocketFault, TablesOK, tables
  <2>3. CASE ServerHandshake(c)
    BY <1>0, <2>3 DEF ServerHandshake, TablesOK, tables, sockets, Tasks
  <2>4. CASE ReadAbandoned(c)
    BY <1>0, <2>4 DEF ReadAbandoned, TablesOK, tables, sockets, SocketTask
  <2> QED
    BY <1>0, <1>1, <2>1, <2>2, <2>3, <2>4
       DEF Outside, HandshakeError, RelayPeer, ServerMessage, DecodeFails,
           TablesOK, tables, sockets
<1>2. ASSUME NEW c \in Conns, Inside(c) PROVE TablesOK'
  <2>1. CASE HandshakeReply(c)
    BY <1>0, <2>1 DEF HandshakeReply, TablesOK, tables
  <2>2. CASE PromoteRead(c)
    BY <1>0, <2>2 DEF PromoteRead, TablesOK, tables, sockets
  <2>3. CASE PromoteConnection(c)
    BY <1>0, <2>3 DEF PromoteConnection, TablesOK, sockets
  <2> QED
    BY <1>2, <2>1, <2>2, <2>3 DEF Inside
<1>3. ASSUME NEW c \in Conns, SocketWriter(c) PROVE TablesOK'
  <2>1. CASE WriteFrame(c)
    BY <1>0, <2>1 DEF WriteFrame, TablesOK, tables, SocketTask
  <2>2. CASE WriteDisconnect(c)
    BY <1>0, <2>2 DEF WriteDisconnect, TablesOK, tables, sockets, SocketTask
  <2>3. CASE WriteRemove(c)
    BY <1>0, <2>3 DEF WriteRemove, Remove, TablesOK, SocketTask
  <2> QED
    BY <1>3, <2>1, <2>2, <2>3 DEF SocketWriter
<1>4. ASSUME NEW c \in Conns, SocketReader(c) PROVE TablesOK'
  <2>1. CASE ReadRemove(c)
    BY <1>0, <2>1 DEF ReadRemove, Remove, TablesOK, sockets, SocketTask
  <2>2. CASE EchoClose(c)
    BY <1>0, <2>2 DEF EchoClose, TablesOK, tables, SocketTask
  <2>3. CASE ReadError(c) \/ ReadDisconnect(c) \/ ReadClose(c)
    BY <1>0, <2>3 DEF ReadError, ReadDisconnect, ReadClose, TablesOK, tables,
                      sockets, SocketTask
  <2> QED
    BY <1>4, <2>1, <2>2, <2>3 DEF SocketReader
<1>5. ASSUME NEW t \in Tasks, Sending(t) PROVE TablesOK'
  <2>1. CASE Lock(t)
    BY <1>0, <2>1 DEF Lock, TablesOK, tables, sockets
  <2>2. CASE Send(t)
    BY <1>0, <2>2 DEF Send, Unlock, TablesOK, tables
  <2>3. CASE SendFails(t)
    BY <1>0, <2>3 DEF SendFails, Unlock, TablesOK, tables, sockets
  <2> QED
    BY <1>5, <2>1, <2>2, <2>3 DEF Sending
<1>6. CASE PurgeDue \/ PurgeExpired
  BY <1>0, <1>6 DEF PurgeDue, PurgeExpired, TablesOK, tables, sockets
<1> QED
  BY <1>0, <1>1, <1>2, <1>3, <1>4, <1>5, <1>6
     DEF Next, NotifyPeers, Notifying, NotifyPeer, NotifyDone, TablesOK,
         vars, tables, sockets

LEMMA TypeInit == Init => TypeOK
  BY IdleType, ConnectionsAssumption DEF Init, TypeOK, SocketTask

\* The relay's tables, tasks and channels are well typed at all times; in
\* particular an outgoing channel never has more frames than its capacity.
THEOREM TypeCorrect == Spec => []TypeOK
<1>1. TypeOK /\ [Next]_vars => TypeOK'
  BY TasksNext, ChannelsNext, TablesNext, TypeParts
     DEF TypeOK, TablesOK, ChannelsOK, TasksOK
<1> QED
  BY <1>1, TypeInit, PTL DEF Spec

-----------------------------------------------------------------------------
(* The write guards                                                        *)

LEMMA GuardNext == TypeOK /\ GuardIsInUse /\ [Next]_vars => GuardIsInUse'
<1> SUFFICES ASSUME TypeOK, GuardIsInUse, [Next]_vars PROVE GuardIsInUse'
  OBVIOUS
<1>0. /\ task \in [Tasks -> TaskType]
      /\ holder \in [Conns -> SUBSET Tasks]
      /\ Conns \subseteq Tasks /\ Notifier \in Tasks
  BY DEF TypeOK, Tasks
<1>1. CASE holder' = holder /\ task' = task
  BY <1>1 DEF GuardIsInUse
<1>2. ASSUME NEW t \in Tasks, holder' = holder,
             \A u \in Tasks \ {t} : task'[u] = task[u],
             task[t].pc \notin {"send", "handshake"}
      PROVE  GuardIsInUse'
  BY <1>0, <1>2 DEF GuardIsInUse
<1>3. ASSUME NEW c \in Conns, Outside(c) PROVE GuardIsInUse'
  <2>1. CASE ServerHandshake(c)
    <3>1. /\ holder[c] = {} /\ holder' = [holder EXCEPT ![c] = {c}]
          /\ task[c].pc = "idle" /\ task'[c].pc = "handshake"
          /\ \A u \in Tasks \ {c} : task'[u] = task[u]
      BY <1>0, <2>1 DEF ServerHandshake, Free, TaskType
    <3> QED
      BY <1>0, <3>1 DEF GuardIsInUse
  <2>2. CASE HandshakeError(c) \/ ServerMessage(c) \/ DecodeFails(c)
             \/ \E key \in Keys : RelayPeer(c, key)
    <3>1. /\ holder' = holder /\ task[c].pc = "idle"
          /\ \A u \in Tasks \ {c} : task'[u] = task[u]
      BY <1>0, <2>2 DEF HandshakeError, ServerMessage, DecodeFails, RelayPeer,
                        SendTo
    <3> QED
      BY <1>0, <1>2, <3>1
  <2> QED
    BY <1>1, <1>3, <2>1, <2>2 DEF Outside, Upgrade, SocketFault, ReadAbandoned
<1>4. ASSUME NEW c \in Conns, Inside(c) PROVE GuardIsInUse'
  <2>1. CASE HandshakeReply(c)
    <3>1. /\ holder' = [holder EXCEPT ![c] = {}]
          /\ task[c].pc = "handshake"
          /\ \A u \in Tasks \ {c} : task'[u] = task[u]
      BY <1>0, <2>1 DEF HandshakeReply
    <3> QED
      BY <1>0, <3>1 DEF GuardIsInUse
  <2>2. CASE PromoteRead(c) \/ PromoteConnection(c)
    <3>1. /\ holder' = holder /\ task[c].pc \in {"handshaken", "promote"}
          /\ \A u \in Tasks \ {c} : task'[u] = task[u]
      BY <1>0, <2>2 DEF PromoteRead, PromoteConnection
    <3> QED
      BY <1>0, <1>2, <3>1
  <2> QED
    BY <1>4, <2>1, <2>2 DEF Inside
<1>5. ASSUME NEW t \in Tasks, Sending(t) PROVE GuardIsInUse'
  <2>1. CASE Lock(t)
    <3>1. /\ \A d \in task[t].to : holder[d] = {}
          /\ \A d \in Conns :
                 holder'[d] = IF d \in task[t].to THEN {t} ELSE holder[d]
          /\ task[t].pc = "lock" /\ task'[t].pc = "send"
          /\ task'[t].to = task[t].to
          /\ \A u \in Tasks \ {t} : task'[u] = task[u]
      BY <1>0, <2>1 DEF Lock, Free, TaskType
    <3> QED
      BY <1>0, <3>1 DEF GuardIsInUse
  <2>2. CASE Send(t) \/ SendFails(t)
    <3>1. /\ \A d \in Conns : holder'[d] = holder[d] \ {t}
          /\ \A u \in Tasks \ {t} : task'[u] = task[u]
      BY <1>0, <2>2 DEF Send, SendFails, Unlock, SendTo
    <3> QED
      BY <1>0, <3>1 DEF GuardIsInUse
  <2> QED
    BY <1>5, <2>1, <2>2 DEF Sending
<1>6. CASE NotifyPeers \/ Notifying
  <2>1. /\ holder' = holder /\ task[Notifier].pc \in {"idle", "loop"}
        /\ \A u \in Tasks \ {Notifier} : task'[u] = task[u]
    BY <1>0, <1>6 DEF NotifyPeers, Notifying, NotifyPeer, NotifyDone
  <2> QED
    BY <1>0, <1>2, <2>1
<1> QED
  BY <1>1, <1>3, <1>4, <1>5, <1>6
     DEF Next, SocketWriter, WriteFrame, WriteDisconnect, WriteRemove,
         SocketReader, ReadError, ReadDisconnect, ReadRemove, ReadClose,
         EchoClose, PurgeDue, PurgeExpired, vars

\* The write guard of a connection (conn.write()) belongs to one task at a
\* time, and that task is sending to the connection: no guard is left behind
\* on any path, errors included.
THEOREM GuardCorrect == Spec => []GuardIsInUse
<1>1. Init => GuardIsInUse
  BY DEF Init, GuardIsInUse
<1> QED
  BY <1>1, TypeCorrect, GuardNext, PTL DEF Spec

-----------------------------------------------------------------------------
(* Entries of `active`                                                     *)

\* The inductive strengthening of ActiveEntriesAreReady: a connection that
\* promote_connection is about to enter has been upgraded, so its key passed
\* the access lists, and has finished the handshake.
PromotionInv ==
    \A c \in Conns :
        /\ proto[c] = "transport" => socket[c] # "none"
        /\ task[c].pc \in {"handshake", "handshaken", "promote"} =>
               socket[c] # "none"
        /\ task[c].pc \in {"handshaken", "promote"} => proto[c] = "transport"
        /\ socket[c] # "none" => is_allowed_access(public_key[c])

\* The steps of a task that does not enter the handshake.
LEMMA PromotionFrame ==
    ASSUME TypeOK, PromotionInv, ActiveEntriesAreReady,
           proto' = proto, socket' = socket, NEW t \in Tasks,
           pending' \subseteq pending,
           \A k \in Keys : active'[k] \subseteq active[k],
           \A u \in Tasks \ {t} : task'[u] = task[u],
           \/ task'[t].pc \notin {"handshake", "handshaken", "promote"}
           \/ task' = task
    PROVE  PromotionInv' /\ ActiveEntriesAreReady'
<1>1. \A c \in Conns : c \in Tasks
  BY DEF Tasks
<1> QED
  BY <1>1 DEF PromotionInv, ActiveEntriesAreReady, is_allowed_access

LEMMA PromotionNext ==
    TypeOK /\ PromotionInv /\ ActiveEntriesAreReady /\ [Next]_vars =>
        PromotionInv' /\ ActiveEntriesAreReady'
<1> SUFFICES ASSUME TypeOK, PromotionInv, ActiveEntriesAreReady, [Next]_vars
             PROVE  PromotionInv' /\ ActiveEntriesAreReady'
  OBVIOUS
<1> DEFINE Goal == PromotionInv' /\ ActiveEntriesAreReady'
<1>0. /\ task \in [Tasks -> TaskType]
      /\ proto \in [Conns -> {"handshake", "transport"}]
      /\ socket \in [Conns -> {"none", "open", "broken", "closed"}]
      /\ active \in [Keys -> SUBSET Conns]
      /\ Conns \subseteq Tasks /\ Notifier \in Tasks /\ Notifier \notin Conns
      /\ \A c \in Conns : public_key[c] \in Keys
      /\ TasksOK
  BY ConnectionsAssumption DEF TypeOK, Tasks, TasksOK
<1>1. ASSUME proto' = proto, socket' = socket, task' = task,
             pending' \subseteq pending,
             \A k \in Keys : active'[k] \subseteq active[k]
      PROVE  Goal
  BY <1>0, <1>1, PromotionFrame
<1>2. ASSUME NEW c \in Conns, Outside(c) PROVE Goal
  <2>1. CASE Upgrade(c)
    <3>1. /\ socket[c] = "none" /\ socket' = [socket EXCEPT ![c] = "open"]
          /\ is_allowed_access(public_key[c])
          /\ pending' = pending \cup {c}
          /\ active' = active /\ proto' = proto /\ task' = task
      BY <2>1 DEF Upgrade
    <3>2. \A k \in Keys : c \notin active[k]
      BY <3>1 DEF PromotionInv, ActiveEntriesAreReady
    <3>3. PromotionInv'
      BY <1>0, <3>1 DEF PromotionInv, is_allowed_access
    <3>4. ActiveEntriesAreReady'
      BY <1>0, <3>1, <3>2 DEF ActiveEntriesAreReady
    <3> QED
      BY <3>3, <3>4
  <2>2. CASE SocketFault(c)
    <3>1. /\ socket[c] # "none" /\ \A d \in Conns \ {c} : socket'[d] = socket[d]
          /\ active' = active /\ proto' = proto /\ task' = task
          /\ pending' = pending
      BY <1>0, <2>2 DEF SocketFault, tables
    <3>2. PromotionInv'
      <4>1. socket'[c] # "none"
        BY <1>0, <2>2, ConnectionsAssumption DEF SocketFault
      <4> QED
        BY <1>0, <3>1, <4>1 DEF PromotionInv, is_allowed_access
    <3>3. ActiveEntriesAreReady'
      BY <1>0, <3>1 DEF ActiveEntriesAreReady
    <3> QED
      BY <3>2, <3>3
  <2>3. CASE ServerHandshake(c)
    <3>1. /\ socket[c] # "none" /\ socket' = socket /\ proto' = proto
          /\ active' = active /\ pending' = pending
          /\ task'[c].pc = "handshake"
          /\ \A u \in Tasks \ {c} : task'[u] = task[u]
      BY <1>0, <2>3 DEF ServerHandshake, tables, sockets, TaskType
    <3>2. PromotionInv'
      BY <1>0, <3>1 DEF PromotionInv, is_allowed_access
    <3>3. ActiveEntriesAreReady'
      BY <1>0, <3>1 DEF ActiveEntriesAreReady
    <3> QED
      BY <3>2, <3>3
  <2>4. CASE HandshakeError(c) \/ ServerMessage(c) \/ DecodeFails(c)
             \/ \E key \in Keys : RelayPeer(c, key)
    <3>1. /\ socket' = socket /\ proto' = proto
          /\ active' = active /\ pending' = pending
      BY <2>4 DEF HandshakeError, ServerMessage, DecodeFails, RelayPeer,
                  tables, sockets
    <3>2. CASE DecodeFails(c)
      <4>1. /\ task'[c].pc = "ended"
            /\ \A u \in Tasks \ {c} : task'[u] = task[u]
        BY <1>0, <3>2 DEF DecodeFails, TaskType
      <4> QED
        BY <1>0, <3>1, <4>1, PromotionFrame
    <3>3. CASE \E d, frame : SendTo(c, d, frame)
      <4>1. /\ task'[c].pc = "lock"
            /\ \A u \in Tasks \ {c} : task'[u] = task[u]
        BY <1>0, <3>3, SendToEffect
      <4> QED
        BY <1>0, <3>1, <4>1, PromotionFrame
    <3> QED
      BY <2>4, <3>2, <3>3 DEF HandshakeError, ServerMessage, RelayPeer
  <2>5. CASE ReadAbandoned(c)
    BY <1>1, <2>5 DEF ReadAbandoned, tables, sockets
  <2> QED
    BY <1>2, <2>1, <2>2, <2>3, <2>4, <2>5 DEF Outside
<1>3. ASSUME NEW c \in Conns, Inside(c) PROVE Goal
  <2>1. CASE HandshakeReply(c)
    <3>1. /\ socket' = socket /\ active' = active /\ pending' = pending
          /\ socket[c] # "none"
          /\ \A u \in Tasks \ {c} : task'[u] = task[u]
      BY <1>0, <2>1 DEF HandshakeReply, PromotionInv, tables
    <3>2. /\ \A d \in Conns \ {c} : proto'[d] = proto[d]
          /\ \/ proto'[c] = "transport" /\ task'[c].pc = "handshaken"
             \/ proto'[c] = proto[c] /\ task'[c].pc = "lock"
      <4>1. CASE HasReceiver(c)
        BY <1>0, <2>1, <4>1 DEF HandshakeReply, TaskType
      <4>2. CASE ~HasReceiver(c)
        <5>1. proto' = proto /\ SendTo(c, c, "error")
          BY <2>1, <4>2 DEF HandshakeReply, SendTo
        <5> QED
          BY <1>0, <5>1, SendToEffect
      <4> QED
        BY <4>1, <4>2
    <3>3. PromotionInv'
      BY <1>0, <3>1, <3>2 DEF PromotionInv, is_allowed_access
    <3>4. ActiveEntriesAreReady'
      BY <1>0, <3>1, <3>2 DEF ActiveEntriesAreReady
    <3> QED
      BY <3>3, <3>4
  <2>2. CASE PromoteRead(c)
    <3>1. /\ socket' = socket /\ active' = active /\ pending' = pending
          /\ proto' = proto
          /\ task[c].pc = "handshaken" /\ task'[c].pc = "promote"
          /\ \A u \in Tasks \ {c} : task'[u] = task[u]
      BY <1>0, <2>2 DEF PromoteRead, tables, sockets, TaskType
    <3>2. PromotionInv'
      BY <1>0, <3>1 DEF PromotionInv, is_allowed_access
    <3>3. ActiveEntriesAreReady'
      BY <3>1 DEF ActiveEntriesAreReady
    <3> QED
      BY <3>2, <3>3
  <2>3. CASE PromoteConnection(c)
    <3>1. /\ socket' = socket /\ proto' = proto /\ pending' = pending \ {c}
          /\ active' = [active EXCEPT ![public_key[c]] = {c}]
          /\ task[c].pc = "promote" /\ task'[c].pc = "idle"
          /\ \A u \in Tasks \ {c} : task'[u] = task[u]
      BY <1>0, <2>3 DEF PromoteConnection, sockets, Idle
    <3>2. PromotionInv'
      BY <1>0, <3>1 DEF PromotionInv, is_allowed_access
    <3>3. proto[c] = "transport" /\ \A deny \in Deny : public_key[c] \notin deny
      BY <3>1 DEF PromotionInv, is_allowed_access
    <3>4. ActiveEntriesAreReady'
      BY <1>0, <3>1, <3>3 DEF ActiveEntriesAreReady
    <3> QED
      BY <3>2, <3>4
  <2> QED
    BY <1>3, <2>1, <2>2, <2>3 DEF Inside
<1>4. ASSUME NEW c \in Conns, SocketWriter(c) \/ SocketReader(c) PROVE Goal
  <2>1. CASE WriteRemove(c) \/ ReadRemove(c)
    <3>1. /\ proto' = proto /\ socket' = socket /\ task' = task
          /\ pending' \subseteq pending
          /\ \A k \in Keys : active'[k] \subseteq active[k]
      BY <1>0, <2>1 DEF WriteRemove, ReadRemove, Remove, sockets
    <3> QED
      BY <1>1, <3>1
  <2> QED
    BY <1>1, <1>4, <2>1
       DEF SocketWriter, WriteFrame, WriteDisconnect, SocketReader, ReadError,
           ReadDisconnect, ReadClose, EchoClose, tables, sockets
<1>5. ASSUME NEW t \in Tasks, Sending(t) PROVE Goal
  <2>1. /\ proto' = proto /\ socket' = socket
        /\ active' = active /\ pending' = pending
        /\ \A u \in Tasks \ {t} : task'[u] = task[u]
    BY <1>0, <1>5 DEF Sending, Lock, Send, SendFails, SendTo, tables, sockets
  <2>2. task'[t].pc \in {"send", "loop", "idle", "lock"}
    <3>1. CASE Lock(t)
      BY <1>0, <3>1 DEF Lock, TaskType
    <3>2. CASE Send(t)
      BY <1>0, <3>2 DEF Send, TaskType, Idle
    <3>3. CASE SendFails(t)
      <4>1. CASE task' = [task EXCEPT ![t] = Idle]
        BY <1>0, <4>1 DEF Idle
      <4>2. CASE SendTo(t, t, ErrorFrame(t))
        BY <1>0, <4>2, SendToEffect
      <4> QED
        BY <3>3, <4>1, <4>2 DEF SendFails
    <3> QED
      BY <1>5, <3>1, <3>2, <3>3 DEF Sending
  <2> QED
    BY <2>1, <2>2, PromotionFrame
<1>6. CASE NotifyPeers \/ Notifying
  <2>1. /\ proto' = proto /\ socket' = socket
        /\ active' = active /\ pending' = pending
        /\ \A u \in Tasks \ {Notifier} : task'[u] = task[u]
    BY <1>0, <1>6
       DEF NotifyPeers, Notifying, NotifyPeer, NotifyDone, tables, sockets
  <2> QED
    BY <1>0, <2>1 DEF PromotionInv, ActiveEntriesAreReady, is_allowed_access
<1>7. CASE PurgeDue \/ PurgeExpired \/ UNCHANGED vars
  BY <1>1, <1>7 DEF PurgeDue, PurgeExpired, vars, tables, sockets
<1> QED
  BY <1>2, <1>3, <1>4, <1>5, <1>6, <1>7 DEF Next

LEMMA SpecPromotion == Spec => [](PromotionInv /\ ActiveEntriesAreReady)
<1>1. Init => PromotionInv /\ ActiveEntriesAreReady
  BY DEF Init, PromotionInv, ActiveEntriesAreReady, Idle, Tasks
<1> QED
  BY <1>1, TypeCorrect, PromotionNext, PTL DEF Spec

\* What `active` has for a key is a connection of that key that may be there
\* and has finished its handshake (send_message, handle_request), although
\* promote_connection enters it some steps after the handshake, whatever has
\* become of the connection meanwhile.
THEOREM ActiveReady == Spec => []ActiveEntriesAreReady
  BY SpecPromotion, PTL

-----------------------------------------------------------------------------
(* The handshake reply comes first                                         *)

Has(s, frame) == \E i \in DOMAIN s : s[i] = frame

\* Every opaque frame of a channel comes after the handshake reply.
ReplyFirst(s) ==
    \A i \in DOMAIN s :
        s[i] = "opaque" => \E j \in 1..(i - 1) : s[j] = "handshake"

LEMMA QueueAppend ==
    ASSUME NEW s \in Seq(Frames), NEW frame \in Frames
    PROVE  /\ \A f : Has(Append(s, frame), f) <=> Has(s, f) \/ f = frame
           /\ ReplyFirst(s) /\ (frame = "opaque" => Has(s, "handshake"))
                  => ReplyFirst(Append(s, frame))
<1> DEFINE new == Append(s, frame)
<1>1. /\ Len(s) \in Nat /\ DOMAIN s = 1..Len(s)
      /\ DOMAIN new = 1..(Len(s) + 1)
      /\ \A i \in 1..Len(s) : new[i] = s[i]
      /\ new[Len(s) + 1] = frame
  OBVIOUS
<1>2. \A i \in DOMAIN new : i \in DOMAIN s \/ i = Len(s) + 1
  BY <1>1
<1>3. \A f : Has(new, f) <=> Has(s, f) \/ f = frame
  <2> HIDE DEF new
  <2>1. /\ \A i \in DOMAIN s : i \in DOMAIN new
        /\ Len(s) + 1 \in DOMAIN new
    BY <1>1
  <2> QED
    BY <1>1, <1>2, <2>1 DEF Has
<1>4. ASSUME ReplyFirst(s), frame = "opaque" => Has(s, "handshake"),
             NEW i \in DOMAIN new, new[i] = "opaque"
      PROVE  \E j \in 1..(i - 1) : new[j] = "handshake"
  <2> HIDE DEF new
  <2>1. CASE i \in DOMAIN s
    <3>1. PICK j \in 1..(i - 1) : s[j] = "handshake"
      BY <1>1, <1>4, <2>1 DEF ReplyFirst
    <3>2. j \in 1..Len(s)
      BY <1>1, <2>1
    <3> QED
      BY <1>1, <3>1, <3>2
  <2>2. CASE i = Len(s) + 1
    <3>1. PICK j \in DOMAIN s : s[j] = "handshake"
      BY <1>1, <1>4, <2>2 DEF Has
    <3>2. j \in 1..(i - 1) /\ new[j] = s[j]
      BY <1>1, <2>2
    <3> QED
      BY <3>1, <3>2
  <2> QED
    BY <1>2, <2>1, <2>2
<1> QED
  BY <1>3, <1>4 DEF ReplyFirst

LEMMA QueueTail ==
    ASSUME NEW s \in Seq(Frames), s # <<>>
    PROVE  /\ \A f : Has(Tail(s), f) => Has(s, f)
           /\ \A f : Has(s, f) => Has(Tail(s), f) \/ Head(s) = f
           /\ ReplyFirst(s) /\ Head(s) # "handshake" => ReplyFirst(Tail(s))
<1> DEFINE new == Tail(s)
<1>1. /\ Len(s) \in Nat \ {0} /\ DOMAIN s = 1..Len(s)
      /\ DOMAIN new = 1..(Len(s) - 1)
      /\ \A i \in 1..(Len(s) - 1) : new[i] = s[i + 1]
      /\ Head(s) = s[1]
  OBVIOUS
<1> HIDE DEF new
<1>2. \A i \in DOMAIN new : i + 1 \in DOMAIN s /\ new[i] = s[i + 1]
  BY <1>1
<1>3. \A i \in DOMAIN s : i = 1 \/ (i - 1 \in DOMAIN new /\ new[i - 1] = s[i])
  BY <1>1
<1>4. \A f : Has(new, f) => Has(s, f)
  BY <1>2 DEF Has
<1>5. \A f : Has(s, f) => Has(new, f) \/ Head(s) = f
  BY <1>1, <1>3 DEF Has
<1>6. ASSUME ReplyFirst(s), Head(s) # "handshake",
             NEW i \in DOMAIN new, new[i] = "opaque"
      PROVE  \E j \in 1..(i - 1) : new[j] = "handshake"
  <2>1. PICK j \in 1..((i + 1) - 1) : s[j] = "handshake"
    BY <1>2, <1>6 DEF ReplyFirst
  <2>2. j # 1 /\ j \in DOMAIN s
    BY <1>1, <1>6, <2>1
  <2>3. j - 1 \in 1..(i - 1) /\ new[j - 1] = "handshake"
    BY <1>1, <1>3, <2>1, <2>2
  <2> QED
    BY <2>3
<1> QED
  BY <1>4, <1>5, <1>6 DEF ReplyFirst, new

\* The inductive strengthening of HandshakeComesFirst: whoever sends an
\* opaque frame to a connection found it in the transport state, and then the
\* reply was queued before.
AddressInv ==
    \A t \in Tasks :
        task[t].pc \in {"lock", "send"} /\ task[t].frame = "opaque" =>
            \A d \in task[t].to : proto[d] = "transport"

QueueInv ==
    \A c \in Conns :
        /\ Has(outgoing[c], "opaque") => proto[c] = "transport"
        /\ proto[c] = "transport" =>
               c \in greeted \/ writer[c] # "run" \/ Has(outgoing[c], "handshake")
        /\ c \in greeted \/ writer[c] # "run" \/ ReplyFirst(outgoing[c])

LEMMA QueueIsFirst == QueueInv => HandshakeComesFirst
  BY DEF QueueInv, HandshakeComesFirst, ReplyFirst

LEMMA AddressNext ==
    TypeOK /\ ActiveEntriesAreReady /\ AddressInv /\ [Next]_vars => AddressInv'
<1> SUFFICES ASSUME TypeOK, ActiveEntriesAreReady, AddressInv, [Next]_vars
             PROVE  AddressInv'
  OBVIOUS
<1>0. /\ task \in [Tasks -> TaskType] /\ TasksOK
      /\ \A t \in Tasks : task[t].to \subseteq Conns
      /\ proto \in [Conns -> {"handshake", "transport"}]
      /\ active \in [Keys -> SUBSET Conns]
      /\ Conns \subseteq Tasks /\ Notifier \in Tasks /\ Notifier \notin Conns
  BY ConnectionsAssumption DEF TypeOK, TasksOK, TaskType, Tasks
<1>1. CASE proto' = proto /\ task' = task
  BY <1>1 DEF AddressInv
<1>2. ASSUME NEW t \in Tasks, proto' = proto,
             \A u \in Tasks \ {t} : task'[u] = task[u],
             task'[t].pc \in {"lock", "send"} /\ task'[t].frame = "opaque" =>
                 \A d \in task'[t].to : proto[d] = "transport"
      PROVE  AddressInv'
  BY <1>2 DEF AddressInv
<1>3. ASSUME NEW t \in Conns, proto' = proto, NEW d \in Conns,
             NEW frame \in Frames, SendTo(t, d, frame),
             frame = "opaque" => proto[d] = "transport"
      PROVE  AddressInv'
  <2>1. /\ task'[t].to = {d} /\ task'[t].frame = frame
        /\ \A u \in Tasks \ {t} : task'[u] = task[u]
    BY <1>0, <1>3, SendToEffect
  <2> QED
    BY <1>0, <1>2, <1>3, <2>1
<1>4. ASSUME NEW c \in Conns, proto' = proto, SendTo(c, c, ErrorFrame(c))
      PROVE  AddressInv'
  BY <1>3, <1>4, ErrorFrameType DEF ErrorFrame
<1>5. ASSUME NEW c \in Conns, Outside(c) PROVE AddressInv'
  <2>1. CASE HandshakeError(c) \/ ServerMessage(c)
    BY <1>4, <2>1 DEF HandshakeError, ServerMessage
  <2>2. ASSUME NEW key \in Keys, RelayPeer(c, key) PROVE AddressInv'
    <3>1. CASE active[key] = {}
      BY <1>4, <2>2, <3>1 DEF RelayPeer
    <3>2. CASE active[key] # {}
      <4>1. PICK d \in active[key] : SendTo(c, d, "opaque") /\ proto' = proto
        BY <2>2, <3>2 DEF RelayPeer
      <4>2. proto[d] = "transport" /\ d \in Conns
        BY <1>0 DEF ActiveEntriesAreReady
      <4> QED
        BY <1>3, <4>1, <4>2 DEF Frames
    <3> QED
      BY <3>1, <3>2
  <2>3. CASE ServerHandshake(c) \/ DecodeFails(c)
    <3>1. /\ proto' = proto /\ task'[c].pc \notin {"lock", "send"}
          /\ \A u \in Tasks \ {c} : task'[u] = task[u]
      BY <1>0, <2>3 DEF ServerHandshake, DecodeFails, TaskType
    <3> QED
      BY <1>0, <1>2, <3>1
  <2> QED
    BY <1>1, <1>5, <2>1, <2>2, <2>3
       DEF Outside, Upgrade, SocketFault, ReadAbandoned
<1>6. ASSUME NEW c \in Conns, Inside(c) PROVE AddressInv'
  <2>1. CASE HandshakeReply(c) /\ ~HasReceiver(c)
    <3>1. proto' = proto /\ SendTo(c, c, "error")
      BY <2>1 DEF HandshakeReply, SendTo
    <3> QED
      BY <1>3, <3>1 DEF Frames
  <2>2. CASE HandshakeReply(c) /\ HasReceiver(c)
    <3>1. /\ proto' = [proto EXCEPT ![c] = "transport"]
          /\ task'[c].pc = "handshaken"
          /\ \A u \in Tasks \ {c} : task'[u] = task[u]
      BY <1>0, <2>2 DEF HandshakeReply, TaskType
    <3>2. \A d \in Conns : proto[d] = "transport" => proto'[d] = "transport"
      BY <1>0, <3>1
    <3> QED
      BY <1>0, <3>1, <3>2 DEF AddressInv
  <2>3. CASE PromoteRead(c) \/ PromoteConnection(c)
    <3>1. /\ proto' = proto /\ task'[c].pc \notin {"lock", "send"}
          /\ \A u \in Tasks \ {c} : task'[u] = task[u]
      BY <1>0, <2>3 DEF PromoteRead, PromoteConnection, TaskType, Idle
    <3> QED
      BY <1>0, <1>2, <3>1
  <2> QED
    BY <1>6, <2>1, <2>2, <2>3 DEF Inside
<1>7. ASSUME NEW t \in Tasks, Sending(t) PROVE AddressInv'
  <2>0. proto' = proto
    BY <1>7 DEF Sending, Lock, Send, SendFails
  <2>1. CASE Lock(t)
    <3>1. /\ task[t].pc = "lock"
          /\ task'[t].to = task[t].to /\ task'[t].frame = task[t].frame
          /\ \A u \in Tasks \ {t} : task'[u] = task[u]
      BY <1>0, <2>1 DEF Lock, TaskType
    <3> QED
      BY <1>2, <2>0, <3>1 DEF AddressInv
  <2>2. CASE Send(t)
    <3>1. /\ task'[t].pc \notin {"lock", "send"}
          /\ \A u \in Tasks \ {t} : task'[u] = task[u]
      BY <1>0, <2>2 DEF Send, TaskType, Idle
    <3> QED
      BY <1>2, <2>0, <3>1
  <2>3. CASE SendFails(t)
    <3>1. CASE task' = [task EXCEPT ![t] = Idle]
      <4>1. /\ task'[t].pc = "idle"
            /\ \A u \in Tasks \ {t} : task'[u] = task[u]
        BY <1>0, <3>1 DEF Idle
      <4> QED
        BY <1>2, <2>0, <4>1
    <3>2. CASE t # Notifier /\ SendTo(t, t, ErrorFrame(t))
      BY <1>4, <2>0, <3>2 DEF Tasks
    <3> QED
      BY <2>3, <3>1, <3>2 DEF SendFails
  <2> QED
    BY <1>7, <2>1, <2>2, <2>3 DEF Sending
<1>8. CASE NotifyPeers \/ NotifyDone
  <2>1. /\ proto' = proto
        /\ \A u \in Tasks \ {Notifier} : task'[u] = task[u]
    BY <1>0, <1>8 DEF NotifyPeers, NotifyDone
  <2>2. CASE NotifyPeers
    <3>1. PICK keys : task' = [task EXCEPT ![Notifier] =
                                  [Idle EXCEPT !.pc = "loop", !.keys = keys]]
      BY <2>2 DEF NotifyPeers
    <3>2. task'[Notifier].pc = "loop"
      BY <1>0, <3>1 DEF Idle
    <3> QED
      BY <1>0, <1>2, <2>1, <3>2
  <2>3. CASE NotifyDone
    <3>1. task'[Notifier].pc = "idle"
      BY <1>0, <2>3 DEF NotifyDone, Idle
    <3> QED
      BY <1>0, <1>2, <2>1, <3>1
  <2> QED
    BY <1>8, <2>2, <2>3
<1>9. CASE NotifyPeer
  <2>0. DOMAIN task[Notifier] = DOMAIN Idle
    BY <1>0 DEF TaskType, Idle
  <2>1. PICK key \in task[Notifier].keys :
            /\ proto' = proto /\ task'[Notifier].to = active[key]
            /\ \A u \in Tasks \ {Notifier} : task'[u] = task[u]
    <3>1. PICK key \in task[Notifier].keys :
              task' = [task EXCEPT
                  ![Notifier].pc = IF active[key] = {} THEN "loop" ELSE "lock",
                  ![Notifier].to = active[key],
                  ![Notifier].keys = @ \ {key}]
      BY <1>9 DEF NotifyPeer
    <3>2. task'[Notifier].to = active[key]
      BY <1>0, <2>0, <3>1 DEF Idle
    <3>3. \A u \in Tasks \ {Notifier} : task'[u] = task[u]
      BY <1>0, <3>1
    <3> QED
      BY <1>9, <3>2, <3>3 DEF NotifyPeer
  <2>2. key \in Keys
    BY <1>0, <2>1 DEF TaskType
  <2>3. \A d \in active[key] : proto[d] = "transport"
    BY <2>2 DEF ActiveEntriesAreReady
  <2> QED
    BY <1>0, <1>2, <2>1, <2>3
<1> QED
  BY <1>1, <1>5, <1>6, <1>7, <1>8, <1>9
     DEF Next, SocketWriter, WriteFrame, WriteDisconnect, WriteRemove,
         SocketReader, ReadError, ReadDisconnect, ReadRemove, ReadClose,
         EchoClose, Notifying, PurgeDue, PurgeExpired, vars

LEMMA QueueNext ==
    TypeOK /\ PromotionInv /\ AddressInv /\ QueueInv /\ [Next]_vars => QueueInv'
<1> SUFFICES ASSUME TypeOK, PromotionInv, AddressInv, QueueInv, [Next]_vars
             PROVE  QueueInv'
  OBVIOUS
<1>0. /\ \A c \in Conns : outgoing[c] \in Seq(Frames)
      /\ outgoing \in [Conns -> Seq(Frames)]
      /\ writer \in [Conns -> SocketTask]
      /\ proto \in [Conns -> {"handshake", "transport"}]
  BY DEF TypeOK
<1>1. CASE /\ outgoing' = outgoing /\ proto' = proto /\ greeted' = greeted
           /\ \A c \in Conns : writer'[c] = writer[c] \/ writer'[c] # "run"
  BY <1>1 DEF QueueInv
<1>2. ASSUME NEW d \in Conns, NEW frame \in Frames,
             outgoing' = [outgoing EXCEPT ![d] = Append(@, frame)],
             greeted' = greeted, writer' = writer, proto' = proto,
             frame = "opaque" => proto[d] = "transport"
      PROVE  QueueInv'
  <2>1. /\ outgoing'[d] = Append(outgoing[d], frame)
        /\ \A c \in Conns \ {d} : outgoing'[c] = outgoing[c]
    BY <1>0, <1>2
  <2>2. \A f : Has(outgoing'[d], f) <=> Has(outgoing[d], f) \/ f = frame
    BY <1>0, <2>1, QueueAppend
  <2>3. /\ ReplyFirst(outgoing[d])
        /\ (frame = "opaque" => Has(outgoing[d], "handshake"))
        => ReplyFirst(outgoing'[d])
    BY <1>0, <2>1, QueueAppend
  <2> QED
    BY <1>2, <2>1, <2>2, <2>3 DEF QueueInv
<1>3. ASSUME NEW c \in Conns, Upgrade(c) PROVE QueueInv'
  <2>1. /\ socket[c] = "none" /\ outgoing' = outgoing /\ proto' = proto
        /\ greeted' = greeted
        /\ \A d \in Conns \ {c} : writer'[d] = writer[d]
    BY <1>0, <1>3 DEF Upgrade
  <2>2. proto[c] # "transport" /\ ~Has(outgoing[c], "opaque")
    BY <2>1 DEF PromotionInv, QueueInv
  <2>3. ReplyFirst(outgoing[c])
    BY <2>2 DEF Has, ReplyFirst
  <2> QED
    BY <2>1, <2>2, <2>3 DEF QueueInv
<1>4. ASSUME NEW c \in Conns, HandshakeReply(c) PROVE QueueInv'
  <2>1. CASE outgoing' = outgoing /\ proto' = proto
    BY <1>1, <1>4, <2>1 DEF HandshakeReply
  <2>2. CASE /\ outgoing' = [outgoing EXCEPT ![c] = Append(@, "handshake")]
             /\ proto' = [proto EXCEPT ![c] = "transport"]
    <3>1. /\ outgoing'[c] = Append(outgoing[c], "handshake")
          /\ \A d \in Conns \ {c} : /\ outgoing'[d] = outgoing[d]
                                    /\ proto'[d] = proto[d]
          /\ proto'[c] = "transport"
          /\ writer' = writer /\ greeted' = greeted
      BY <1>0, <1>4, <2>2 DEF HandshakeReply
    <3>2. Has(outgoing'[c], "handshake")
      BY <1>0, <3>1, QueueAppend DEF Frames
    <3>3. ReplyFirst(outgoing[c]) => ReplyFirst(outgoing'[c])
      BY <1>0, <3>1, QueueAppend DEF Frames
    <3> QED
      BY <3>1, <3>2, <3>3 DEF QueueInv
  <2> QED
    BY <1>4, <2>1, <2>2 DEF HandshakeReply
<1>5. ASSUME NEW t \in Tasks, Send(t) PROVE QueueInv'
  <2>1. PICK d \in task[t].to :
            outgoing' = [outgoing EXCEPT ![d] = Append(@, task[t].frame)]
    BY <1>5 DEF Send
  <2>2. d \in Conns /\ task[t].frame \in Frames
    BY DEF TypeOK, TaskType
  <2>3. task[t].frame = "opaque" => proto[d] = "transport"
    BY <1>5 DEF Send, AddressInv
  <2> QED
    BY <1>2, <1>5, <2>1, <2>2, <2>3 DEF Send
<1>6. ASSUME NEW c \in Conns, WriteFrame(c) PROVE QueueInv'
  <2>1. /\ proto' = proto /\ outgoing[c] # <<>> /\ writer[c] = "run"
        /\ outgoing'[c] = Tail(outgoing[c])
        /\ \A d \in Conns \ {c} : /\ outgoing'[d] = outgoing[d]
                                  /\ writer'[d] = writer[d]
                                  /\ d \in greeted' <=> d \in greeted
    BY <1>0, <1>6 DEF WriteFrame
  <2>2. \/ writer'[c] # "run"
        \/ Head(outgoing[c]) = "handshake" /\ c \in greeted'
        \/ Head(outgoing[c]) # "handshake" /\ greeted' = greeted
    BY <1>0, <1>6 DEF WriteFrame
  <2>3. /\ \A f : Has(outgoing'[c], f) => Has(outgoing[c], f)
        /\ \A f : Has(outgoing[c], f) =>
                      Has(outgoing'[c], f) \/ Head(outgoing[c]) = f
        /\ ReplyFirst(outgoing[c]) /\ Head(outgoing[c]) # "handshake"
               => ReplyFirst(outgoing'[c])
    BY <1>0, <2>1, QueueTail
  <2> QED
    BY <2>1, <2>2, <2>3 DEF QueueInv
<1>7. ASSUME NEW c \in Conns, WriteRemove(c) PROVE QueueInv'
  <2>1. /\ proto' = proto /\ greeted' = greeted /\ writer'[c] # "run"
        /\ outgoing'[c] = <<>>
        /\ \A d \in Conns \ {c} : /\ outgoing'[d] = outgoing[d]
                                  /\ writer'[d] = writer[d]
    BY <1>0, <1>7 DEF WriteRemove
  <2>2. ~Has(outgoing'[c], "opaque")
    BY <2>1 DEF Has
  <2> QED
    BY <2>1, <2>2 DEF QueueInv
<1>8. ASSUME NEW c \in Conns, EchoClose(c) PROVE QueueInv'
  BY <1>1, <1>2, <1>8 DEF EchoClose, Frames
<1>9. ASSUME NEW c \in Conns, WriteDisconnect(c) PROVE QueueInv'
  BY <1>0, <1>1, <1>9 DEF WriteDisconnect, sockets
<1> QED
  BY <1>1, <1>3, <1>4, <1>5, <1>6, <1>7, <1>8, <1>9
     DEF Next, Outside, SocketFault, ServerHandshake, HandshakeError,
         RelayPeer, ServerMessage, DecodeFails, ReadAbandoned,
         Inside, PromoteRead, PromoteConnection, SocketWriter,
         SocketReader, ReadError, ReadDisconnect, ReadRemove, ReadClose,
         Sending, Lock, SendFails, NotifyPeers, Notifying, NotifyPeer,
         NotifyDone, PurgeDue, PurgeExpired, vars, sockets

\* A client is sent the reply to its handshake before anything encrypted or
\* relayed: every task that sends to a connection found it in `active`, or
\* answers its own client after the handshake (server_handshake, send,
\* socket_writer).
THEOREM ReplyComesFirst == Spec => []HandshakeComesFirst
<1>1. Init => AddressInv /\ QueueInv
  BY DEF Init, AddressInv, QueueInv, Idle, Has, ReplyFirst
<1>2. Spec => []AddressInv
  BY <1>1, TypeCorrect, SpecPromotion, AddressNext, PTL DEF Spec
<1>3. Spec => []QueueInv
  BY <1>1, <1>2, TypeCorrect, SpecPromotion, QueueNext, PTL DEF Spec
<1> QED
  BY <1>3, QueueIsFirst, PTL

=============================================================================
