-------------------------------- MODULE Hub --------------------------------
(***************************************************************************)
(* The WebSocket hub: one goroutine that owns the rooms, fed through three *)
(* buffered channels, and two goroutines per client connection.            *)
(***************************************************************************)
EXTENDS Naturals, Sequences, FiniteSets, SequencesExt

CONSTANTS
    Clients,        \* WebSocket connections, one Client value for each
    Polls,          \* poll identifiers
    Room,           \* the poll that each connection asked for
    SendCap,        \* capacity of a client's send channel, 256 in the code
    RegisterCap,    \* capacity of hub.register, 256 in the code
    UnregisterCap,  \* capacity of hub.unregister, 256 in the code
    BroadcastCap,   \* capacity of hub.broadcast, 1024 in the code
    MaxMessages     \* bound: how many messages are broadcast

ASSUME HubAssumption ==
    /\ Room \in [Clients -> Polls]
    /\ {SendCap, RegisterCap, UnregisterCap, BroadcastCap} \subseteq Nat \ {0}
    /\ MaxMessages \in Nat

\* A broadcast message; `seq` tells the messages apart and orders them.
Message == [poll : Polls, seq : 1 .. MaxMessages]

VARIABLES
    register, unregister, broadcast,    \* the channels, oldest entry first
    rooms,          \* h.clients
    stage,          \* where the hub goroutine is
    message,        \* the message being fanned out, as a sequence of at most one
    targets,        \* the clients it has still to be offered to
    victim,         \* the client whose buffer was full, if any
    send,           \* each client's send channel
    closed,         \* the clients whose send channel is closed
    conn,           \* each connection
    reader, writer, \* each client's ReadPump and WritePump
    held,           \* what WritePump has received and not written
    received,       \* the frames that reached the browser
    published,      \* how many messages were broadcast
    due,            \* history: the messages fanned out while in the room
    missed          \* history: the clients for which a message was dropped

channels == <<register, unregister, broadcast>>
hub == <<rooms, stage, message, targets, victim>>
pumps == <<conn, reader, writer, held, received>>
history == <<due, missed>>
vars == <<channels, hub, send, closed, pumps, published, history>>

Init ==
    /\ register = <<>> /\ unregister = <<>> /\ broadcast = <<>>
    /\ rooms = [p \in Polls |-> {}]
    /\ stage = "select" /\ message = <<>> /\ targets = {} /\ victim = {}
    /\ send = [c \in Clients |-> <<>>]
    /\ closed = {}
    /\ conn = [c \in Clients |-> "none"]
    /\ reader = [c \in Clients |-> "off"]
    /\ writer = [c \in Clients |-> "off"]
    /\ held = [c \in Clients |-> <<>>]
    /\ received = [c \in Clients |-> <<>>]
    /\ published = 0
    /\ due = [c \in Clients |-> <<>>]
    /\ missed = {}

-----------------------------------------------------------------------------
\* The hub goroutine.  Its select takes any channel that is not empty.

\* Mutant of Leave: the client is not deleted from its room.
LeaveNothing(p, c) == rooms

Leave(p, c) == [rooms EXCEPT ![p] = @ \ {c}]

\* Mutant of HubRegister: the room is looked up by another key.
HubRegisterWrongKey ==
    /\ stage = "select"
    /\ register # <<>>
    /\ \E p \in Polls \ {Room[Head(register)]} :
          rooms' = [rooms EXCEPT ![p] = @ \cup {Head(register)}]
    /\ register' = Tail(register)
    /\ UNCHANGED <<unregister, broadcast, stage, message, targets, victim,
                   send, closed, pumps, published, history>>

HubRegister ==
    /\ stage = "select"
    /\ register # <<>>
    /\ LET c == Head(register)
       IN rooms' = [rooms EXCEPT ![Room[c]] = @ \cup {c}]
    /\ register' = Tail(register)
    /\ UNCHANGED <<unregister, broadcast, stage, message, targets, victim,
                   send, closed, pumps, published, history>>

\* Only a client that is still in its room is removed and has its channel closed.
HubUnregister ==
    /\ stage = "select"
    /\ unregister # <<>>
    /\ LET c == Head(unregister)
       IN \/ /\ c \in rooms[Room[c]]
             /\ rooms' = Leave(Room[c], c)
             /\ closed' = closed \cup {c}
          \/ c \notin rooms[Room[c]] /\ UNCHANGED <<rooms, closed>>
    /\ unregister' = Tail(unregister)
    /\ UNCHANGED <<register, broadcast, stage, message, targets, victim,
                   send, pumps, published, history>>

\* Mutant of Audience: a message goes to every room.
EveryRoom(m) == UNION {rooms[p] : p \in Polls}

Audience(m) == rooms[m.poll]

\* A broadcast begins with a snapshot of the room.
HubBroadcast ==
    /\ stage = "select"
    /\ broadcast # <<>>
    /\ message' = <<Head(broadcast)>>
    /\ targets' = Audience(Head(broadcast))
    /\ stage' = "fanout"
    /\ broadcast' = Tail(broadcast)
    /\ due' = [c \in Clients |-> IF c \in rooms[Head(broadcast).poll]
                                 THEN Append(due[c], Head(broadcast))
                                 ELSE due[c]]
    /\ UNCHANGED <<register, unregister, rooms, victim, send, closed, pumps,
                   published, missed>>

\* The non-blocking send to one target succeeds.
HubSend(c) ==
    /\ stage = "fanout"
    /\ c \in targets
    /\ Len(send[c]) < SendCap
    /\ send' = [send EXCEPT ![c] = @ \o message]
    /\ targets' = targets \ {c}
    /\ UNCHANGED <<channels, rooms, stage, message, victim, closed, pumps,
                   published, history>>

\* Mutant of HubDrop: the select has no default case, so the send waits.
HubDropNever(c) == FALSE

\* The target's buffer is full: the hub is now committed to unregistering it.
HubDrop(c) ==
    /\ stage = "fanout"
    /\ c \in targets
    /\ Len(send[c]) = SendCap
    /\ stage' = "evict"
    /\ victim' = {c}
    /\ targets' = targets \ {c}
    /\ missed' = missed \cup {c}
    /\ UNCHANGED <<channels, rooms, message, send, closed, pumps, published, due>>

\* Mutant of HubEvict: a full unregister channel is not waited for.
HubEvictIfRoom ==
    /\ stage = "evict"
    /\ unregister' = IF Len(unregister) < UnregisterCap
                     THEN unregister \o [i \in {1} |-> CHOOSE c \in victim : TRUE]
                     ELSE unregister
    /\ stage' = "fanout"
    /\ victim' = {}
    /\ UNCHANGED <<register, broadcast, rooms, message, targets, send, closed,
                   pumps, published, history>>

\* The hub's own send on hub.unregister, which blocks while that is full.
HubEvict ==
    /\ stage = "evict"
    /\ Len(unregister) < UnregisterCap
    /\ \E c \in victim : unregister' = Append(unregister, c)
    /\ stage' = "fanout"
    /\ victim' = {}
    /\ UNCHANGED <<register, broadcast, rooms, message, targets, send, closed,
                   pumps, published, history>>

HubDone ==
    /\ stage = "fanout"
    /\ targets = {}
    /\ stage' = "select"
    /\ message' = <<>>
    /\ UNCHANGED <<channels, rooms, targets, victim, send, closed, pumps,
                   published, history>>

HubStep ==
    \/ HubRegister \/ HubUnregister \/ HubBroadcast \/ HubEvict \/ HubDone
    \/ \E c \in Clients : HubSend(c) \/ HubDrop(c)

-----------------------------------------------------------------------------
\* The Redis subscriber's handler calls Broadcast, which blocks on a full channel.
Broadcast(p) ==
    /\ published < MaxMessages
    /\ Len(broadcast) < BroadcastCap
    /\ published' = published + 1
    /\ broadcast' = Append(broadcast, [poll |-> p, seq |-> published'])
    /\ UNCHANGED <<register, unregister, hub, send, closed, pumps, history>>

-----------------------------------------------------------------------------
\* A connection: ServeWS, the peer, ReadPump and WritePump.

Upgrade(c) ==
    /\ conn[c] = "none"
    /\ conn' = [conn EXCEPT ![c] = "open"]
    /\ UNCHANGED <<channels, hub, send, closed, reader, writer, held, received,
                   published, history>>

\* ServeWS registers the client, then starts the pumps.
Serve(c) ==
    /\ conn[c] # "none" /\ reader[c] = "off"
    /\ Len(register) < RegisterCap
    /\ register' = Append(register, c)
    /\ reader' = [reader EXCEPT ![c] = "reading"]
    /\ writer' = [writer EXCEPT ![c] = "idle"]
    /\ UNCHANGED <<unregister, broadcast, hub, send, closed, conn, held,
                   received, published, history>>

\* The peer leaves, or its network does, or it stops answering pings.
PeerBreaks(c) ==
    /\ conn[c] = "open"
    /\ conn' = [conn EXCEPT ![c] = "broken"]
    /\ UNCHANGED <<channels, hub, send, closed, reader, writer, held, received,
                   published, history>>

ReaderFails(c) ==
    /\ reader[c] = "reading" /\ conn[c] # "open"
    /\ reader' = [reader EXCEPT ![c] = "leaving"]
    /\ UNCHANGED <<channels, hub, send, closed, conn, writer, held, received,
                   published, history>>

\* ReadPump's deferred function; Unregister blocks on a full channel.
ReaderLeaves(c) ==
    /\ reader[c] = "leaving"
    /\ Len(unregister) < UnregisterCap
    /\ unregister' = Append(unregister, c)
    /\ reader' = [reader EXCEPT ![c] = "gone"]
    /\ conn' = [conn EXCEPT ![c] = "closed"]
    /\ UNCHANGED <<register, broadcast, hub, send, closed, writer, held,
                   received, published, history>>

WriterTakes(c) ==
    /\ writer[c] = "idle" /\ send[c] # <<>>
    /\ held' = [held EXCEPT ![c] = <<Head(send[c])>>]
    /\ send' = [send EXCEPT ![c] = Tail(@)]
    /\ writer' = [writer EXCEPT ![c] = "writing"]
    /\ UNCHANGED <<channels, hub, closed, conn, reader, received, published,
                   history>>

\* Mutant of Frame: the queued messages are taken and not written.
FrameOfOne(c) == held[c]

\* What one text frame carries: the message taken and all that are queued.
Frame(c) == held[c] \o send[c]

\* The frame is written; on a broken connection that may go unnoticed.
WriterFlushes(c) ==
    /\ writer[c] = "writing" /\ conn[c] # "closed"
    /\ received' = IF conn[c] = "open"
                   THEN [received EXCEPT ![c] = Append(@, Frame(c))]
                   ELSE received
    /\ held' = [held EXCEPT ![c] = <<>>]
    /\ send' = [send EXCEPT ![c] = <<>>]
    /\ writer' = [writer EXCEPT ![c] = "idle"]
    /\ UNCHANGED <<channels, hub, closed, conn, reader, published, history>>

\* Mutant of WriterEnds: failed writes and pings are ignored.
WriterIgnoresErrors(c) ==
    /\ writer[c] = "idle" /\ c \in closed /\ send[c] = <<>>
    /\ writer' = [writer EXCEPT ![c] = "gone"]
    /\ conn' = [conn EXCEPT ![c] = "closed"]
    /\ UNCHANGED <<channels, hub, send, closed, reader, held, received,
                   published, history>>

\* WritePump returns: its channel is closed and empty, or a write or ping fails.
WriterEnds(c) ==
    /\ \/ writer[c] = "idle" /\ c \in closed /\ send[c] = <<>>
       \/ writer[c] \in {"idle", "writing"} /\ conn[c] # "open"
    /\ writer' = [writer EXCEPT ![c] = "gone"]
    /\ conn' = [conn EXCEPT ![c] = "closed"]
    /\ UNCHANGED <<channels, hub, send, closed, reader, held, received,
                   published, history>>

PumpStep(c) == Serve(c) \/ ReaderFails(c) \/ ReaderLeaves(c)
                 \/ WriterTakes(c) \/ WriterFlushes(c) \/ WriterEnds(c)

\* The hub waits in its select and nobody has anything left to do.
Idle ==
    /\ stage = "select" /\ register \o unregister \o broadcast = <<>>
    /\ published = MaxMessages
    /\ UNCHANGED vars

Next ==
    \/ HubStep
    \/ \E p \in Polls : Broadcast(p)
    \/ \E c \in Clients : Upgrade(c) \/ PeerBreaks(c) \/ PumpStep(c)
    \/ Idle

Spec == Init /\ [][Next]_vars

\* Goroutines run; peers may connect, stay and break as they like.
FairSpec ==
    /\ Spec
    /\ WF_vars(HubStep)
    /\ \A c \in Clients : WF_vars(PumpStep(c))

-----------------------------------------------------------------------------
Queued(q, c) == \E i \in DOMAIN q : q[i] = c

\* The states of the model, with every channel within its capacity.
TypeOK ==
    /\ \A q \in {register, unregister} : \A i \in DOMAIN q : q[i] \in Clients
    /\ Len(register) <= RegisterCap /\ Len(unregister) <= UnregisterCap
    /\ Len(broadcast) <= BroadcastCap
    /\ \A i \in DOMAIN broadcast : broadcast[i] \in Message
    /\ \A p \in Polls : rooms[p] \subseteq {c \in Clients : Room[c] = p}
    /\ stage \in {"select", "fanout", "evict"}
    /\ message \in {<<>>} \cup {<<m>> : m \in Message} /\ targets \subseteq Clients
    /\ victim \subseteq Clients /\ (stage = "evict" <=> victim # {})
    /\ \A c \in Clients : Len(send[c]) <= SendCap
    /\ closed \subseteq Clients
    /\ conn \in [Clients -> {"none", "open", "broken", "closed"}]
    /\ reader \in [Clients -> {"off", "reading", "leaving", "gone"}]
    /\ writer \in [Clients -> {"off", "idle", "writing", "gone"}]
    /\ published \in 0 .. MaxMessages

\* The hub never sends on a closed channel nor closes one twice, either of
\* which panics and ends the process, whatever order its select serves
\* registrations, repeated unregistrations and broadcasts in.
NoPanic ==
    \A c \in closed : c \notin rooms[Room[c]] /\ c \notin targets

\* A client that missed a message does not stay: it is out of its room or its
\* removal is under way.
MissedMeansEviction ==
    \A c \in missed :
       c \in rooms[Room[c]] => Queued(unregister, c) \/ c \in victim

\* A connected client that missed nothing has got, or will get from the
\* buffers on its way, exactly the messages broadcast to its room since it
\* joined, in order and once.
NothingLostOnTheWay ==
    \A c \in Clients :
       c \notin missed /\ conn[c] = "open" /\ writer[c] # "gone" =>
          FlattenSeq(received[c]) \o held[c] \o send[c]
             \o (IF c \in targets THEN message ELSE <<>>) = due[c]

\* The hub waits to send to itself, which FullBufferDisconnects shows: nothing
\* moves it any more.
HubStuck == stage = "evict" /\ Len(unregister) = UnregisterCap

\* A client that breaks or is removed is forgotten: both its goroutines end
\* and its connection is closed, though its reader may have to wait for a place
\* in the unregister channel; unless the hub is stuck.
LeaversEnd ==
    \A c \in Clients :
       (conn[c] = "broken" \/ c \in closed) ~>
          \/ conn[c] = "closed" /\ reader[c] = "gone" /\ writer[c] = "gone"
          \/ HubStuck

Got(c, m) == \E f \in 1 .. Len(received[c]) : Queued(received[c][f], m)

\* A message fanned out to a client reaches it, unless the client's buffer
\* was full, its connection ends, or the hub is stuck before it.
BroadcastReaches ==
    \A c \in Clients : \A m \in Message :
       Queued(due[c], m) ~>
          (Got(c, m) \/ c \in missed \/ conn[c] # "open" \/ HubStuck)

\* The hub gets to the end of every broadcast, whatever slow or broken clients
\* do, and so the Redis subscriber never waits for ever on a full channel: unless
\* the hub is stuck.
HubCatchesUp == []<>((stage = "select" /\ broadcast = <<>>) \/ HubStuck)

-----------------------------------------------------------------------------
\* hub.go:76, "Client send buffer full -- disconnect it": a client that the
\* hub has committed to evict has its channel closed in the end.
FullBufferDisconnects ==
    \A c \in Clients : (c \in victim) ~> (c \in closed)

\* README.md:78, "Connected React clients update their state and progress
\* bars immediately": with nothing on its way, a connected client shows the
\* last message.  useRealtimePoll parses each frame as one JSON document, so
\* it shows the last frame that holds one message.
Shown(c) == {received[c][f] : f \in {g \in 1 .. Len(received[c]) :
                /\ Len(received[c][g]) = 1
                /\ \A h \in g + 1 .. Len(received[c]) : Len(received[c][h]) # 1}}

ConnectedClientsUpdate ==
    \A c \in Clients :
       /\ conn[c] = "open" /\ due[c] # <<>> /\ c \notin missed
       /\ held[c] \o send[c] = <<>> /\ c \notin targets
       => Shown(c) = {<<due[c][Len(due[c])]>>}
=============================================================================
