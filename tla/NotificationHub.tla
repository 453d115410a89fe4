--------------------------- MODULE NotificationHub ---------------------------
(***************************************************************************)
(* Realtime notifications (internal/communication): Send and SendBulk      *)
(* insert a row and push it to the user's websocket connections.  The hub  *)
(* keeps those connections in a map behind a read-write lock.  One         *)
(* goroutine, Run, adds and removes them; senders walk the map under the   *)
(* read lock and put the message in a connection's buffered channel, or,   *)
(* when it is full, start a goroutine that asks Run to remove it.  Each    *)
(* connection has two goroutines more, ReadPump and WritePump.             *)
(*                                                                         *)
(* A step ends where another goroutine can run: at a channel operation, at *)
(* the lock, at a network write.  What a goroutine does under the lock     *)
(* between two of those is one step.                                       *)
(***************************************************************************)
EXTENDS Naturals, FiniteSets, Sequences

CONSTANTS
    User,                   \* the accounts
    Client,                 \* the websocket connections that can be opened
    Owner,                  \* each connection's authenticated user
    Notification,           \* the notifications that can be built
    Sender,                 \* the requests that call Send or SendBulk
    maxConnectionsPerUser,  \* 5 in the code
    SendBuffer,             \* capacity of a connection's channel, 256
    None                    \* no value

ASSUME OwnerAssumption == Owner \in [Client -> User]
ASSUME LimitAssumption ==
    maxConnectionsPerUser \in Nat \ {0} /\ SendBuffer \in Nat \ {0}
ASSUME NoneAssumption == None \notin User \cup Client \cup Notification

VARIABLES
    clients,     \* Hub.clients: each user's registered connections
    run,         \* Hub.Run: where it is and the connection it holds
    unregs,      \* goroutines that trySend started for a connection and
                 \* that still wait to send it on Hub.unregister
    chan,        \* Client.send: open or closed, and what it buffers
    conn,        \* Client.conn
    handler,     \* HandleWebSocket, per connection
    reader,      \* ReadPump, per connection
    writer,      \* WritePump: where it is and the message it holds
    sender,      \* Send and SendBulk: users left, and the broadcast under way
    row,         \* table notifications: the user of each row
    owed         \* history: messages broadcast to a connection while it was
                 \* registered and not yet written to its network

hubVars == <<clients, run, unregs>>
pumpVars == <<conn, handler, reader, writer>>
vars == <<hubVars, chan, pumpVars, sender, row, owed>>

-----------------------------------------------------------------------------
IdleRun == [pc |-> "select", op |-> "none", client |-> None]

RunState ==
    [pc : {"select", "received", "lock", "stopped", "panicked"},
     op : {"none", "add", "remove"}, client : Client \cup {None}]

WriterState == [pc : {"off", "select", "write", "done"}, message : Notification \cup {None}]

IdleSender == [pc |-> "idle", left |-> {}, user |-> None, message |-> None, todo |-> {}]

SenderState ==
    [pc : {"idle", "create", "lock", "push"}, left : SUBSET User, user : User \cup {None},
     message : Notification \cup {None}, todo : SUBSET Client]

Buffered(c) == {chan[c].buffer[i] : i \in 1 .. Len(chan[c].buffer)}

Init ==
    /\ clients = [u \in User |-> {}]
    /\ run = IdleRun
    /\ unregs = [c \in Client |-> 0]
    /\ chan = [c \in Client |-> [open |-> TRUE, buffer |-> << >>]]
    /\ conn = [c \in Client |-> "none"]
    /\ handler = [c \in Client |-> "none"]
    /\ reader = [c \in Client |-> "off"]
    /\ writer = [c \in Client |-> [pc |-> "off", message |-> None]]
    /\ sender = [p \in Sender |-> IdleSender]
    /\ row = [n \in Notification |-> None]
    /\ owed = [c \in Client |-> {}]

-----------------------------------------------------------------------------
(* HandleWebSocket.  Register blocks until Run receives.                   *)

Upgrade(c) ==
    /\ handler[c] = "none"
    /\ conn' = [conn EXCEPT ![c] = "open"]
    /\ handler' = [handler EXCEPT ![c] = "register"]
    /\ UNCHANGED <<hubVars, chan, reader, writer, sender, row, owed>>

StartPumps(c) ==
    /\ handler[c] = "start"
    /\ handler' = [handler EXCEPT ![c] = "done"]
    /\ reader' = [reader EXCEPT ![c] = "reading"]
    /\ writer' = [writer EXCEPT ![c] = [pc |-> "select", message |-> None]]
    /\ UNCHANGED <<hubVars, chan, conn, sender, row, owed>>

-----------------------------------------------------------------------------
(* Hub.Run.                                                                *)

Receive(op, c) == run' = [pc |-> "received", op |-> op, client |-> c]

ReceiveRegister(c) ==
    /\ run.pc = "select"
    /\ handler[c] = "register"
    /\ handler' = [handler EXCEPT ![c] = "start"]
    /\ Receive("add", c)
    /\ UNCHANGED <<clients, unregs, chan, conn, reader, writer, sender, row, owed>>

\* From ReadPump, which goes on to close the connection.
ReceiveUnregister(c) ==
    /\ run.pc = "select"
    /\ reader[c] = "unregister"
    /\ reader' = [reader EXCEPT ![c] = "close"]
    /\ Receive("remove", c)
    /\ UNCHANGED <<clients, unregs, chan, conn, handler, writer, sender, row, owed>>

\* From a goroutine of trySend.
ReceiveDropped(c) ==
    /\ run.pc = "select"
    /\ unregs[c] > 0
    /\ unregs' = [unregs EXCEPT ![c] = @ - 1]
    /\ Receive("remove", c)
    /\ UNCHANGED <<clients, chan, pumpVars, sender, row, owed>>

ContextDone ==
    /\ run.pc = "select"
    /\ run' = [run EXCEPT !.pc = "stopped"]
    /\ UNCHANGED <<clients, unregs, chan, pumpVars, sender, row, owed>>

\* mu.Lock is called: from here no new reader is let in.
LockHub ==
    /\ run.pc = "received"
    /\ run' = [run EXCEPT !.pc = "lock"]
    /\ UNCHANGED <<clients, unregs, chan, pumpVars, sender, row, owed>>

Locked(op) == run.pc = "lock" /\ run.op = op /\ \A p \in Sender : sender[p].pc # "push"

\* Closing a closed channel panics.
CloseSend(c) ==
    /\ chan' = [chan EXCEPT ![c] = [open |-> FALSE, buffer |-> chan[c].buffer]]
    /\ run' = IF chan[c].open THEN IdleRun ELSE [run EXCEPT !.pc = "panicked"]

\* The map's iteration order picks the connection that is evicted.
AddClient ==
    /\ Locked("add")
    /\ LET c == run.client
           mine == clients[Owner[c]]
       IN  IF Cardinality(mine) >= maxConnectionsPerUser
           THEN \E oldest \in mine :
                   /\ clients' = [clients EXCEPT ![Owner[c]] = (mine \ {oldest}) \cup {c}]
                   /\ CloseSend(oldest)
           ELSE /\ clients' = [clients EXCEPT ![Owner[c]] = mine \cup {c}]
                /\ run' = IdleRun
                /\ UNCHANGED chan
    /\ UNCHANGED <<unregs, pumpVars, sender, row, owed>>

(* Mutant: the connection is taken to be registered. *)
RemoveUnchecked ==
    /\ Locked("remove")
    /\ clients' = [clients EXCEPT ![Owner[run.client]] = @ \ {run.client}]
    /\ CloseSend(run.client)
    /\ UNCHANGED <<unregs, pumpVars, sender, row, owed>>

RemoveClient ==
    /\ Locked("remove")
    /\ LET c == run.client
       IN  IF c \in clients[Owner[c]]
           THEN /\ clients' = [clients EXCEPT ![Owner[c]] = @ \ {c}]
                /\ CloseSend(c)
           ELSE run' = IdleRun /\ UNCHANGED <<clients, chan>>
    /\ UNCHANGED <<unregs, pumpVars, sender, row, owed>>

-----------------------------------------------------------------------------
(* ReadPump.  Reading fails when the peer leaves, stays silent past the    *)
(* deadline, or the connection was closed on this side.                    *)

(* Mutant: ReadPump does not unregister. *)
CloseOnly(c) ==
    /\ reader[c] = "reading"
    /\ reader' = [reader EXCEPT ![c] = "close"]
    /\ UNCHANGED <<hubVars, chan, conn, handler, writer, sender, row, owed>>

ReadError(c) ==
    /\ reader[c] = "reading"
    /\ reader' = [reader EXCEPT ![c] = "unregister"]
    /\ UNCHANGED <<hubVars, chan, conn, handler, writer, sender, row, owed>>

CloseConn(c) ==
    /\ reader[c] = "close"
    /\ reader' = [reader EXCEPT ![c] = "done"]
    /\ conn' = [conn EXCEPT ![c] = "closed"]
    /\ UNCHANGED <<hubVars, chan, handler, writer, sender, row, owed>>

-----------------------------------------------------------------------------
(* WritePump.  Its deferred function closes the connection.                *)

TakeMessage(c) ==
    /\ writer[c].pc = "select"
    /\ chan[c].buffer # << >>
    /\ writer' = [writer EXCEPT ![c] = [pc |-> "write", message |-> Head(chan[c].buffer)]]
    /\ chan' = [chan EXCEPT ![c].buffer = Tail(@)]
    /\ UNCHANGED <<hubVars, conn, handler, reader, sender, row, owed>>

WriteMessage(c) ==
    /\ writer[c].pc = "write"
    /\ conn[c] = "open"
    /\ writer' = [writer EXCEPT ![c] = [pc |-> "select", message |-> None]]
    /\ owed' = [owed EXCEPT ![c] = @ \ {writer[c].message}]
    /\ UNCHANGED <<hubVars, chan, conn, handler, reader, sender, row>>

ReturnFromWrite(c) ==
    /\ writer' = [writer EXCEPT ![c] = [pc |-> "done", message |-> None]]
    /\ conn' = [conn EXCEPT ![c] = "closed"]
    /\ UNCHANGED <<hubVars, chan, handler, reader, sender, row, owed>>

\* A message could not be written, within the deadline.
WriteError(c) == writer[c].pc = "write" /\ ReturnFromWrite(c)

\* A ping could not; a ping that could changes nothing.
PingError(c) == writer[c].pc = "select" /\ ReturnFromWrite(c)

\* Receiving from the closed channel, once drained.
SendClosed(c) ==
    /\ writer[c].pc = "select"
    /\ ~chan[c].open /\ chan[c].buffer = << >>
    /\ ReturnFromWrite(c)

-----------------------------------------------------------------------------
(* Send is SendBulk to one user: what differs is that it reports the error *)
(* of its Create, which SendBulk logs.                                     *)

NextUser(p, left) ==
    sender' = [sender EXCEPT ![p] =
        IF left = {} THEN IdleSender ELSE [IdleSender EXCEPT !.pc = "create", !.left = left]]

SendBulk(p, users) ==
    /\ sender[p].pc = "idle"
    /\ NextUser(p, users)
    /\ UNCHANGED <<hubVars, chan, pumpVars, row, owed>>

Create(p, u, n) ==
    /\ sender[p].pc = "create" /\ u \in sender[p].left
    /\ row[n] = None
    /\ row' = [row EXCEPT ![n] = u]
    /\ sender' = [sender EXCEPT ![p] =
           [pc |-> "lock", left |-> @.left \ {u}, user |-> u, message |-> n, todo |-> {}]]
    /\ UNCHANGED <<hubVars, chan, pumpVars, owed>>

\* The INSERT failed, or the reply to it was lost.
CreateFails(p, u) ==
    /\ sender[p].pc = "create" /\ u \in sender[p].left
    /\ \/ row' = row
       \/ \E n \in Notification : row[n] = None /\ row' = [row EXCEPT ![n] = u]
    /\ NextUser(p, sender[p].left \ {u})
    /\ UNCHANGED <<hubVars, chan, pumpVars, owed>>

\* Broadcast takes the read lock; a writer that waits for it goes first.
Broadcast(p) ==
    /\ sender[p].pc = "lock"
    /\ run.pc # "lock"
    /\ LET live == clients[sender[p].user]
       IN  /\ sender' = [sender EXCEPT ![p].pc = "push", ![p].todo = live]
           /\ owed' = [c \in Client |->
                  IF c \in live THEN owed[c] \cup {sender[p].message} ELSE owed[c]]
    /\ UNCHANGED <<hubVars, chan, pumpVars, row>>

Pushing(p, c) == sender[p].pc = "push" /\ c \in sender[p].todo

(* Mutant: the connection is unregistered by the sender itself, which waits  *)
(* for Run while it holds the read lock.                                   *)
TrySendWaiting(p, c) ==
    /\ Pushing(p, c)
    /\ IF chan[c].open /\ Len(chan[c].buffer) < SendBuffer
       THEN /\ chan' = [chan EXCEPT ![c].buffer = Append(@, sender[p].message)]
            /\ UNCHANGED run
       ELSE run.pc = "select" /\ Receive("remove", c) /\ UNCHANGED chan
    /\ sender' = [sender EXCEPT ![p].todo = @ \ {c}]
    /\ UNCHANGED <<clients, unregs, pumpVars, row, owed>>

(* Mutant: the buffer takes one more. *)
TrySendOneMore(p, c) ==
    /\ Pushing(p, c)
    /\ IF chan[c].open /\ Len(chan[c].buffer) <= SendBuffer
       THEN /\ chan' = [chan EXCEPT ![c].buffer = Append(@, sender[p].message)]
            /\ UNCHANGED unregs
       ELSE /\ unregs' = [unregs EXCEPT ![c] = @ + 1]
            /\ UNCHANGED chan
    /\ sender' = [sender EXCEPT ![p].todo = @ \ {c}]
    /\ UNCHANGED <<clients, run, pumpVars, row, owed>>

(* Mutant: a message for a full buffer is dropped and nothing else. *)
TrySendQuietly(p, c) ==
    /\ Pushing(p, c)
    /\ chan' = IF chan[c].open /\ Len(chan[c].buffer) < SendBuffer
               THEN [chan EXCEPT ![c].buffer = Append(@, sender[p].message)]
               ELSE chan
    /\ sender' = [sender EXCEPT ![p].todo = @ \ {c}]
    /\ UNCHANGED <<hubVars, pumpVars, row, owed>>

\* A full buffer, or the panic of sending on a closed channel, which trySend
\* recovers from, starts a goroutine that unregisters the connection.
TrySend(p, c) ==
    /\ Pushing(p, c)
    /\ IF chan[c].open /\ Len(chan[c].buffer) < SendBuffer
       THEN /\ chan' = [chan EXCEPT ![c].buffer = Append(@, sender[p].message)]
            /\ UNCHANGED unregs
       ELSE /\ unregs' = [unregs EXCEPT ![c] = @ + 1]
            /\ UNCHANGED chan
    /\ sender' = [sender EXCEPT ![p].todo = @ \ {c}]
    /\ UNCHANGED <<clients, run, pumpVars, row, owed>>

Unlock(p) ==
    /\ sender[p].pc = "push" /\ sender[p].todo = {}
    /\ NextUser(p, sender[p].left)
    /\ UNCHANGED <<hubVars, chan, pumpVars, row, owed>>

-----------------------------------------------------------------------------
HubStep ==
    \/ \E c \in Client : ReceiveRegister(c) \/ ReceiveUnregister(c) \/ ReceiveDropped(c)
    \/ LockHub \/ AddClient \/ RemoveClient

WriterStep(c) == TakeMessage(c) \/ WriteMessage(c) \/ WriteError(c) \/ SendClosed(c)

SenderStep(p) ==
    \/ \E u \in User : CreateFails(p, u) \/ \E n \in Notification : Create(p, u, n)
    \/ Broadcast(p)
    \/ \E c \in Client : TrySend(p, c)
    \/ Unlock(p)

ClientStep(c) ==
    Upgrade(c) \/ StartPumps(c) \/ ReadError(c) \/ CloseConn(c) \/ WriterStep(c) \/ PingError(c)

Step ==
    \/ HubStep \/ ContextDone
    \/ \E c \in Client : ClientStep(c)
    \/ \E p \in Sender : SenderStep(p) \/ \E users \in SUBSET User \ {{}} : SendBulk(p, users)

Spec == Init /\ [][Step]_vars

\* Go runs every goroutine that can run, and the channels of Run serve their
\* waiting senders in turn.  Reading ends once the connection is closed on this
\* side; that the peer leaves, a ping fails or the context ends is not assumed.
FairSpec ==
    /\ Spec
    /\ WF_vars(HubStep)
    /\ \A c \in Client :
          /\ WF_vars(StartPumps(c)) /\ WF_vars(CloseConn(c)) /\ WF_vars(WriterStep(c))
          /\ WF_vars(conn[c] = "closed" /\ ReadError(c))
    /\ \A p \in Sender : WF_vars(SenderStep(p))

-----------------------------------------------------------------------------
TypeOK ==
    /\ clients \in [User -> SUBSET Client]
    /\ run \in RunState
    /\ unregs \in [Client -> Nat]
    /\ chan \in [Client -> [open : BOOLEAN, buffer : Seq(Notification)]]
    /\ \A c \in Client : Len(chan[c].buffer) <= SendBuffer
    /\ conn \in [Client -> {"none", "open", "closed"}]
    /\ handler \in [Client -> {"none", "register", "start", "done"}]
    /\ reader \in [Client -> {"off", "reading", "unregister", "close", "done"}]
    /\ writer \in [Client -> WriterState]
    /\ sender \in [Sender -> SenderState]
    /\ row \in [Notification -> User \cup {None}]
    /\ owed \in [Client -> SUBSET Notification]

Registered(c) == c \in clients[Owner[c]]

\* No channel is closed twice, however many goroutines unregister a connection
\* that was evicted or is unregistered already (hub.go:65-78).
NeverPanics == run.pc # "panicked"

\* A sender under the read lock meets only open channels (hub.go:91-106): the
\* recovery in trySend is never needed.
RegisteredIsOpen ==
    \A p \in Sender, c \in Client : Registered(c) \/ Pushing(p, c) => chan[c].open

\* maxConnectionsPerUser bounds what the hub serves (hub.go:55-62).
ConnectionsBounded == \A u \in User : Cardinality(clients[u]) <= maxConnectionsPerUser

\* Somebody is about to take the connection out of the map.
Leaving(c) ==
    \/ conn[c] = "closed" \/ unregs[c] > 0
    \/ run.op = "remove" /\ run.client = c

OnItsWay(c) ==
    Buffered(c) \cup {writer[c].message}
    \cup {sender[p].message : p \in {q \in Sender : Pushing(q, c)}}

\* A connection that stays has no gap: every notification broadcast to it is
\* written, or is on its way; a connection that missed one is being dropped
\* (hub.go:96-107, client.go:49-78).
NoGapUnlessLeaving ==
    \A c \in Client : Registered(c) /\ ~Leaving(c) => owed[c] \subseteq OnItsWay(c)

\* Send persists a notification before it pushes it, and to its own user
\* (notification.go:129-138): whoever is pushed one finds it in the list.
PushedIsStored ==
    \A c \in Client : \A n \in Buffered(c) \cup ({writer[c].message} \ {None}) : row[n] = Owner[c]

Stopped == run.pc = "stopped"

\* A connection that is closed leaves the map, as long as Run runs.
ClosedLeaves == \A c \in Client : conn[c] = "closed" ~> ~Registered(c) \/ Stopped

\* Run and the senders never wait on each other: every call returns.
SendsReturn == \A p \in Sender : sender[p].pc # "idle" ~> sender[p].pc = "idle"

\* Nothing in the hub waits for ever: closed connections leave, calls return.
NothingWaitsForever == ClosedLeaves /\ SendsReturn
=============================================================================
