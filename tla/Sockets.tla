------------------------------ MODULE Sockets ------------------------------
(***************************************************************************)
(* The WebSocket handler of one game: for every connection a read loop and *)
(* a write loop that share the connection and its write mutex, the         *)
(* deadlines on reading, the subscription to the game's events, and the    *)
(* slot in the registry of connections (ConnRegistry).                     *)
(*                                                                         *)
(* Writing has no deadline: a write waits while the client leaves what it  *)
(* was sent unread, room counting the frames that still fit in between.    *)
(* Time passes in periods of the ping ticker (30 s); idle counts those     *)
(* that have passed since the read deadline was last set.  A slow client   *)
(* does as it likes; a silent one sends nothing any more, but may go on    *)
(* reading; a prompt one takes frames and answers pings within a period.   *)
(***************************************************************************)
EXTENDS ConnRegistry

CONSTANTS
  IdlePeriods,     \* wsIdleTimeout in periods of the ticker
  Room,            \* frames that fit between the server and a client
  QueueCap,        \* events that wait for the write loop, at most
  Moods            \* what clients may become: "slow", "silent"

ASSUME SocketsAssumption ==
  /\ IdlePeriods \in Nat \ {0} /\ Room \in Nat \ {0} /\ QueueCap \in Nat
  /\ Moods \subseteq {"slow", "silent"}

VARIABLE sock      \* the connections

socketVars == <<registryVars, sock>>

\* A connection and its handler.
NewSocket ==
  [reader |-> "off", writer |-> "off",  \* program counters of the two loops
   mu |-> "free",          \* wsWriteMu: "free" or the loop that holds it
   conn |-> "open",        \* or "broken" by client or network, or "closed"
   sub |-> "none",         \* the subscription: "none", "open" or "closed"
   queue |-> 0,            \* events not yet taken from its channel
   tick |-> FALSE,         \* the ping ticker has fired
   idle |-> 0,             \* periods since the read deadline was set
   client |-> "prompt",    \* or "slow" or "silent"
   room |-> Room,          \* frames that still fit in between
   pinged |-> FALSE]       \* a ping has not been answered

SocketsInit == RegistryInit /\ sock = [c \in Conns |-> NewSocket]

\* The changes to connection c.
Set(c, changes) ==
  sock' = [sock EXCEPT ![c] =
             [f \in DOMAIN @ |-> IF f \in DOMAIN changes THEN changes[f] ELSE @[f]]]

Step(c, changes) == Set(c, changes) /\ UNCHANGED registryVars

Reads(c, label) == sock[c].reader = label

Writes(c, label) == sock[c].writer = label

Open(c) == sock[c].conn = "open"

----------------------------------------------------------------------------
(* Up to the subscription *)

Upgrade(c) == Reads(c, "off") /\ Step(c, [reader |-> "auth"])

\* The first message is an AUTH message or something else.
AuthArrives(c) ==
  /\ Reads(c, "auth") /\ Open(c) /\ sock[c].client # "silent"
  /\ \E label \in {"validate", "fail"} : Step(c, [reader |-> label])

\* Five seconds have passed, or the connection is gone.
AuthReadFails(c) == Reads(c, "auth") /\ Step(c, [reader |-> "fail"])

Validate(c) ==
  /\ Reads(c, "validate")
  /\ \E label \in {"acquire", "fail"} : Step(c, [reader |-> label])

Admit(c) ==
  /\ Reads(c, "acquire") /\ Acquire(c)
  /\ Set(c, [reader |-> "subscribe", idle |-> 0])

TurnAway(c) ==
  /\ Reads(c, "acquire") /\ Refuse(c)
  /\ Set(c, [reader |-> "hangup"])

Subscribe(c) ==
  /\ Reads(c, "subscribe")
  /\ Step(c, [sub |-> "open", reader |-> "read", writer |-> "select"])

\* The service has no Redis store.
SubscribeFails(c) == Reads(c, "subscribe") /\ Step(c, [reader |-> "fail"])

----------------------------------------------------------------------------
(* The read loop *)

\* What a client sends can be read: once a deadline has passed, it cannot.
CanRead(c) ==
  /\ Reads(c, "read") /\ Open(c) /\ sock[c].client # "silent"
  /\ sock[c].idle < IdlePeriods

\* A message and what comes of it: a move, no move, an error to report, or too
\* many messages.
Receive(c) ==
  /\ CanRead(c)
  /\ \E label \in {"move", "read", "error", "hangup"} :
       Step(c, [reader |-> label, idle |-> 0])

\* Mutant: a pong leaves the deadline where it is.
Pong_Ignored(c) == CanRead(c) /\ sock[c].pinged /\ Step(c, [pinged |-> FALSE])

\* The pong handler runs inside ReadMessage.
Pong(c) ==
  CanRead(c) /\ sock[c].pinged /\ Step(c, [pinged |-> FALSE, idle |-> 0])

\* An event reaches the channel of every subscription; a full one drops it.
Published(s) ==
  IF s.sub = "open" /\ s.queue < QueueCap THEN [s EXCEPT !.queue = @ + 1] ELSE s

MoveAccepted(c) ==
  /\ Reads(c, "move")
  /\ sock' = [[d \in Conns |-> Published(sock[d])] EXCEPT ![c].reader = "read"]
  /\ UNCHANGED registryVars

MoveRefused(c) == Reads(c, "move") /\ Step(c, [reader |-> "error"])

\* Mutant: nothing is read against a deadline.
ReadFails_NoDeadline(c) ==
  Reads(c, "read") /\ ~Open(c) /\ Step(c, [reader |-> "unsubscribe"])

\* The deadline has passed, or the connection is gone.  Leaving the loop closes
\* the done channel.
ReadFails(c) ==
  /\ Reads(c, "read") /\ (sock[c].idle >= IdlePeriods \/ ~Open(c))
  /\ Step(c, [reader |-> "unsubscribe"])

----------------------------------------------------------------------------
(* Writes of the read loop *)

ReaderLocks(c) ==
  /\ Reads(c, "error") \/ Reads(c, "fail") \/ Reads(c, "hangup")
  /\ sock[c].mu = "free" /\ Step(c, [mu |-> "reader"])

\* A write to an open connection needs room; one to a lost connection fails.
WriteReturns(c) == Open(c) => sock[c].room > 0

RoomLeft(c) == IF Open(c) THEN sock[c].room - 1 ELSE sock[c].room

\* Mutant: the slot is given back at the end of the loops only.
Deferred_Late(c) == IF sock[c].sub = "none" THEN "shut" ELSE "unsubscribe"

\* Where a return leads: the deferred calls, as far as they were reached.
Deferred(c) ==
  IF sock[c].sub # "none" THEN "unsubscribe"
  ELSE IF slot[c] = "held" THEN "release" ELSE "shut"

\* sendError; the failure to send an error is only logged.
SendError(c) ==
  /\ Reads(c, "error") \/ Reads(c, "fail")
  /\ sock[c].mu = "reader" /\ WriteReturns(c)
  /\ Step(c, [mu |-> "free", room |-> RoomLeft(c),
              reader |-> IF Reads(c, "error") THEN "read" ELSE Deferred(c)])

\* closeWithCode: a control frame is given a second, with or without room.
CloseWithCode(c) ==
  /\ Reads(c, "hangup") /\ sock[c].mu = "reader"
  /\ Step(c, [mu |-> "free", reader |-> Deferred(c)])

----------------------------------------------------------------------------
(* The deferred calls *)

Unsubscribe(c) ==
  Reads(c, "unsubscribe") /\ Step(c, [sub |-> "closed", reader |-> "release"])

ReleaseSlot(c) ==
  Reads(c, "release") /\ Release(c) /\ Set(c, [reader |-> "shut"])

Shut(c) == Reads(c, "shut") /\ Step(c, [conn |-> "closed", reader |-> "closed"])

----------------------------------------------------------------------------
(* The write loop *)

Done(c) == sock[c].reader \in {"unsubscribe", "release", "shut", "closed"}

WriterStops(c) ==
  /\ Writes(c, "select")
  /\ Done(c) \/ (sock[c].sub = "closed" /\ sock[c].queue = 0)
  /\ Step(c, [writer |-> "gone"])

TakeTick(c) ==
  /\ Writes(c, "select") /\ sock[c].tick
  /\ Step(c, [tick |-> FALSE, writer |-> "ping"])

TakeEvent(c) ==
  /\ Writes(c, "select") /\ sock[c].queue > 0
  /\ Step(c, [queue |-> sock[c].queue - 1, writer |-> "event"])

WriterLocks(c) ==
  /\ Writes(c, "ping") \/ Writes(c, "event")
  /\ sock[c].mu = "free" /\ Step(c, [mu |-> "writer"])

Pinged(c) == sock[c].pinged \/ (Writes(c, "ping") /\ Open(c))

\* Mutant: a write that fails ends the loop with the mutex in its hand.
WriteFrame_KeepsLock(c) ==
  /\ sock[c].mu = "writer" /\ WriteReturns(c)
  /\ Step(c, [mu |-> IF Open(c) THEN "free" ELSE "writer", room |-> RoomLeft(c),
              pinged |-> Pinged(c), writer |-> IF Open(c) THEN "select" ELSE "gone"])

\* A write that fails ends the loop.
WriteFrame(c) ==
  /\ sock[c].mu = "writer" /\ WriteReturns(c)
  /\ Step(c, [mu |-> "free", room |-> RoomLeft(c), pinged |-> Pinged(c),
              writer |-> IF Open(c) THEN "select" ELSE "gone"])

----------------------------------------------------------------------------
(* The clients, the network, time, and the rest of the service *)

ClientReads(c) ==
  Open(c) /\ sock[c].room < Room /\ Step(c, [room |-> sock[c].room + 1])

\* Clients get slow and fall silent, and stay so.
ClientTurns(c) ==
  /\ Open(c) /\ ~Reads(c, "off")
  /\ \E mood \in Moods \ {sock[c].client} :
       /\ sock[c].client = "prompt" \/ mood = "silent"
       /\ Step(c, [client |-> mood])

Break(c) == Open(c) /\ ~Reads(c, "off") /\ Step(c, [conn |-> "broken"])

\* What happens within a period when both sides are prompt.
Busy(s) ==
  \/ s.reader # "read" \/ s.writer # "select" \/ s.tick \/ s.pinged
  \/ s.queue > 0 \/ s.room < Room

\* A period passes while the handler is past the registry.
Elapse(c) ==
  /\ slot[c] = "held"
  /\ sock[c].client = "prompt" /\ Open(c) => ~Busy(sock[c])
  /\ Step(c, [idle |-> IF sock[c].idle < IdlePeriods THEN sock[c].idle + 1
                                                     ELSE IdlePeriods,
              tick |-> ~Writes(c, "off") /\ ~Writes(c, "gone")])

\* A move or a join of the game that did not come over a socket.
EventFromElsewhere ==
  /\ sock' = [c \in Conns |-> Published(sock[c])]
  /\ UNCHANGED registryVars

ReaderStep(c) ==
  \/ AuthReadFails(c) \/ Validate(c) \/ Admit(c) \/ TurnAway(c)
  \/ Subscribe(c) \/ SubscribeFails(c)
  \/ MoveAccepted(c) \/ MoveRefused(c) \/ ReadFails(c)
  \/ SendError(c) \/ CloseWithCode(c)
  \/ Unsubscribe(c) \/ ReleaseSlot(c) \/ Shut(c)

WriterStep(c) == WriterStops(c) \/ TakeTick(c) \/ TakeEvent(c) \/ WriteFrame(c)

ClientStep(c) ==
  Upgrade(c) \/ AuthArrives(c) \/ Receive(c) \/ Pong(c) \/ ClientReads(c)
    \/ ClientTurns(c) \/ Break(c)

SocketsNext ==
  \/ \E c \in Conns :
       \/ ReaderStep(c) \/ ReaderLocks(c) \/ WriterStep(c) \/ WriterLocks(c)
       \/ ClientStep(c) \/ Elapse(c)
  \/ EventFromElsewhere

SocketsSpec == SocketsInit /\ [][SocketsNext]_socketVars

\* Both loops go on; a mutex is given to whoever waits for it, and select takes
\* a ready channel in the end (strong fairness: both chances come and go); time
\* passes.  Nothing is assumed of clients: they need not even read.
SocketsFairness ==
  \A c \in Conns :
    /\ WF_socketVars(ReaderStep(c)) /\ WF_socketVars(WriterStep(c))
    /\ WF_socketVars(Elapse(c))
    /\ SF_socketVars(ReaderLocks(c)) /\ SF_socketVars(WriterLocks(c))
    /\ SF_socketVars(WriterStops(c))

FairSocketsSpec == SocketsSpec /\ SocketsFairness

----------------------------------------------------------------------------
(* Properties *)

\* Types.
Socket ==
  [reader : {"off", "auth", "validate", "acquire", "subscribe", "read", "move",
             "error", "fail", "hangup", "unsubscribe", "release", "shut", "closed"},
   writer : {"off", "select", "ping", "event", "gone"},
   mu : {"free", "reader", "writer"}, conn : {"open", "broken", "closed"},
   sub : {"none", "open", "closed"}, queue : 0..QueueCap, tick : BOOLEAN,
   idle : 0..IdlePeriods, client : {"prompt", "slow", "silent"},
   room : 0..Room, pinged : BOOLEAN]

SocketsTypeOK == RegistryTypeOK /\ sock \in [Conns -> Socket]

\* The counters count exactly the sockets that are being served: a slot is taken
\* after authentication and given back on every way out, before the handler
\* returns, so that its user can connect again.
SlotsMatchSockets ==
  /\ CountsAreLive
  /\ \A c \in Conns :
       /\ sock[c].reader \in {"off", "auth", "validate", "acquire", "shut", "closed"} =>
            slot[c] # "held"
       /\ sock[c].reader \in {"subscribe", "read", "move", "error"} => slot[c] = "held"

\* A client that takes its frames and answers its pings within a period is not
\* taken for a silent one, though it may have nothing to say: wsIdleTimeout is
\* long enough for two pings.
PromptClientStays ==
  \A c \in Conns :
    sock[c].client = "prompt" /\ sock[c].conn = "open" => sock[c].idle < IdlePeriods

Ended(c) == sock[c].reader = "closed" /\ sock[c].writer \in {"off", "gone"}

\* When the connection is gone, both loops end, whatever they were at.
LostConnectionEnds ==
  \A c \in Conns : (sock[c].reader # "off" /\ sock[c].conn # "open") ~> Ended(c)

\* A write is stuck: the client has no room for it and never makes any.
Stuck(c) == sock[c].mu # "free" /\ sock[c].conn = "open" /\ sock[c].room = 0

\* A silent client is reaped, unless a write to it is stuck for ever.
ReapedUnlessStuck ==
  \A c \in Conns : sock[c].client = "silent" ~> (Ended(c) \/ []Stuck(c))

\* What a comment claims: a silent socket is reaped after wsIdleTimeout instead
\* of pinning a goroutine forever.
SilentIsReaped == \A c \in Conns : sock[c].client = "silent" ~> Ended(c)

=============================================================================
