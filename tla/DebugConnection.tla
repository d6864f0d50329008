--------------------------- MODULE DebugConnection ---------------------------
(***************************************************************************)
(* The connection to a remote Lua debugger (src/debug/blt_debug.cpp).      *)
(* It is opened while the DLL starts, from the command line and from       *)
(* remote-debug.conf, and read afterwards from every frame update and from *)
(* blt_debugger.wait.  The stream is cut wherever the network cuts it, so  *)
(* received bytes wait in a buffer until they form a whole message.        *)
(*                                                                         *)
(* A byte is a record of what it belongs to, a word or a text, and its     *)
(* place in it: the parser always stands at the start of a word, and what  *)
(* a text says is not looked at.                                           *)
(***************************************************************************)
EXTENDS Integers, Sequences

CONSTANTS
  Sessions,      \* what a debugger may send: sequences of messages
  StartOptions,  \* sequences of connections the start-up options ask for
  WordSize,      \* bytes of a word, 4 in the code
  BufferLength,  \* DEFAULT_BUFLEN
  MaxSends       \* bound: messages the game sends

Kinds == {"continue", "lua", "startVR", "unknown"}

ASSUME DebugAssumption ==
  /\ Sessions \subseteq Seq([kind : Kinds, length : Nat, id : Nat])
  /\ StartOptions \subseteq Seq({"reachable", "unreachable", "bad port"})
  /\ WordSize \in Nat \ {0} /\ BufferLength \in Nat \ {0}

VARIABLES
  dbgOptions,    \* connections Initialize has still to make
  connected,     \* connection # NULL
  session,       \* what the debugger of the latest connection sends
  received,      \* how many bytes of it recv has returned
  buffer,        \* DebugConnection::buffer
  luaMessageQueue,
  given,         \* history: messages handed to Lua, or dropped for want of
                 \* a callback
  outgoing,      \* history: what was sent on the latest connection
  reading        \* where the main thread is: starting, idle, in a call of
                 \* ReadMessage, or ended

dbgVars == <<dbgOptions, connected, session, received, buffer,
             luaMessageQueue, given, outgoing, reading>>

Ends == {"exit", "crash"}

Bytes(of, n, msg) ==
  [i \in 1..n |-> [of |-> of, length |-> msg.length, id |-> msg.id, place |-> i]]

(* What the debugger writes for a message [kind, length, id]. *)
Encoded(msg) ==
  Bytes(msg.kind, WordSize, msg)
    \o (IF msg.kind = "lua" THEN Bytes("length", WordSize, msg)
                                  \o Bytes("text", msg.length, msg)
                            ELSE <<>>)

(* The bytes of the first k of some messages. *)
StreamTo(msgs, k) ==
  LET upTo[n \in 0..Len(msgs)] ==
        IF n = 0 THEN <<>> ELSE upTo[n - 1] \o Encoded(msgs[n])
  IN upTo[k]

Stream(msgs) == StreamTo(msgs, Len(msgs))

(* A call of ReadMessage: who made it, the messages it must process, those *)
(* it has, and whether it is to receive or to process next.                *)
Reader(caller, min) ==
  [caller |-> caller, min |-> min, processed |-> 0, next |-> "recv"]

Outside(next) == [caller |-> "none", min |-> 0, processed |-> 0, next |-> next]

Reading == reading.caller # "none"

DebugInit ==
  /\ dbgOptions \in StartOptions
  /\ connected = FALSE
  /\ session = <<>>
  /\ received = 0
  /\ buffer = <<>>
  /\ luaMessageQueue = <<>>
  /\ given = <<>>
  /\ outgoing = <<>>
  /\ reading = Outside("start")

(***************************************************************************)
(* DebugConnection::Initialize and ConnectFromParameters: one connection   *)
(* for each --debug-params, then one for the configuration file.  A port   *)
(* that is no number throws an exception ConnectFromParameters does not    *)
(* catch; a host that cannot be reached is logged.  A second connection    *)
(* replaces the first one.                                                 *)
(***************************************************************************)
ConnectFromParameters(option) ==
  \/ /\ option = "bad port"
     /\ reading' = Outside("crash")
     /\ UNCHANGED <<session, received, buffer, luaMessageQueue, given, outgoing>>
  \/ /\ option = "unreachable"
     /\ UNCHANGED <<reading, session, received, buffer, luaMessageQueue, given,
                    outgoing>>
  \/ /\ option = "reachable"
     /\ session' \in Sessions
     /\ received' = 0
     /\ buffer' = <<>>
     /\ luaMessageQueue' = <<>>
     /\ given' = <<>>
     /\ outgoing' = <<"init">>
     /\ reading' = Reader("connect", 1)

Initialize ==
  /\ reading = Outside("start")
  /\ \/ /\ dbgOptions = <<>>
        /\ reading' = Outside("idle")
        /\ UNCHANGED <<dbgOptions, session, received, buffer, luaMessageQueue,
                       given, outgoing>>
     \/ /\ dbgOptions # <<>>
        /\ dbgOptions' = Tail(dbgOptions)
        /\ ConnectFromParameters(Head(dbgOptions))
  /\ UNCHANGED connected

(* What follows ReadMessage in its caller.  The constructor returns and    *)
(* Connect stores the object; Update and WaitForMessage hand the queue to  *)
(* state s: to its callback, or to nobody when it has none.                *)
DebugReturned ==
  IF reading.caller = "connect"
    THEN /\ connected' = TRUE
         /\ reading' = Outside("start")
         /\ UNCHANGED <<luaMessageQueue, given>>
    ELSE /\ reading' = Outside("idle")
         /\ luaMessageQueue' = <<>>
         /\ given' = given \o luaMessageQueue
         /\ UNCHANGED connected

(* WaitForMessage returns to luaF_wait, which calls Update: another read,  *)
(* on the socket that is non-blocking again.                               *)
ReadMessageReturns ==
  IF reading.caller = "wait"
    THEN /\ reading' = Reader("update", 0)
         /\ UNCHANGED <<connected, luaMessageQueue, given>>
    ELSE DebugReturned

(***************************************************************************)
(* ReadMessage, one recv.  It returns any number of the bytes that have    *)
(* arrived; a socket that blocks waits for one; one that does not may have *)
(* none.  The end of the stream ends the game; an error ends the loop.     *)
(***************************************************************************)
ReceiveBytes ==
  /\ Reading /\ reading.next = "recv"
  /\ \E n \in 1..BufferLength :
       /\ received + n <= Len(Stream(session))
       /\ received' = received + n
       /\ buffer' = buffer \o SubSeq(Stream(session), received + 1, received + n)
  /\ reading' = [reading EXCEPT !.next = "process"]
  /\ UNCHANGED <<dbgOptions, connected, session, luaMessageQueue, given, outgoing>>

NoBytes ==
  /\ Reading /\ reading.next = "recv"
  /\ reading.min = 0
  /\ ReadMessageReturns
  /\ UNCHANGED <<dbgOptions, session, received, buffer, outgoing>>

PeerCloses ==
  /\ Reading /\ reading.next = "recv"
  /\ received = Len(Stream(session))
  /\ reading' = Outside("exit")
  /\ UNCHANGED <<dbgOptions, connected, session, received, buffer,
                 luaMessageQueue, given, outgoing>>

ReceiveFails ==
  /\ Reading /\ reading.next = "recv"
  /\ ReadMessageReturns
  /\ UNCHANGED <<dbgOptions, session, received, buffer, outgoing>>

(***************************************************************************)
(* ProcessMessageQueue.  It takes one whole message off the buffer, or     *)
(* leaves the buffer alone: too few bytes, or a type it does not know,     *)
(* which then stays at the front for good.                                 *)
(***************************************************************************)
HasWord(at) == Len(buffer) >= at + WordSize
MessageType == buffer[1].of
MessageLength == buffer[WordSize + 1].length

(* Broken: the two words before the text are not counted. *)
TextAlone == MessageLength <= Len(buffer)

HasText == 2 * WordSize + MessageLength <= Len(buffer)

Processable ==
  /\ HasWord(0)
  /\ \/ MessageType \in {"continue", "startVR"}
     \/ MessageType = "lua" /\ HasWord(WordSize) /\ HasText

Drop(n) == SubSeq(buffer, n + 1, Len(buffer))

(* Broken: messages that no caller waits for are counted too. *)
CountedAlways == reading.processed + 1

Counted ==
  IF reading.processed < reading.min THEN reading.processed + 1
                                     ELSE reading.processed

ProcessMessage ==
  /\ Reading /\ reading.next = "process" /\ Processable
  /\ \/ /\ MessageType = "continue"
        /\ buffer' = Drop(WordSize)
        /\ reading' = [reading EXCEPT !.processed = Counted]
        /\ UNCHANGED luaMessageQueue
     \/ /\ MessageType = "startVR"
        /\ reading' = Outside("crash")
        /\ UNCHANGED <<buffer, luaMessageQueue>>
     \/ /\ MessageType = "lua"
        /\ buffer' = Drop(2 * WordSize + MessageLength)
        /\ luaMessageQueue' = Append(luaMessageQueue, buffer[WordSize + 1].id)
        /\ reading' = [reading EXCEPT !.processed = Counted]
  /\ UNCHANGED <<dbgOptions, connected, session, received, given, outgoing>>

(* The loop's condition, after a recv that returned bytes: min = 0 reads   *)
(* until the socket has no more, otherwise until enough were processed.    *)
NothingToProcess ==
  /\ Reading /\ reading.next = "process" /\ ~Processable
  /\ IF reading.min = 0 \/ reading.processed < reading.min
       THEN /\ reading' = [reading EXCEPT !.next = "recv"]
            /\ UNCHANGED <<connected, luaMessageQueue, given>>
       ELSE ReadMessageReturns
  /\ UNCHANGED <<dbgOptions, session, received, buffer, outgoing>>

(* DebugConnection::Update from the frame update, and luaF_wait, which     *)
(* follows a null pointer when there is no connection.                     *)
DebugUpdate ==
  /\ reading = Outside("idle") /\ connected
  /\ reading' = Reader("update", 0)
  /\ UNCHANGED <<dbgOptions, connected, session, received, buffer,
                 luaMessageQueue, given, outgoing>>

WaitForMessage ==
  /\ reading = Outside("idle")
  /\ reading' = IF connected THEN Reader("wait", 1) ELSE Outside("crash")
  /\ UNCHANGED <<dbgOptions, connected, session, received, buffer,
                 luaMessageQueue, given, outgoing>>

(* Log, which any thread reaches through the logger, and SendLuaMessage.   *)
(* The object exists for them once its constructor has returned; an older  *)
(* connection takes what is logged meanwhile.                              *)
SendMessage(kind) ==
  /\ connected /\ reading.next \notin Ends
  /\ Len(outgoing) <= MaxSends
  /\ ~(Reading /\ reading.caller = "connect")
  /\ outgoing' = Append(outgoing, kind)
  /\ UNCHANGED <<dbgOptions, connected, session, received, buffer,
                 luaMessageQueue, given, reading>>

DebugNext ==
  \/ Initialize
  \/ ReceiveBytes
  \/ NoBytes
  \/ PeerCloses
  \/ ReceiveFails
  \/ ProcessMessage
  \/ NothingToProcess
  \/ DebugUpdate
  \/ WaitForMessage
  \/ \E kind \in {"log", "lua"} : SendMessage(kind)

DebugSpec == DebugInit /\ [][DebugNext]_dbgVars

-----------------------------------------------------------------------------
(* Every variable keeps the shape its declaration gives it. *)
DebugTypeOK ==
  /\ dbgOptions \in Seq({"reachable", "unreachable", "bad port"})
  /\ connected \in BOOLEAN
  /\ session = <<>> \/ session \in Sessions
  /\ received \in 0..Len(Stream(session))
  /\ Len(buffer) <= received
  /\ outgoing \in Seq({"init", "log", "lua"})
  /\ reading \in [caller : {"connect", "update", "wait"}, min : {0, 1},
                 processed : {0, 1}, next : {"recv", "process"}]
               \cup {Outside(next) : next \in {"start", "idle"} \cup Ends}

(* The messages for Lua the parser can reach in what was received: those   *)
(* that have arrived whole, up to the first it does not know.              *)
Reachable(k) ==
  /\ \A i \in 1..k : session[i].kind \in {"continue", "lua"}
  /\ Len(StreamTo(session, k)) <= received

(* The messages for Lua among the first k. *)
LuaMessages(msgs, k) ==
  LET upTo[n \in 0..Len(msgs)] ==
        IF n = 0 THEN <<>>
        ELSE IF msgs[n].kind = "lua" THEN Append(upTo[n - 1], msgs[n].id)
        ELSE upTo[n - 1]
  IN upTo[k]

(* Framing of the debug stream: however recv cuts it, Lua is given the     *)
(* messages in the order they were sent, each once, and whenever no read   *)
(* is under way it has been given or will be given next exactly the        *)
(* messages that have arrived whole.                                       *)
MessagesInOrder ==
  LET handed == given \o luaMessageQueue
      arrived == {k \in 0..Len(session) : Reachable(k)}
  IN /\ \E k \in arrived : handed = LuaMessages(session, k)
     /\ reading.next \in {"start", "idle"} =>
          \A k \in arrived : Len(LuaMessages(session, k)) <= Len(handed)
     /\ connected => Head(outgoing) = "init"
=============================================================================
