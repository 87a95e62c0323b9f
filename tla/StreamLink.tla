----------------------------- MODULE StreamLink -----------------------------
(***************************************************************************)
(* One client of a stream transport and its server, byte by byte in the    *)
(* direction from the client to the server: connect, reset, send, receive, *)
(* disconnect from either side and the end of the server.  The transports  *)
(* frame messages differently: a length before the message (TCP), a start  *)
(* and an end with escapes (Unix sockets and pipes), the same with a CRC   *)
(* (TTY), and WebSocket frames.  Only a TTY loses or changes bytes.        *)
(***************************************************************************)
EXTENDS Integers, Sequences, SequencesExt

CONSTANTS
  Message,     \* messages, the reset message among them
  Data,        \* the bytes of each message
  Sort,        \* "message", "reset" or "invalid": what receive makes of it
  Reset,       \* the reset message
  Transports,  \* some of "tcp", "unix", "tty" and "ws"
  ShortSize,   \* longer sizes take a second byte
  CrcSize,     \* bytes of a CRC
  MaxConns, MaxSent, MaxFaults  \* bounds; a second connection is one message less

ASSUME StreamLinkAssumption ==
  /\ Reset \in Message /\ Sort[Reset] = "reset"
  /\ \A m, n \in Message : Data[m] # <<>> /\ (Data[m] = Data[n] => m = n)
  /\ Transports \subseteq {"tcp", "unix", "tty", "ws"}
  /\ CrcSize \in Nat \ {0} /\ {ShortSize, MaxConns, MaxSent, MaxFaults} \subseteq Nat

Conn == 1 .. MaxConns

VARIABLES
  transport,  \* chosen once
  server,     \* "new", "serving" or "closed"
  conn,       \* the connection of the client, 0 before the first
  open,       \* the client has not closed its writer of the connection
  serverEnd,  \* "none", "accepted" (its task has yet to run), "served" (there is
              \* a Client), "closed" by the server, or "over" (the end was read)
  line,       \* bytes on their way to the server
  reader,     \* what the server has read of a message
  sent, got,  \* histories of each connection
  faults

linkVars == <<transport, server, conn, open, serverEnd, line, reader, sent, got, faults>>

Outside == [phase |-> "start", data |-> <<>>, crc |-> <<>>]

LinkInit ==
  /\ transport \in Transports
  /\ server = "new" /\ conn = 0 /\ faults = 0
  /\ open = [c \in Conn |-> FALSE] /\ serverEnd = [c \in Conn |-> "none"]
  /\ line = [c \in Conn |-> <<>>] /\ reader = [c \in Conn |-> Outside]
  /\ sent = [c \in Conn |-> <<>>] /\ got = [c \in Conn |-> <<>>]

-----------------------------------------------------------------------------
(* Framing.  A byte is a tuple: a code, a byte of data, a size, a CRC. *)

STX == <<"STX">>
ETX == <<"ETX">>
ATX == <<"ATX">>
ESC == <<"ESC">>
Codes == <<ESC, STX, ETX, ATX>>
Escaped(b) == <<ESC, <<"code", b>>>>

\* bytes.replace of a byte by its escape, and of an escape by its byte.
Replaced(s, b) == FoldLeft(LAMBDA r, x : IF x = b THEN r \o Escaped(b) ELSE Append(r, x), <<>>, s)
Restored(s, b) ==
  FoldLeft(LAMBDA r, x : IF r # <<>> /\ <<Last(r), x>> = Escaped(b)
                         THEN Append(Front(r), b) ELSE Append(r, x), <<>>, s)

\* ESC is escaped before the others, whose escapes contain it.
Escape(d) == FoldLeft(Replaced, d, Codes)

\* Variant: ESC is the first to be restored as well.
DeEscape_EscFirst(d) == FoldLeft(Restored, d, Codes)

DeEscape(d) == FoldLeft(Restored, d, Tail(Codes) \o <<ESC>>)

\* Different data has a different CRC; one of its bytes may need an escape.
Crc(d) == [i \in 1 .. CrcSize |-> IF i = 1 THEN <<"crc", d>> ELSE Codes[1 + ((Len(d) + 1) % 4)]]

\* A size, shortest first: no size begins with the bytes of another.
SizeBytes(n) == IF n <= ShortSize THEN <<<<"size", n>>>> ELSE <<<<"more", n>>, <<"size", n>>>>

SerialFrame(d, check) == <<STX>> \o Escape(d) \o <<ETX>> \o check

\* Variant: the CRC is not escaped.
Annotate_PlainCrc(t, d) ==
  CASE t = "tcp" -> SizeBytes(Len(d)) \o d
    [] t = "unix" -> SerialFrame(d, <<>>)
    [] t = "tty" -> SerialFrame(d, Crc(Escape(d)))
    [] t = "ws" -> <<<<"frame", d>>>>

Annotate(t, d) ==
  CASE t = "tcp" -> SizeBytes(Len(d)) \o d
    [] t = "unix" -> SerialFrame(d, <<>>)
    [] t = "tty" -> SerialFrame(d, Escape(Crc(Escape(d))))
    [] t = "ws" -> <<<<"frame", d>>>>

Frames == [t \in Transports, m \in Message |-> Annotate(t, Data[m])]

-----------------------------------------------------------------------------
(* The client *)

\* What send and reset write to a connection whose other end has not closed.
Written(c, m) ==
  /\ FoldFunction(LAMBDA l, n : Len(l) + n, 0, sent) + conn <= MaxSent
  /\ sent' = [sent EXCEPT ![c] = Append(@, m)]
  /\ line' = [line EXCEPT ![c] =
                IF serverEnd[c] \in {"closed", "over"} THEN @ ELSE @ \o Frames[transport, m]]
  /\ UNCHANGED <<transport, server, got, reader, faults>>

Connected == conn # 0 /\ open[conn]

Send(m) ==
  /\ Connected /\ m # Reset
  /\ Written(conn, m)
  /\ UNCHANGED <<conn, open, serverEnd>>

ResetSent ==
  /\ Connected
  /\ Written(conn, Reset)
  /\ UNCHANGED <<conn, open, serverEnd>>

\* A connection that the other end accepts when its task gets to run.
NewConnection ==
  /\ ~Connected /\ server = "serving" /\ conn < MaxConns
  /\ conn' = conn + 1
  /\ open' = [open EXCEPT ![conn'] = TRUE]
  /\ serverEnd' = [serverEnd EXCEPT ![conn'] = "accepted"]
  /\ UNCHANGED <<transport, server, line, reader, sent, got, faults>>

\* The resets of clients that are not connected.
StreamConnect == transport \in {"tcp", "unix"} /\ NewConnection
WsConnect == transport = "ws" /\ NewConnection

\* A TTY is opened whether the other end has it open or not; what is sent
\* before it has is lost, and so the client is given the line the server opened.
TtyConnect ==
  /\ transport = "tty" /\ ~Connected
  /\ \E c \in Conn :
       /\ serverEnd[c] = "served"
       /\ conn' = c /\ open' = [open EXCEPT ![c] = TRUE]
       /\ Written(c, Reset)
  /\ UNCHANGED serverEnd

LeaveOpen ==
  /\ Connected
  /\ open' = [open EXCEPT ![conn] = FALSE]
  /\ UNCHANGED <<transport, server, conn, serverEnd, line, reader, sent, got, faults>>

StreamDisconnect == transport # "ws" /\ LeaveOpen

\* The close runs in a task of its own: this is when it gets to run.
WsDisconnect == transport = "ws" /\ LeaveOpen

\* The client reads the end, and closes its writer.
ClientEof ==
  /\ Connected /\ serverEnd[conn] \in {"closed", "over"} /\ transport # "tty"
  /\ LeaveOpen

-----------------------------------------------------------------------------
(* The server *)

Listen ==
  /\ server = "new" /\ server' = "serving"
  /\ UNCHANGED <<transport, conn, open, serverEnd, line, reader, sent, got, faults>>

Accepted(c) ==
  /\ serverEnd[c] = "accepted"
  /\ serverEnd' = [serverEnd EXCEPT ![c] = "served"]
  /\ UNCHANGED <<transport, server, conn, open, line, reader, sent, got, faults>>

\* The tasks of _client_connect: the connection gets its Client.
StreamServe(c) == transport \in {"tcp", "unix"} /\ Accepted(c)
WsServe(c) == transport = "ws" /\ Accepted(c)

\* The loop of a TTY server opens the TTY again whenever it was disconnected,
\* which discards what was written before; a client goes on writing to it.
TtyLoop(c) ==
  /\ transport = "tty" /\ server = "serving"
  /\ serverEnd[c] = "none" /\ \A p \in 1 .. c - 1 : serverEnd[p] = "over"
  /\ serverEnd' = [serverEnd EXCEPT ![c] = "served"]
  /\ conn' = IF Connected THEN c ELSE conn
  /\ open' = [o \in Conn |-> o = c /\ Connected]
  /\ UNCHANGED <<transport, server, line, reader, sent, got, faults>>

\* A Client closes its connection with what has not arrived yet; what has is
\* still read.
Closed(C) ==
  /\ serverEnd' = [c \in Conn |-> IF c \in C THEN "closed" ELSE serverEnd[c]]
  /\ \E late \in SUBSET C : line' = [c \in Conn |-> IF c \in late THEN <<>> ELSE line[c]]

\* Those that are connected stay so, but websockets close them too.
StreamClose ==
  /\ transport # "ws" /\ server = "serving" /\ server' = "closed"
  /\ UNCHANGED <<transport, conn, open, serverEnd, line, reader, sent, got, faults>>

WsClose ==
  /\ transport = "ws" /\ server = "serving" /\ server' = "closed"
  /\ Closed({c \in Conn : serverEnd[c] \in {"accepted", "served"}})
  /\ UNCHANGED <<transport, conn, open, reader, sent, got, faults>>

ServerDisconnect(c) ==
  /\ serverEnd[c] = "served"
  /\ Closed({c})
  /\ UNCHANGED <<transport, server, conn, open, reader, sent, got, faults>>

Terminated(C) ==
  /\ server \in {"serving", "closed"} /\ server' = "closed"
  /\ Closed(C)
  /\ UNCHANGED <<transport, conn, open, reader, sent, got, faults>>

\* The ends of a server: it closes, and so does every Client it has.
Serving == {c \in Conn : serverEnd[c] = "served"}
StreamTerminate == transport \in {"tcp", "unix"} /\ Terminated(Serving)
WsTerminate ==
  transport = "ws" /\ Terminated({c \in Conn : serverEnd[c] \in {"accepted", "served"}})
TtyTerminate == transport = "tty" /\ Terminated(Serving)

-----------------------------------------------------------------------------
(* Receiving *)

\* RpcClient.receive passes on messages and resets and ignores anything else.
Known(d) == {m \in Message : Data[m] = d}

Delivered(c, d) ==
  /\ reader' = [reader EXCEPT ![c] = Outside]
  /\ got' = [got EXCEPT ![c] = IF Known(d) = {} THEN Append(@, "mangled")
                               ELSE @ \o SetToSeq({m \in Known(d) : Sort[m] # "invalid"})]

Keep(c, r) == reader' = [reader EXCEPT ![c] = r] /\ UNCHANGED got

Frame(c, b) ==
  /\ transport = "ws"
  /\ Delivered(c, b[2])

\* RpcProtocolBlock: bytes of the size are collected until they are one.
Block(c, b) ==
  LET r == reader[c]
  IN /\ transport = "tcp"
     /\ \/ r.phase = "start" /\ b[1] = "more" /\ Keep(c, r)
        \/ r.phase = "start" /\ b[1] = "size" /\ Keep(c, [r EXCEPT !.phase = "data", !.crc = b[2]])
        \/ r.phase = "data" /\ Len(r.data) + 1 < r.crc /\ Keep(c, [r EXCEPT !.data = Append(@, b)])
        \/ r.phase = "data" /\ Len(r.data) + 1 = r.crc /\ Delivered(c, Append(r.data, b))

\* A frame without a CRC, or with the right one.
Checked(c, data) == Delivered(c, DeEscape(data))

\* The data is taken for what it is when its CRC is the one that was read.
CrcRead(c, data, crc) ==
  \/ DeEscape(crc) = Crc(data) /\ Checked(c, data)
  \/ DeEscape(crc) # Crc(data) /\ Keep(c, Outside)

\* Bytes of the CRC with escapes: one more for each ESC read so far.
Wanted(crc) == CrcSize + Cardinality({i \in DOMAIN crc : crc[i] = ESC})

\* _RpcProtocolSerial: a start, data until its end, and the CRC if one is used.
Serial(c, b) ==
  LET r == reader[c]
      crc == Append(r.crc, b)
  IN /\ transport \in {"unix", "tty"}
     /\ \/ r.phase = "start" /\ Keep(c, IF b = STX THEN [r EXCEPT !.phase = "data"] ELSE r)
        \/ r.phase = "data" /\ b \notin {ETX, ATX} /\ Keep(c, [r EXCEPT !.data = Append(@, b)])
        \/ r.phase = "data" /\ b = ATX /\ Keep(c, Outside)
        \/ r.phase = "data" /\ b = ETX /\ transport = "unix" /\ Checked(c, r.data)
        \/ r.phase = "data" /\ b = ETX /\ transport = "tty" /\ Keep(c, [r EXCEPT !.phase = "crc"])
        \/ r.phase = "crc" /\ Len(crc) < Wanted(crc) /\ Keep(c, [r EXCEPT !.crc = crc])
        \/ r.phase = "crc" /\ Len(crc) = Wanted(crc) /\ CrcRead(c, r.data, crc)

Takes(c) ==
  /\ serverEnd[c] \in {"served", "closed"} /\ line[c] # <<>>
  /\ line' = [line EXCEPT ![c] = Tail(@)]

Read(c) ==
  /\ Takes(c)
  /\ LET b == Head(line[c]) IN Frame(c, b) \/ Block(c, b) \/ Serial(c, b)
  /\ UNCHANGED <<transport, server, conn, open, serverEnd, sent, faults>>

\* Variant: an end in the middle of a message is no end.
Eof_Whole(c) ==
  /\ line[c] = <<>> /\ reader[c].phase = "start"
  /\ \/ serverEnd[c] = "served" /\ ~open[c] /\ transport # "tty"
     \/ serverEnd[c] = "closed"
  /\ serverEnd' = [serverEnd EXCEPT ![c] = "over"]
  /\ UNCHANGED <<transport, server, conn, open, line, reader, sent, got, faults>>

\* The end comes after everything that was written; the reader, in the middle
\* of a message or not, is done, and the writer is closed.
Eof(c) ==
  /\ line[c] = <<>>
  /\ \/ serverEnd[c] = "served" /\ ~open[c] /\ transport # "tty"
     \/ serverEnd[c] = "closed"
  /\ serverEnd' = [serverEnd EXCEPT ![c] = "over"]
  /\ reader' = [reader EXCEPT ![c] = Outside]
  /\ UNCHANGED <<transport, server, conn, open, line, sent, got, faults>>

-----------------------------------------------------------------------------
(* The line of a TTY *)

Fault(c, l) ==
  /\ transport = "tty" /\ faults < MaxFaults
  /\ faults' = faults + 1
  /\ line' = [line EXCEPT ![c] = l]
  /\ UNCHANGED <<transport, server, conn, open, serverEnd, reader, sent, got>>

LoseByte(c) == \E i \in DOMAIN line[c] : Fault(c, RemoveAt(line[c], i))

Corrupt(c) ==
  \E i \in DOMAIN line[c], b \in Range(Codes) \cup {<<"noise">>} :
    b # line[c][i] /\ Fault(c, [line[c] EXCEPT ![i] = b])

LinkNext ==
  \/ StreamConnect \/ WsConnect \/ TtyConnect
  \/ StreamDisconnect \/ WsDisconnect \/ ClientEof
  \/ ResetSent \/ \E m \in Message : Send(m)
  \/ Listen \/ StreamClose \/ WsClose \/ StreamTerminate \/ WsTerminate \/ TtyTerminate
  \/ \E c \in Conn :
       \/ StreamServe(c) \/ WsServe(c) \/ TtyLoop(c) \/ ServerDisconnect(c)
       \/ Read(c) \/ Eof(c) \/ LoseByte(c) \/ Corrupt(c)

\* The tasks of both ends keep reading: a byte that has arrived is taken.
LinkFairness ==
  /\ WF_linkVars(ClientEof)
  /\ \A c \in Conn : /\ WF_linkVars(StreamServe(c) \/ WsServe(c))
                     /\ WF_line(Takes(c)) /\ WF_linkVars(Eof(c))

LinkSpec == LinkInit /\ [][LinkNext]_linkVars /\ LinkFairness

-----------------------------------------------------------------------------
(* Properties *)

\* The receiver gets messages whole and in the order in which they were sent,
\* with ends and faults at any byte: never a part of one, two as one or noise.
Found(c) ==
  FoldLeft(LAMBDA k, m : Min({i \in DOMAIN sent[c] : i > k /\ sent[c][i] = m} \cup {Len(sent[c]) + 1}),
           0, got[c])
Channel(c) == INSTANCE MessageChannel WITH sent <- sent[c], got <- got[c], newest <- Found(c)
WholeAndInOrder ==
  /\ \A c \in Conn : Channel(c)!Init
  /\ [][\A c \in Conn : Channel(c)!Next \/ UNCHANGED <<sent[c], got[c], Found(c)>>]_linkVars

\* A fault on a line costs two messages at most, the reader finds the next
\* start; without a fault nothing is missing.
LossBounded ==
  \A c \in Conn :
    serverEnd[c] = "served" /\ line[c] = <<>> =>
      Len(SelectSeq(sent[c], LAMBDA m : Sort[m] # "invalid")) <= Len(got[c]) + 2 * faults

\* Whichever end disconnects, the other one learns of it: the server reads
\* the rest and the end, a client that is left closes its side.
EndIsNoticed ==
  \A c \in Conn :
    transport # "tty" /\ serverEnd[c] # "none" /\ (~open[c] \/ serverEnd[c] = "closed")
      ~> serverEnd[c] = "over" /\ ~open[c]
=============================================================================
