---------------------------- MODULE UartFraming ----------------------------
(***************************************************************************)
(* How sink_koovox_uart.c cuts the frames of the sensor controller out of  *)
(* the bytes of the serial line.  Bytes arrive in pieces of any size, are  *)
(* collected in a buffer, and a frame ends where the search finds the tail *)
(* "{}".  The sensor's data are any bytes and nothing escapes a tail in     *)
(* them, which cuts the frame; noise on the line may change or lose bytes.  *)
(***************************************************************************)
EXTENDS Naturals, Sequences, SequencesExt

CONSTANTS
    OPEN, CLOSE,        \* the bytes '{' and '}'
    PLAIN,              \* all other bytes
    Body,               \* what the sensor sends before the tail
    SIZE_UART_MSG,      \* the size of the buffer (50)
    INDEX_SIZE,         \* the values of the uint8 index into a piece
    MaxFrames,          \* bound: frames the sensor sends
    MaxWire,            \* bound: bytes on the line
    MaxNoise            \* bound: bytes changed or lost

Byte == {OPEN, CLOSE, PLAIN}

FRAME_TAIL == <<OPEN, CLOSE>>

ASSUME ByteAssumption == OPEN # CLOSE /\ PLAIN \notin {OPEN, CLOSE}

\* The sensor's frames are shorter than the buffer; what they hold is up to the
\* data, which are any bytes.
ASSUME BodyAssumption ==
    \A b \in Body : /\ b \in Seq(Byte) /\ b # <<>>
                    /\ Len(b) + Len(FRAME_TAIL) < SIZE_UART_MSG

ASSUME SizeAssumption ==
    /\ SIZE_UART_MSG \in Nat /\ SIZE_UART_MSG > Len(FRAME_TAIL)
    /\ INDEX_SIZE \in Nat /\ INDEX_SIZE >= SIZE_UART_MSG

ASSUME BoundAssumption == {MaxFrames, MaxWire, MaxNoise} \subseteq Nat

VARIABLES
    wire,               \* bytes on their way to the UART source
    uart_msg,           \* the first uart_offset bytes of the buffer
    handled,            \* history: frames given to KoovoxUartMessageHandle
    seen,               \* history: bytes the source has delivered
    sent,               \* history: frames the sensor has sent
    due,                \* history: what a receiver makes of each of them by itself
    clean,              \* history: frames sent since the last trouble
    noise,              \* history: bytes changed or lost
    overrun             \* history: a piece was longer than the index can count

vars == <<wire, uart_msg, handled, seen, sent, due, clean, noise, overrun>>

\* Frames after which trouble is forgotten.
Recovery == 3

Init ==
    /\ wire = <<>> /\ uart_msg = <<>> /\ handled = <<>> /\ seen = <<>>
    /\ sent = <<>> /\ due = <<>> /\ clean = Recovery /\ noise = 0 /\ overrun = FALSE

-----------------------------------------------------------------------------
(* The search for the tail                                                 *)

\* One turn of the loop: j bytes of the tail are matched after i bytes.
Compare(scan, b) ==
    IF scan.j = Len(FRAME_TAIL) THEN scan
    ELSE [i |-> scan.i + 1,
          j |-> IF b = FRAME_TAIL[scan.j + 1] THEN scan.j + 1 ELSE 0]

\* The loop over the first len bytes of msg.
Scan(msg, len) ==
    LET scan[n \in 0..len] ==
            IF n = 0 THEN [i |-> 0, j |-> 0] ELSE Compare(scan[n - 1], msg[n])
    IN scan[len]

\* Mutant: the last byte is not looked at.
SearchShort(msg) ==
    LET end == Scan(msg, Len(msg) - 1)
    IN IF end.j = Len(FRAME_TAIL) THEN end.i ELSE 0

\* The position after the tail, 0 without one.  A byte that breaks a match is
\* not looked at again.
KoovoxMessageStr(msg) ==
    LET end == Scan(msg, Len(msg))
    IN IF end.j = Len(FRAME_TAIL) THEN end.i ELSE 0

-----------------------------------------------------------------------------
(* The loop over the bytes of one piece                                    *)

\* Mutant: the buffer's first byte survives the start over.
StartBehind(msg) == IF Len(msg) = SIZE_UART_MSG THEN SubSeq(msg, 1, 1) ELSE msg

\* A full buffer without a tail is started over.
StartOver(msg) == IF Len(msg) = SIZE_UART_MSG THEN <<>> ELSE msg

\* Mutant: all bytes are copied, with room or without.
CopyAll(start, length) == length

\* As many bytes are copied as there is room for.
Copied(start, length) ==
    LET room == SIZE_UART_MSG - Len(start)
    IN IF length < room THEN length ELSE room

\* Mutant: the bytes after the tail are not given back.
TakeAll(rest) == 0

\* The bytes behind the tail are read again from the piece.
GiveBack(rest) == rest

\* One turn: r.length bytes of data are left from index r.i on.
Turn(data, r) ==
    LET start == StartOver(r.uart_msg)
        n     == Copied(start, r.length)
        msg   == start \o SubSeq(data, r.i + 1, r.i + n)
        ret   == KoovoxMessageStr(msg)
        rest  == GiveBack(Len(msg) - ret)
    IN IF ret = 0
       THEN [r EXCEPT !.uart_msg = msg, !.i = (@ + n) % INDEX_SIZE,
                      !.length = @ - n]
       ELSE [uart_msg |-> <<>>, i |-> (r.i + n - rest) % INDEX_SIZE,
             length |-> r.length - n + rest,
             handled |-> Append(r.handled, SubSeq(msg, 1, ret))]

\* uart_data_stream_rx_data of the bytes data.  A turn takes one byte at least, as
\* no tail is left in the buffer: there are no more turns than bytes.
Receive(data) ==
    LET loop[n \in 0..Len(data)] ==
            IF n = 0 THEN [uart_msg |-> uart_msg, i |-> 0, length |-> Len(data),
                           handled |-> handled]
            ELSE LET r == loop[n - 1]
                 IN IF r.length = 0 THEN r ELSE Turn(data, r)
    IN loop[Len(data)]

-----------------------------------------------------------------------------
(* The reference                                                           *)

\* A receiver that takes the bytes one by one.
TakeByte(r, b) ==
    LET msg == Append(IF Len(r.uart_msg) = SIZE_UART_MSG THEN <<>> ELSE r.uart_msg, b)
    IN IF KoovoxMessageStr(msg) = 0
       THEN [r EXCEPT !.uart_msg = msg]
       ELSE [uart_msg |-> <<>>, handled |-> Append(r.handled, msg)]

TakeBytes(r, bytes) ==
    LET run[n \in 0..Len(bytes)] ==
            IF n = 0 THEN r ELSE TakeByte(run[n - 1], bytes[n])
    IN run[Len(bytes)]

ByteWise(bytes) == TakeBytes([uart_msg |-> <<>>, handled |-> <<>>], bytes)

-----------------------------------------------------------------------------
(* Actions                                                                 *)

\* MESSAGE_MORE_DATA: the bytes that have arrived are one piece.
MoreData(n) ==
    LET data == SubSeq(wire, 1, n)  end == Receive(data) IN
    /\ wire' = SubSeq(wire, n + 1, Len(wire))
    /\ uart_msg' = end.uart_msg /\ handled' = end.handled
    /\ seen' = seen \o data
    /\ overrun' = (overrun \/ n > INDEX_SIZE)
    /\ clean' = IF n > INDEX_SIZE THEN 0 ELSE clean
    /\ UNCHANGED <<sent, due, noise>>

\* The sensor sends a frame.  One whose body ends in '{' hides its own tail,
\* and is trouble of the same kind as noise.
SensorSends(b) ==
    /\ Len(sent) < MaxFrames /\ Len(wire) + Len(b) + Len(FRAME_TAIL) <= MaxWire
    /\ wire' = wire \o b \o FRAME_TAIL
    /\ sent' = Append(sent, b \o FRAME_TAIL)
    /\ due' = due \o ByteWise(b \o FRAME_TAIL).handled
    /\ clean' = IF Last(b) = OPEN THEN 0
                ELSE IF clean < Recovery THEN clean + 1 ELSE clean
    /\ UNCHANGED <<uart_msg, handled, seen, noise, overrun>>

\* The i-th byte on the line is lost, or becomes c.
Noise(i) ==
    /\ noise < MaxNoise
    /\ \/ wire' = RemoveAt(wire, i)
       \/ \E c \in Byte \ {wire[i]} : wire' = [wire EXCEPT ![i] = c]
    /\ noise' = noise + 1 /\ clean' = 0
    /\ UNCHANGED <<uart_msg, handled, seen, sent, due, overrun>>

Next ==
    \/ \E b \in Body : SensorSends(b)
    \/ \E n \in DOMAIN wire : MoreData(n) \/ Noise(n)

Spec == Init /\ [][Next]_vars

-----------------------------------------------------------------------------
(* Properties                                                              *)

\* The buffer is never written behind its end.
TypeOK ==
    /\ wire \in Seq(Byte) /\ seen \in Seq(Byte)
    /\ uart_msg \in Seq(Byte) /\ Len(uart_msg) <= SIZE_UART_MSG
    /\ {handled, sent, due} \subseteq Seq(Seq(Byte))
    /\ clean \in 0..Recovery /\ noise \in 0..MaxNoise
    /\ overrun \in BOOLEAN

\* The frames handled and the bytes kept depend on the bytes received, not on
\* how they were cut into pieces, unless a piece is longer than the uint8 index
\* counts.
PiecesDoNotMatter ==
    ~overrun => [uart_msg |-> uart_msg, handled |-> handled] = ByteWise(seen)

\* The frame f ends in the tail, and its body holds none.
Whole(f) ==
    \A k \in 1..(Len(f) - Len(FRAME_TAIL)) : ~(f[k] = OPEN /\ f[k + 1] = CLOSE)

\* Trouble costs a bounded number of frames: once three frames have come after
\* it, the last of them has been handled as it was sent, unless its own data cut it.
Recovers ==
    (wire = <<>> /\ clean = Recovery /\ sent # <<>> /\ Whole(Last(sent)))
        => handled # <<>> /\ Last(handled) = Last(sent)

\* The body of the frame f ends in '{'.
HidesTail(f) == f[Len(f) - Len(FRAME_TAIL)] = OPEN

\* Without any trouble so far, exactly the frames sent are handled.  Data that
\* hold a tail cut their own frame, and no other one: it is handled in the parts
\* that the receiver makes of it by itself.
AllHandled ==
    (wire = <<>> /\ noise = 0 /\ ~overrun /\ ~ \E k \in DOMAIN sent : HidesTail(sent[k]))
        => /\ handled = due
           /\ (\A k \in DOMAIN sent : Whole(sent[k])) => handled = sent
=============================================================================
