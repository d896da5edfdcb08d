-------------------------- MODULE WechatReassembly --------------------------
(***************************************************************************)
(* How koovox_rcv_data_from_wechat (koovox_wechat_handle.c) puts the       *)
(* frames of the phone together.  Fragments of any size come over BLE or   *)
(* RFCOMM; the length in a frame's head says how much to collect.  The     *)
(* buffer belongs to the session, which links may free or wipe.            *)
(***************************************************************************)
EXTENDS Naturals, Sequences, SequencesExt

CONSTANTS
    MAGIC, VERSION,     \* the first two bytes of a head
    Frame,              \* what the phone sends: magic, version, length, command, body
    Failing,            \* commands koovox_rcv_data_handle gives an error for
    FIX_HEAD,           \* FRAME_SIZE_FIX_HEAD
    Stale,              \* what may lie in memory behind a fragment
    Recovery,           \* whole frames that fill any frame begun
    MaxFrames,          \* bound: frames sent over a link
    MaxWire,            \* bound: items on the wire
    MaxLinks            \* bound: links and sessions begun and ended

\* An item stands for what the code reads at once: two bytes for the length,
\* four for command and sequence number, one byte elsewhere.
Item == Nat

\* The items up to the length.
SizeHead == 3

ASSUME HeadAssumption ==
    /\ MAGIC \in Item /\ VERSION \in Item /\ MAGIC # VERSION
    /\ FIX_HEAD \in Nat /\ FIX_HEAD > SizeHead

\* Frames are well formed, and nothing but a head begins with MAGIC.
ASSUME FrameAssumption ==
    \A f \in Frame : /\ f \in Seq(Item) /\ Len(f) >= FIX_HEAD
                     /\ f[1] = MAGIC /\ f[2] = VERSION /\ f[3] = Len(f)
                     /\ \A k \in 2..Len(f) : f[k] # MAGIC

ASSUME StaleAssumption ==
    Failing \subseteq Item /\ Stale \subseteq [1..(SizeHead - 1) -> Item] /\ Stale # {}

\* A wrong length is one of another frame, or of stale memory.
ASSUME RecoveryAssumption ==
    /\ Recovery \in Nat \ {0}
    /\ \A f, g \in Frame : Len(g) <= Recovery * Len(f)
    /\ \A f \in Frame, stale \in Stale, k \in 1..(SizeHead - 1) :
           stale[k] <= Recovery * Len(f)

ASSUME BoundAssumption == {MaxFrames, MaxWire, MaxLinks} \subseteq Nat

VARIABLES
    link,               \* external: the link of the phone is up
    wire,               \* sent and not delivered
    g_wechat,           \* there is a session
    rcv_data,           \* its length and the bytes collected
    heap,               \* frame buffers allocated
    sent, handled,      \* history: frames of this link
    last,               \* history: the last fragment
    clean,              \* history: undisturbed frames in a row
    trouble,            \* history: this link has been disturbed
    cut,                \* history: sessions that ended within a frame
    links               \* history: links and sessions begun and ended

phone == <<link, wire, sent>>
past  == <<last, clean, trouble, cut, links>>
vars  == <<phone, g_wechat, rcv_data, heap, handled, past>>

NoFrame == [len |-> 0, data |-> <<>>]

Init ==
    /\ link = FALSE /\ g_wechat = FALSE /\ wire = <<>> /\ sent = <<>>
    /\ rcv_data = NoFrame /\ heap = 0 /\ handled = <<>> /\ last = <<>>
    /\ clean = 0 /\ trouble = FALSE /\ cut = 0 /\ links = 0

-----------------------------------------------------------------------------
(* Receiving a fragment                                                    *)

Smaller(a, b) == IF a < b THEN a ELSE b

\* Mutant: nothing is looked at.
AnyHead(head) == TRUE

\* A head is turned down when both of its bytes are wrong.
HeadTaken(head) == head[1] = MAGIC \/ head[2] = VERSION

\* Mutant: one frame of a fragment is enough.
DropRest(frame, rest) == 0

\* What is read on after a frame: nothing behind one that gave an error.
RestAfter(frame, rest) ==
    IF Len(frame) < FIX_HEAD \/ frame[4] \in Failing THEN 0 ELSE rest

Complete(frame, len) == Len(frame) >= len

\* The head at the index at of the fragment, read on behind its end.
HeadAt(fragment, at, stale) ==
    SubSeq(SubSeq(fragment, at + 1, Len(fragment)) \o stale, 1, SizeHead)

\* One turn: r.size items are left of the fragment.
Turn(fragment, stale, r) ==
    LET at    == Len(fragment) - r.size
        head  == HeadAt(fragment, at, stale)
        fresh == r.rcv_data.len = 0
        len   == IF fresh THEN head[3] ELSE r.rcv_data.len
        old   == IF fresh THEN <<>> ELSE r.rcv_data.data
        n     == Smaller(len - Len(old), r.size)
        frame == old \o SubSeq(fragment, at + 1, at + n)
    IN IF fresh /\ ~HeadTaken(head) THEN [r EXCEPT !.size = 0]
       ELSE IF ~Complete(frame, len)
       THEN [r EXCEPT !.size = @ - n, !.rcv_data = [len |-> len, data |-> frame],
                      !.heap = IF fresh THEN @ + 1 ELSE @]
       ELSE [size |-> RestAfter(frame, r.size - n), rcv_data |-> NoFrame,
             handled |-> Append(r.handled, frame),
             heap |-> IF fresh THEN r.heap ELSE r.heap - 1]

\* A fragment shorter than a head is dropped, a frame begun or not.
Taken(fragment) == Len(fragment) >= FIX_HEAD /\ g_wechat

\* koovox_rcv_data_from_wechat.  A turn takes at least one item or is the last,
\* so that there are at most as many as the fragment has items.
Received(fragment, stale) ==
    LET start == [size |-> IF Taken(fragment) THEN Len(fragment) ELSE 0,
                  rcv_data |-> rcv_data, handled |-> handled, heap |-> heap]
    IN FoldLeft(LAMBDA r, item : IF r.size = 0 THEN r ELSE Turn(fragment, stale, r),
                start, fragment)

-----------------------------------------------------------------------------
(* Actions                                                                 *)

\* The phone writes a frame.
PhoneSends(f) ==
    /\ link /\ Len(sent) < MaxFrames /\ Len(wire) + Len(f) <= MaxWire
    /\ wire' = wire \o f /\ sent' = Append(sent, f)
    /\ UNCHANGED <<link, g_wechat, rcv_data, heap, handled, past>>

\* A head that the fragment ends in: the code reads behind the end.
HeadCut(fragment) ==
    \E k \in DOMAIN fragment : fragment[k] = MAGIC /\ Len(fragment) - k < SizeHead - 1

\* The fragment holds the end of one frame, or a whole one, and more.
Joined(fragment) == \E k \in 2..Len(fragment) : fragment[k] = MAGIC

\* A frame of its own.
Whole(fragment) == fragment \in Frame

Disturbs(fragment) ==
    \/ Len(fragment) < FIX_HEAD
    \/ HeadCut(fragment)
    \/ Joined(fragment) /\ \E k \in DOMAIN sent : sent[k][4] \in Failing

\* The turn would look behind the fragment, whatever its bytes mean.
ReadsBehind(fragment, stale) ==
    \E other \in Stale : Received(fragment, stale) # Received(fragment, other)

\* HANDLE_WRITE_CHARACTERISTIC, or WECHAT_MESSAGE_MORE_DATA: n items of the
\* wire arrive together.
FragmentArrives(n, stale) ==
    LET fragment == SubSeq(wire, 1, n)  end == Received(fragment, stale) IN
    /\ wire' = SubSeq(wire, n + 1, Len(wire))
    /\ rcv_data' = end.rcv_data /\ heap' = end.heap /\ handled' = end.handled
    /\ last' = fragment
    /\ trouble' = (trouble \/ Disturbs(fragment) \/ ~g_wechat)
    /\ clean' = IF Whole(fragment) /\ g_wechat /\ ~ReadsBehind(fragment, stale)
                THEN Smaller(clean + 1, Recovery) ELSE 0
    /\ UNCHANGED <<link, sent, g_wechat, cut, links>>

\* The session is gone or wiped, with the buffer of a frame begun.
Cut == cut' = IF rcv_data.len > 0 THEN cut + 1 ELSE cut

\* Mutant: the length of the frame begun survives.
KeepBegun == g_wechat' = TRUE /\ UNCHANGED rcv_data

\* koovox_init_wechat
InitWechat == g_wechat' = TRUE /\ rcv_data' = NoFrame

Another == links < MaxLinks /\ links' = links + 1

\* The link of the phone comes up.
LinkUp ==
    /\ ~link /\ Another /\ InitWechat /\ Cut
    /\ link' = TRUE /\ wire' = <<>> /\ sent' = <<>> /\ handled' = <<>>
    /\ last' = <<>> /\ clean' = 0 /\ trouble' = FALSE
    /\ UNCHANGED heap

\* koovox_wechat_disconnect
WechatDisconnect == g_wechat' = FALSE /\ rcv_data' = NoFrame

\* The link of the phone goes down.
LinkDown ==
    /\ link /\ WechatDisconnect /\ Cut
    /\ link' = FALSE /\ wire' = <<>> /\ clean' = 0
    /\ UNCHANGED <<heap, sent, handled, last, trouble, links>>

\* A second link comes up and wipes the session, or goes down and frees it.
SecondLink ==
    /\ link /\ Another /\ Cut
    /\ InitWechat \/ WechatDisconnect
    /\ trouble' = TRUE /\ clean' = 0
    /\ UNCHANGED <<link, wire, sent, heap, handled, last>>

Next ==
    \/ \E f \in Frame : PhoneSends(f)
    \/ \E n \in DOMAIN wire, stale \in Stale : FragmentArrives(n, stale)
    \/ LinkUp \/ LinkDown \/ SecondLink

Spec == Init /\ [][Next]_vars

-----------------------------------------------------------------------------
(* Properties                                                              *)

\* A frame is collected within its buffer, and a complete one never waits.
\* Without trouble the frames arrive whole and in order, however they were cut
\* and joined: what was handled, what is collected and what is on the wire is
\* what the phone sent.
StreamKept ==
    (link /\ ~trouble) =>
        /\ handled = SubSeq(sent, 1, Len(handled))
        /\ FlattenSeq(handled) \o rcv_data.data \o wire = FlattenSeq(sent)

\* Trouble ends: once as many undisturbed frames have come in a row as fill any
\* frame begun, the last one has been handled as it was sent.
Recovers == clean = Recovery => handled # <<>> /\ Last(handled) = last

\* Buffers are lost only by sessions that end within a frame, and the one in use
\* never holds as much as the frame it was allocated for.
BuffersAccounted ==
    /\ heap = cut + (IF rcv_data.len > 0 THEN 1 ELSE 0)
    /\ rcv_data = NoFrame \/ Len(rcv_data.data) < rcv_data.len
=============================================================================
