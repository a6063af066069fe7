----------------------------- MODULE VjCompress -----------------------------
(***************************************************************************)
(* The compression of TCP/IP headers (sl_compress.c) between two ends of a *)
(* serial line that damages frames.                                        *)
(*                                                                         *)
(* A header is reduced to what the routines compare or change; fixed is    *)
(* everything that must not change in a compressed packet (version, TOS,   *)
(* fragment bits, TTL, options).  A frame is compressed, crosses the line  *)
(* and is restored in one step: the line keeps the order.                  *)
(***************************************************************************)
EXTENDS Integers, Sequences, SequencesExt, FiniteSets, FiniteSetsExt

CONSTANTS
    StateCounts,        \* the values of MAX_STATES that are tried
    VjConns,            \* TCP connections
    SeqSpace, DeltaMax,   \* 2^32 and 0xffff, scaled down
    IdSpace,              \* 2^16, for ip_id
    CompressCid,        \* whether the connection number may be left out
    MaxPackets          \* bound on the packets of a behaviour

\* There is a slot, and a step back by one is too far to be sent as a difference.
ASSUME VjAssumption ==
    /\ StateCounts \subseteq Nat \ {0}
    /\ SeqSpace \in Nat /\ DeltaMax \in Nat /\ DeltaMax < SeqSpace - 1 /\ IdSpace \in Nat \ {0}
    /\ CompressCid \in BOOLEAN /\ VjConns \cap {"none", "tossed"} = {}

VARIABLES
    comp,       \* the compressor: tstate, its ring of slots, last_xmit
    decomp,     \* the decompressor: rstate, last_recv, toss (SLF_TOSS)
    cur,        \* cur[c]: the last header that connection c sent
    sync,       \* the slots of which no packet was lost since the last full header
    out,        \* the packet just sent and what came out at the other end
    packets     \* how many there were

vjVars == <<comp, decomp, cur, sync, out, packets>>

NoHdr == [conn |-> "none", seq |-> 0, ack |-> 0, win |-> 0, urg |-> 0, push |-> FALSE, len |-> 0, id |-> 0, fixed |-> 0]
Tossed == [NoHdr EXCEPT !.conn = "tossed"]

\* sl_compress_init, on both ends.  255 is no slot.
sl_compress_init(MAX_STATES) ==
    LET empty == [i \in 0 .. MAX_STATES - 1 |-> NoHdr] IN
    /\ comp = [tstate |-> empty, ring |-> [i \in 1 .. MAX_STATES |-> MAX_STATES - i], last_xmit |-> 255]
    /\ decomp = [rstate |-> empty, last_recv |-> 255, toss |-> TRUE]

(***************************************************************************)
(* sl_compress_tcp.  The slots form a ring from the one used last to the   *)
(* oldest, last_cs; a connection without a slot takes the oldest.          *)
(***************************************************************************)
SlotOf(c) ==
    LET of == {i \in DOMAIN comp.ring : comp.tstate[comp.ring[i]].conn = c} IN
    comp.ring[IF of # {} THEN Min(of) ELSE Len(comp.ring)]

Delta(new, old) == (new - old) % SeqSpace

\* what of h differs from the header before it
Changes(h, o) ==
    (IF h.urg > 0 THEN {"U"} ELSE {}) \cup (IF h.win # o.win THEN {"W"} ELSE {})
    \cup (IF h.ack # o.ack THEN {"A"} ELSE {}) \cup (IF h.seq # o.seq THEN {"S"} ELSE {})

SpecialI == {"S", "W", "U"}
SpecialD == {"S", "A", "W", "U"}

\* Mutant: a packet that repeats the last one is compressed like any other.
Unchanged_Compressed(h, o) == TRUE

\* Nothing changed: compressed only if it is data after an acknowledgement.
Unchanged(h, o) == h.len # o.len /\ o.len = 0

Compressible(h, o) ==
    /\ h.conn = o.conn /\ h.fixed = o.fixed
    /\ Delta(h.ack, o.ack) <= DeltaMax /\ Delta(h.seq, o.seq) <= DeltaMax
    /\ h.urg > 0 \/ o.urg = 0
    /\ Changes(h, o) \notin {SpecialI, SpecialD}
    /\ Changes(h, o) = {} => Unchanged(h, o)

\* the bits sent for the changes, with the two special encodings
Encoded(h, o) ==
    LET ch == Changes(h, o) IN
    IF ch = {"S", "A"} /\ Delta(h.seq, o.seq) = Delta(h.ack, o.ack) /\ Delta(h.seq, o.seq) = o.len THEN SpecialI
    ELSE IF ch = {"S"} /\ Delta(h.seq, o.seq) = o.len THEN SpecialD
    ELSE ch

Frame(h, o, slot) ==
    [type |-> "comp", ch |-> Encoded(h, o), cid |-> IF CompressCid /\ comp.last_xmit = slot THEN {} ELSE {slot},
     u |-> h.urg, w |-> h.win - o.win, a |-> Delta(h.ack, o.ack), s |-> Delta(h.seq, o.seq),
     i |-> (h.id - o.id) % IdSpace, push |-> h.push, len |-> h.len]

\* A packet with SYN, FIN or RST, or without ACK, or a fragment, goes as it is.
sl_compress_tcp(h, plain) ==
    LET slot == SlotOf(h.conn)
        o == comp.tstate[slot]
    IN  IF plain THEN [frame |-> [type |-> "ip", hdr |-> h], comp |-> comp, slot |-> -1]
        ELSE [frame |-> IF Compressible(h, o) THEN Frame(h, o, slot) ELSE [type |-> "uncomp", hdr |-> h, cid |-> slot],
              comp |-> [tstate |-> [comp.tstate EXCEPT ![slot] = h],
                        ring |-> <<slot>> \o RemoveFirst(comp.ring, slot), last_xmit |-> slot],
              slot |-> slot]

(***************************************************************************)
(* sl_uncompress_tcp: the decompressor and the header that comes out,    *)
(* Tossed if the packet is thrown away.                                    *)
(***************************************************************************)
Restored(o, f) ==
    LET h == [o EXCEPT !.push = f.push, !.len = f.len, !.id = (@ + f.i) % IdSpace] IN
    CASE f.ch = SpecialI -> [h EXCEPT !.ack = (@ + o.len) % SeqSpace, !.seq = (@ + o.len) % SeqSpace]
      [] f.ch = SpecialD -> [h EXCEPT !.seq = (@ + o.len) % SeqSpace]
      [] OTHER -> [h EXCEPT !.urg = IF "U" \in f.ch THEN f.u ELSE 0,
                            !.win = IF "W" \in f.ch THEN @ + f.w ELSE @,
                            !.ack = IF "A" \in f.ch THEN (@ + f.a) % SeqSpace ELSE @,
                            !.seq = IF "S" \in f.ch THEN (@ + f.s) % SeqSpace ELSE @]

sl_uncompress_tcp(f) ==
    IF f.type = "ip" THEN [decomp |-> decomp, hdr |-> f.hdr]
    ELSE IF f.type = "uncomp"
    THEN [decomp |-> [rstate |-> [decomp.rstate EXCEPT ![f.cid] = f.hdr], last_recv |-> f.cid, toss |-> FALSE], hdr |-> f.hdr]
    ELSE IF f.cid = {} /\ decomp.toss THEN [decomp |-> decomp, hdr |-> Tossed]
    ELSE LET cid == IF f.cid = {} THEN decomp.last_recv ELSE CHOOSE s \in f.cid : TRUE
             h == Restored(decomp.rstate[cid], f)
         IN  [decomp |-> [rstate |-> [decomp.rstate EXCEPT ![cid] = h], last_recv |-> cid, toss |-> FALSE], hdr |-> h]

\* TYPE_ERROR: the line reported a damaged frame.
LineError == [decomp |-> [decomp EXCEPT !.toss = TRUE], hdr |-> Tossed]

(***************************************************************************)
(* What a connection sends next.                                           *)
(***************************************************************************)
Moves(c) ==
    LET o == cur[c]
        n == [o EXCEPT !.seq = (@ + o.len) % SeqSpace, !.push = FALSE, !.urg = 0, !.id = (@ + 1) % IdSpace]
    IN  {[n EXCEPT !.len = 1], [n EXCEPT !.len = 0, !.ack = (@ + 1) % SeqSpace],
         [n EXCEPT !.len = 1, !.ack = (@ + o.len) % SeqSpace, !.push = TRUE],
         [n EXCEPT !.win = 1 - @, !.len = 0, !.id = (@ + 1) % IdSpace, !.fixed = 1 - @],
         [n EXCEPT !.urg = 1, !.len = 1, !.win = 1 - @]}

Repeats(c) ==
    {[cur[c] EXCEPT !.id = (@ + 1) % IdSpace], [cur[c] EXCEPT !.seq = (@ - 1) % SeqSpace, !.id = (@ + 1) % IdSpace]}

SendTcp(c, h, plain, damaged) ==
    LET r == sl_compress_tcp(h, plain)
        d == IF damaged THEN LineError ELSE sl_uncompress_tcp(r.frame)
    IN  /\ packets < MaxPackets /\ packets' = packets + 1
        /\ comp' = r.comp /\ decomp' = d.decomp
        /\ cur' = [cur EXCEPT ![c] = h]
        /\ sync' = IF r.slot = -1 THEN sync
                   ELSE IF d.hdr = Tossed THEN sync \ {r.slot}
                   ELSE IF r.frame.type = "uncomp" THEN sync \cup {r.slot}
                   ELSE sync
        /\ out' = [sent |-> h, got |-> d.hdr, sync |-> r.slot = -1 \/ r.slot \in sync',
                   mixed |-> r.slot # -1 /\ d.decomp.last_recv # r.slot, again |-> h \in Repeats(c) /\ h.urg = 0]

VjInit ==
    /\ \E n \in StateCounts : sl_compress_init(n)
    /\ cur = [c \in VjConns |-> [NoHdr EXCEPT !.conn = c]] /\ sync = {} /\ packets = 0
    /\ out = [sent |-> NoHdr, got |-> Tossed, sync |-> TRUE, mixed |-> FALSE, again |-> FALSE]

VjNext ==
    \E c \in VjConns, damaged \in BOOLEAN :
        \/ \E h \in Moves(c) \cup Repeats(c) : SendTcp(c, h, FALSE, damaged)
        \/ SendTcp(c, [cur[c] EXCEPT !.id = (@ + 1) % IdSpace], TRUE, damaged)

VjSpec == VjInit /\ [][VjNext]_vjVars

\* What comes out of the decompressor is the header that was sent, if no frame
\* of its slot was lost since the last full header; it is never restored from
\* the slot of another connection, also when the number of the slot was left
\* out and frames before it were damaged; and a packet that TCP repeats comes
\* out right whatever was lost before it, unless it is urgent
\* (sl_compress_tcp, sl_uncompress_tcp, SLF_TOSS).
HeadersRestored ==
    out.got # Tossed => ~out.mixed /\ (out.sync \/ out.again => out.got = out.sent)
=============================================================================
