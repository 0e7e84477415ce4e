---------------------------- MODULE MessageCodec ----------------------------
(***************************************************************************)
(* The wire codec of src/protocol/message.go: EncodeSlicePointer,          *)
(* encodeMetadata, Decode and decodeMetadata, byte for byte.  A frame is   *)
(* a sequence of bytes (naturals below 256); strings are sequences of      *)
(* bytes.  uint32 values are kept as pairs of 16-bit halves so that their  *)
(* wrap-around at 2^32 is exact (TLC's integers stop at 2^31).  Go's       *)
(* slicing is modelled with its bounds: s[lo:hi] needs lo <= hi <= cap(s), *)
(* so a slice may reach past len(s) into the rest of the backing array,    *)
(* and a bound outside cap is a panic.                                     *)
(*                                                                         *)
(* Two readers decode frames: the server's readRequest (server.go:118-119) *)
(* into a pooled message whose m.data backing array is kept by Reset and   *)
(* shared through the pool, a panic being recovered by serveConn; and the  *)
(* client's input loop (client.go:75-80) into a fresh NewMessage, with no  *)
(* recover.  Compression is None (the compressors are library code), and   *)
(* MaxMessageLength is its default 0.                                      *)
(***************************************************************************)
EXTENDS Integers, Sequences, SequencesExt

CONSTANTS
    ServicePaths,    \* byte strings used as ServicePath
    ServiceMethods,  \* byte strings used as ServiceMethod
    MetaKeys,        \* byte strings used as metadata keys
    MetaValues,      \* byte strings used as metadata values
    Payloads,        \* byte strings used as payloads
    BadKeyLens,      \* uint32 key lengths a corrupt metadata record carries
    PathExtra,       \* bytes an overstated SPLen claims beyond the path
    MaxMessageLength,\* the package variable (0: no limit)
    MaxDecodes       \* bound: frames decoded

Magic == 8                                 \* magicNumber
Header == <<Magic>> \o [i \in 1..11 |-> 0]  \* a header with Compress None

(* uint32 arithmetic on [hi, lo] halves.                                   *)
U32(x) == [hi |-> (x \div 65536) % 65536, lo |-> x % 65536]
Add32(a, b) == LET lo == a.lo + b.lo
               IN [hi |-> (a.hi + b.hi + lo \div 65536) % 65536, lo |-> lo % 65536]
Sub32(a, b) == LET lo == a.lo - b.lo
                   br == IF lo < 0 THEN 1 ELSE 0
               IN [hi |-> (a.hi - b.hi - br) % 65536, lo |-> lo % 65536]
Gt32(a, b) == a.hi > b.hi \/ (a.hi = b.hi /\ a.lo > b.lo)
Lt32(a, b) == Gt32(b, a)
\* int(x) for a uint32 that indexes a small slice; larger ones index nothing.
AsIndex(a) == IF a.hi = 0 THEN a.lo ELSE 65536

\* Mutant: the shifted halves stored without their truncation to a byte.
PutUint32Untruncated(a) == <<a.hi \div 256, a.hi, a.lo \div 256, a.lo>>

(* binary.BigEndian.PutUint32 and .Uint32 (at 0-based offset i of s).     *)
PutUint32(a) == <<a.hi \div 256, a.hi % 256, a.lo \div 256, a.lo % 256>>
Uint32At(s, i) == [hi |-> s[i + 1] * 256 + s[i + 2], lo |-> s[i + 3] * 256 + s[i + 4]]
LenField(s) == PutUint32(U32(Len(s))) \o s

Maps == UNION {[D -> MetaValues] : D \in SUBSET MetaKeys}
Messages == [sp : ServicePaths, sm : ServiceMethods, meta : Maps, payload : Payloads]
MapEq(a, b) == DOMAIN a = DOMAIN b /\ \A k \in DOMAIN a : a[k] = b[k]

(* encodeMetadata (lines 325-338): KLen K VLen V per entry, in the order   *)
(* o in which the map is ranged over.                                      *)
encodeMetadata(m, o) == FoldLeft(LAMBDA acc, k : acc \o LenField(k) \o LenField(m[k]),
                                 <<>>, o)

(* EncodeSlicePointer (lines 66-124); pathLen is the SPLen written, the    *)
(* path's own length in the code.                                          *)
EncodeWith(M, meta, pathLen) ==
    LET totalL == (4 + Len(M.sp)) + (4 + Len(M.sm)) + (4 + Len(meta))
                  + (4 + Len(M.payload))
    IN Header \o PutUint32(U32(totalL))
       \o PutUint32(U32(pathLen)) \o M.sp \o LenField(M.sm)
       \o LenField(meta) \o LenField(M.payload)
Encode(M, o) == EncodeWith(M, encodeMetadata(M.meta, o), Len(M.sp))

(* Frames a reader may receive: every encoding of every message, and the  *)
(* corruptions the decoder's checks are there for: a metadata record whose *)
(* key length is too large, an SPLen larger than the path, and a TotalLen  *)
(* that leaves the payload out.                                            *)
BadKeyLen(M, o, bad) ==
    LET meta == encodeMetadata(M.meta, o)
    IN EncodeWith(M, PutUint32(bad) \o SubSeq(meta, 5, Len(meta)), Len(M.sp))
Frames ==
    UNION {{[bytes |-> Encode(M, o), msg |-> M, kind |-> "valid"] :
              o \in SetToSeqs(DOMAIN M.meta)} : M \in Messages}
    \cup UNION {{[bytes |-> BadKeyLen(M, o, bad), msg |-> M, kind |-> "badKeyLen"] :
                   o \in SetToSeqs(DOMAIN M.meta), bad \in BadKeyLens} :
                 M \in {N \in Messages : DOMAIN N.meta # {}}}
    \cup {[bytes |-> EncodeWith(M, encodeMetadata(M.meta, SetToSeq(DOMAIN M.meta)),
                                Len(M.sp) + x),
           msg |-> M, kind |-> "longPath"] : M \in Messages, x \in PathExtra}
    \cup {[bytes |-> LET e == Encode(M, SetToSeq(DOMAIN M.meta))
                     IN SubSeq(e, 1, 12) \o PutUint32(U32(Len(e) - 16 - Len(M.payload)))
                        \o SubSeq(e, 17, Len(e) - Len(M.payload)),
           msg |-> M, kind |-> "shortTotal"] : M \in {N \in Messages : N.payload # <<>>}}

-----------------------------------------------------------------------------
(* The outcome of a decode: kind is "ok", an error, or "panic"; reach is   *)
(* the highest index of m.data any slice covered; buf the backing array.   *)
Outcome(kind, buf) == [kind |-> kind, sp |-> <<>>, sm |-> <<>>, meta |-> <<>>,
                       payload |-> <<>>, reach |-> 0, len |-> 0, buf |-> buf]
MaxOf(a, b) == IF a >= b THEN a ELSE b

(* The loop of decodeMetadata (lines 343-366) over data = d[base:base+l],  *)
(* whose cap runs to the end of d; n, sl and l are uint32.                 *)
RECURSIVE MetaLoop(_, _, _, _, _, _)
MetaLoop(d, base, l, n, m, reach) ==
    LET capD == Len(d) - base
        ni   == AsIndex(n)
    IN
    IF ~Lt32(n, l) THEN [kind |-> "ok", meta |-> m, reach |-> reach]
    ELSE IF ni + 4 > capD THEN [kind |-> "panic", meta |-> m, reach |-> reach]
    ELSE LET sl == Uint32At(d, base + ni)
             n1 == Add32(n, U32(4))
             e1 == Add32(n1, sl)
         IN
         IF Gt32(e1, Sub32(l, U32(4))) THEN [kind |-> "kvMissing", meta |-> m, reach |-> reach]
         ELSE IF Gt32(n1, e1) \/ AsIndex(e1) > capD \/ AsIndex(e1) + 4 > capD
              THEN [kind |-> "panic", meta |-> m, reach |-> reach]
         ELSE LET k  == SubSeq(d, base + AsIndex(n1) + 1, base + AsIndex(e1))
                  sv == Uint32At(d, base + AsIndex(e1))
                  n3 == Add32(e1, U32(4))
                  e3 == Add32(n3, sv)
              IN
              IF Gt32(e3, l) THEN [kind |-> "kvMissing", meta |-> m, reach |-> reach]
              ELSE IF Gt32(n3, e3) \/ AsIndex(e3) > capD
                   THEN [kind |-> "panic", meta |-> m, reach |-> reach]
              ELSE MetaLoop(d, base, l, e3,
                            (k :> SubSeq(d, base + AsIndex(n3) + 1, base + AsIndex(e3))) @@ m,
                            MaxOf(reach, base + AsIndex(e3)))

(* decodeMetadata (lines 340-369) on data = d[base:base+l].                *)
decodeMetadata(d, base, l) == MetaLoop(d, base, l, U32(0), <<>>, base)

\* Mutant: m.data reused without being cut to totalL when its cap suffices.
ReuseDataNoTruncate(old, body, totalL) ==
    IF Len(old) >= totalL
    THEN [d |-> body \o SubSeq(old, totalL + 1, Len(old)), len |-> Len(old)]
    ELSE [d |-> body, len |-> totalL]

(* Lines 232-239: m.data re-sliced to totalL when its cap suffices (the    *)
(* bytes past totalL are the previous message's), else a fresh array;     *)
(* ReadFull then fills the first totalL bytes.                            *)
ReuseData(old, body, totalL) ==
    IF Len(old) >= totalL
    THEN [d |-> body \o SubSeq(old, totalL + 1, Len(old)), len |-> totalL]
    ELSE [d |-> body, len |-> totalL]

\* Mutant: the payload cut by its own PayloadLen, data[n:n+l], not data[n:].
PayloadByLength(d, p0, L) ==
    LET pl == AsIndex(Uint32At(d, p0 - 4))
    IN IF p0 + pl > Len(d) THEN [ok |-> FALSE, bytes |-> <<>>, reach |-> p0]
       ELSE [ok |-> TRUE, bytes |-> SubSeq(d, p0 + 1, p0 + pl), reach |-> p0 + pl]

(* Lines 273-276: the PayloadLen is read and ignored; m.Payload = data[n:] *)
(* runs to len(data), a panic when n is past it.                           *)
PayloadOf(d, p0, L) ==
    IF p0 > L THEN [ok |-> FALSE, bytes |-> <<>>, reach |-> p0]
    ELSE [ok |-> TRUE, bytes |-> SubSeq(d, p0 + 1, L), reach |-> L]

(* Decode (lines 200-289) of the frame f into a message whose m.data has  *)
(* the backing array old.  data has len L and cap Len(d).                  *)
Decode(f, old) ==
    IF f[1] # Magic THEN Outcome("badMagic", old)
    ELSE IF Len(f) < 16 THEN Outcome("eof", old)
    ELSE
    LET l0 == Uint32At(f, 12) IN
    IF MaxMessageLength > 0 /\ Gt32(l0, U32(MaxMessageLength)) THEN Outcome("tooLong", old)
    ELSE IF AsIndex(l0) > Len(f) - 16 THEN Outcome("eof", old)
    ELSE
    LET r    == ReuseData(old, SubSeq(f, 17, 16 + AsIndex(l0)), AsIndex(l0))
        d    == r.d
        L    == r.len
        C    == Len(d)
        \* ServicePath (lines 247-251)
        spL  == AsIndex(Uint32At(d, 0))
        e1   == 4 + spL
        \* ServiceMethod (lines 254-258)
        smL  == AsIndex(Uint32At(d, e1))
        e2   == e1 + 4 + smL
        \* Metadata (lines 261-270)
        mL   == Uint32At(d, e2)
        e3   == e2 + 4 + AsIndex(mL)
        md   == decodeMetadata(d, e2 + 4, mL)
        p0   == e3 + 4
        pay  == PayloadOf(d, p0, L)
    IN
    IF C < 4 \/ e1 > C \/ e1 + 4 > C THEN Outcome("panic", d)
    ELSE IF e2 > C \/ e2 + 4 > C THEN Outcome("panic", d)
    ELSE IF e3 > C THEN Outcome("panic", d)
    ELSE IF mL # U32(0) /\ md.kind # "ok" THEN Outcome(md.kind, d)
    ELSE IF e3 + 4 > C \/ ~pay.ok THEN Outcome("panic", d)
    ELSE [kind    |-> "ok",
          sp      |-> SubSeq(d, 5, e1),
          sm      |-> SubSeq(d, e1 + 5, e2),
          meta    |-> IF mL # U32(0) THEN md.meta ELSE <<>>,
          payload |-> pay.bytes,
          reach   |-> MaxOf(pay.reach, IF mL # U32(0) THEN md.reach ELSE 0),
          len     |-> L,
          buf     |-> d]

-----------------------------------------------------------------------------
VARIABLES
    pooled,   \* the backing array of m.data of the server's pooled message
    frame,    \* the last frame read
    result,   \* the outcome of its Decode
    reader,   \* who decoded it: "server" or "client"
    decodes,  \* ghost: frames decoded
    crashed   \* a panic in the client's read loop ended the process

vars == <<pooled, frame, result, reader, decodes, crashed>>

Init ==
    /\ pooled = <<>>
    /\ frame = [bytes |-> <<>>, msg |-> CHOOSE M \in Messages : TRUE, kind |-> "none"]
    /\ result = Outcome("none", <<>>)
    /\ reader = "none"
    /\ decodes = 0
    /\ crashed = FALSE

(* readRequest (server.go:113-119): GetPooledMsg hands out a message freed *)
(* earlier, whose Reset kept m.data's array, or a new one; FreeMsg later   *)
(* returns it.  A panic is recovered by serveConn (server_serve.go:172).   *)
ServerReadRequest ==
    /\ ~crashed /\ decodes < MaxDecodes
    /\ \E f \in Frames, fresh \in BOOLEAN :
         LET r == Decode(f.bytes, IF fresh THEN <<>> ELSE pooled)
         IN /\ frame' = f
            /\ result' = r
            /\ pooled' = r.buf
    /\ reader' = "server"
    /\ decodes' = decodes + 1
    /\ UNCHANGED crashed

(* The client's input loop (client.go:75-83): a NewMessage per response,   *)
(* no recover in input(): a panic ends the process.                        *)
ClientInput ==
    /\ ~crashed /\ decodes < MaxDecodes
    /\ \E f \in Frames :
         LET r == Decode(f.bytes, <<>>)
         IN /\ frame' = f
            /\ result' = r
            /\ crashed' = (r.kind = "panic")
    /\ reader' = "client"
    /\ decodes' = decodes + 1
    /\ UNCHANGED pooled

Next == ServerReadRequest \/ ClientInput

Spec == Init /\ [][Next]_vars

-----------------------------------------------------------------------------
TypeOK ==
    /\ pooled \in Seq(0..255)
    /\ result.kind \in {"none", "ok", "badMagic", "eof", "tooLong", "kvMissing", "panic"}
    /\ reader \in {"none", "server", "client"}
    /\ decodes \in 0..MaxDecodes
    /\ crashed \in BOOLEAN

(* Spec 4.1: Encode -> Decode is a round trip for ServicePath,             *)
(* ServiceMethod, Metadata (as an unordered mapping) and Payload, also in  *)
(* a pooled message that held a longer frame before.                       *)
RoundTrip ==
    frame.kind = "valid" =>
        /\ result.kind = "ok"
        /\ result.sp = frame.msg.sp /\ result.sm = frame.msg.sm
        /\ MapEq(result.meta, frame.msg.meta)
        /\ result.payload = frame.msg.payload

(* Spec 4.1: a metadata record that runs past the metadata fails with     *)
(* ErrMetaKVMissing (decodeMetadata's checks at lines 349 and 359).        *)
MetaOverrunIsKVMissing ==
    frame.kind = "badKeyLen" => result.kind = "kvMissing"

(* A decoded message holds only bytes of its own frame: although every     *)
(* slice of m.data may reach past totalL into what an earlier message left *)
(* in the pooled array, the closing data[n:] (line 276) rejects any frame  *)
(* whose fields run past totalL.                                           *)
NoReadBeyondFrame ==
    result.kind = "ok" => result.reach <= result.len
====
