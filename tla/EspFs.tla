-------------------------------- MODULE EspFs --------------------------------
(***************************************************************************)
(* A file of the web pages from the build machine to the HTTP server:      *)
(* mkespfsimage compresses it with heatshrink and lays it out in an image, *)
(* espFsOpen walks the headers of the image to it, and espFsRead           *)
(* decompresses it piece by piece.                                         *)
(*                                                                         *)
(* A byte has B bits (8 in the code), the window of heatshrink 2^W bytes   *)
(* and its lookahead 2^L; the codes are bit sequences, the most            *)
(* significant bit first, so that a byte in the making (current_byte and   *)
(* bit_index) is the incomplete end of a sequence.                         *)
(***************************************************************************)
EXTENDS Integers, SequencesExt

CONSTANTS
    B,          \* bits of a byte
    W, L,       \* window_sz2, lookahead_sz2: 11 and 4 unless -l is given
    INPUT,      \* input buffer of the decoder: 16
    Lengths,    \* what a call of espFsRead may be asked for
    None

(* get_bits is asked for at most a byte, and what pads the last byte is    *)
(* shorter than any code (1 + 4 + 2 bits at the least, and 7 bits).        *)
ASSUME CodeAssumption ==
    /\ B \in Nat \ {0} /\ W \in Nat /\ L \in Nat /\ L < W
    /\ W <= 2 * B /\ L <= B /\ 1 + W + L >= B
    /\ INPUT \in Nat \ {0} /\ Lengths \subseteq Nat \ {0}

VARIABLES
    file,       \* the content
    before,     \* the file that comes before it
    phase,      \* encode, store, open, read, poll, closed
    enc,        \* heatshrink_encoder
    taken,      \* bytes of the file sunk into it
    code,       \* the bits it has put out
    image,      \* offset -> header
    p,          \* where espFsOpen stands
    fh,         \* EspFsFile: header, posComp - posStart, posDecomp
    dec,        \* heatshrink_decoder
    want,       \* the rest of len in the call of espFsRead
    elen,       \* what was left of the code at the last sink
    got         \* what all the calls have returned

vars == <<file, before, phase, enc, taken, code, image, p, fh, dec, want, elen, got>>

WINDOW    == 2^W
LOOKAHEAD == 2^L

BitsOf(value, n) == [i \in 1..n |-> (value \div 2^(n - i)) % 2]
ValueOf(bits)    == FoldLeft(LAMBDA v, b : 2 * v + b, 0, bits)

heatshrink_encoder_reset ==
    [state |-> "not_full", buffer |-> [i \in 0 .. 2 * WINDOW - 1 |-> 0], size |-> 0,
     scan |-> 0, length |-> 0, pos |-> 0, outgoing |-> <<>>,
     backlog |-> "none", finishing |-> FALSE]

heatshrink_decoder_reset ==
    [state |-> "empty", pending |-> <<>>, used |-> 0, bits |-> <<>>,
     window |-> [i \in 0 .. WINDOW - 1 |-> 0], head |-> 0, index |-> 0, count |-> 0]

Start(content, neighbour, at) ==
    /\ file = content /\ before = neighbour
    /\ phase = at /\ enc = heatshrink_encoder_reset /\ taken = 0 /\ code = <<>>
    /\ image = <<>> /\ p = 0 /\ fh = None
    /\ dec = heatshrink_decoder_reset /\ want = 0 /\ elen = 0 /\ got = <<>>

-----------------------------------------------------------------------------
(* mkespfsimage: compressHeatshrink feeds the encoder what it takes, says  *)
(* when that was all, and polls it until it wants more.                    *)
outsize == 2 * Len(file) - 1 - Len(code) \div B

can_take_byte == outsize > 0

Encoding(state) == phase = "encode" /\ enc.state = state

Encode(e) ==
    /\ enc' = e
    /\ UNCHANGED <<file, before, phase, taken, image, p, fh, dec, want, elen, got>>

heatshrink_encoder_finish(e) ==
    [e EXCEPT !.finishing = TRUE, !.state = IF @ = "not_full" THEN "search" ELSE @]

heatshrink_encoder_sink ==
    /\ Encoding("not_full") /\ taken < Len(file)
    /\ LET rem == WINDOW - enc.size
           n   == Min({rem, Len(file) - taken})
           e   == [enc EXCEPT
                   !.buffer = [i \in DOMAIN @ |->
                       IF i \in WINDOW + enc.size .. WINDOW + enc.size + n - 1
                       THEN file[taken + i - WINDOW - enc.size + 1] ELSE @[i]],
                   !.size = @ + n,
                   !.state = IF n = rem THEN "search" ELSE @]
       IN  /\ enc' = IF taken + n = Len(file) THEN heatshrink_encoder_finish(e) ELSE e
           /\ taken' = taken + n
    /\ UNCHANGED <<file, before, phase, code, image, p, fh, dec, want, elen, got>>

(* find_longest_match: the nearest of the longest, if it pays.             *)
start ==
    LET end == WINDOW + enc.scan
    IN  CASE enc.backlog = "none"    -> WINDOW
          [] enc.backlog = "partial" -> Max({end - WINDOW + 1, LOOKAHEAD})
          [] enc.backlog = "filled"  -> end - WINDOW + 1

MatchLength(from, end, maxlen) ==
    Max({0} \cup {n \in 1..maxlen : \A i \in 0 .. n - 1 : enc.buffer[from + i] = enc.buffer[end + i]})

find_longest_match ==
    LET end    == WINDOW + enc.scan
        maxlen == Min({LOOKAHEAD, enc.size - enc.scan})
        length == [from \in start .. end - 1 |-> MatchLength(from, end, maxlen)]
        best   == Max({0} \cup {length[from] : from \in DOMAIN length})
    IN  IF best < 3 THEN [length |-> 0, pos |-> 0]
        ELSE [length |-> best, pos |-> end - Max({from \in DOMAIN length : length[from] = best})]

Exhausted_window ==    \* mutant: a lookahead as large as the window
    enc.scan >= enc.size - (IF enc.finishing THEN 0 ELSE WINDOW)

Exhausted == enc.scan >= enc.size - (IF enc.finishing THEN 0 ELSE LOOKAHEAD)

st_step_search ==
    /\ Encoding("search")
    /\ Encode(IF Exhausted THEN [enc EXCEPT !.state = "save_backlog"]
              ELSE LET match == find_longest_match
                   IN  [enc EXCEPT !.state = "tag_bit", !.length = match.length, !.pos = match.pos,
                                   !.scan = IF match.length = 0 THEN @ + 1 ELSE @])
    /\ UNCHANGED code

add_tag_bit(tag) == code' = Append(code, tag)

st_yield_tag_bit ==
    /\ Encoding("tag_bit") /\ can_take_byte
    /\ add_tag_bit(IF enc.length = 0 THEN 1 ELSE 0)
    /\ Encode(IF enc.length = 0 THEN [enc EXCEPT !.state = "literal"]
              ELSE [enc EXCEPT !.state = "br_index", !.outgoing = BitsOf(enc.pos - 1, W)])

push_literal_byte == code' = code \o BitsOf(enc.buffer[WINDOW + enc.scan - 1], B)

st_yield_literal ==
    /\ Encoding("literal") /\ can_take_byte
    /\ push_literal_byte
    /\ Encode([enc EXCEPT !.state = "search"])

(* push_outgoing_bits: a byte of them at most, and then the next state.    *)
Pushed == Min({B, Len(enc.outgoing)})

Push(e) ==
    /\ code' = code \o SubSeq(enc.outgoing, 1, Pushed)
    /\ Encode(IF Pushed > 0 THEN [enc EXCEPT !.outgoing = SubSeq(@, Pushed + 1, Len(@))] ELSE e)

st_yield_br_index ==
    /\ Encoding("br_index") /\ can_take_byte
    /\ Push([enc EXCEPT !.state = "br_length", !.outgoing = BitsOf(enc.length - 1, L)])

st_yield_br_length ==
    /\ Encoding("br_length") /\ can_take_byte
    /\ Push([enc EXCEPT !.state = "search", !.scan = @ + enc.length, !.length = 0])

(* save_backlog: what was scanned moves below the offset of the input.     *)
Shifted ==
    [enc EXCEPT
        !.buffer = [i \in DOMAIN @ |->
            IF i < 2 * WINDOW - enc.scan THEN @[i + enc.scan] ELSE @[i]],
        !.size = @ - enc.scan, !.scan = 0,
        !.backlog = IF @ = "none" THEN "partial" ELSE "filled",
        !.state = "not_full"]

(* On the last round st_yield_literal has left no literal to be saved.     *)
st_save_backlog ==
    /\ Encoding("save_backlog")
    /\ Encode(IF enc.finishing THEN [enc EXCEPT !.state = "flush"] ELSE Shifted)
    /\ UNCHANGED code

(* When the output is full the byte is lost; handleFile then finds the     *)
(* code longer than the file.                                              *)
Padding == [i \in 1 .. (B - (Len(code) % B)) % B |-> 0]

st_flush_bit_buffer ==
    /\ Encoding("flush")
    /\ code' = IF can_take_byte THEN code \o Padding ELSE SubSeq(code, 1, Len(code) - (Len(code) % B))
    /\ enc' = heatshrink_encoder_reset    \* heatshrink_encoder_free
    /\ phase' = "store"
    /\ UNCHANGED <<file, before, taken, image, p, fh, dec, want, elen, got>>

compressHeatshrink ==
    \/ heatshrink_encoder_sink \/ st_step_search \/ st_yield_tag_bit \/ st_yield_literal
    \/ st_yield_br_index \/ st_yield_br_length \/ st_save_backlog \/ st_flush_bit_buffer

-----------------------------------------------------------------------------
(* handleFile and finishArchive: header, name and data, each padded to 32  *)
(* bits; a file the code would enlarge is stored as it is.                 *)
HEADER == 16

Aligned(n) == n + ((4 - (n % 4)) % 4)

Header(of, name, compression, comp, decomp) ==
    [of |-> of, nameLen |-> Aligned(name), compression |-> compression,
     fileLenComp |-> comp, fileLenDecomp |-> decomp, last |-> FALSE]

LastFile == [Header("none", 0, "none", 0, 0) EXCEPT !.last = TRUE]

csize == 1 + Len(code) \div B

handleFile ==
    LET first  == Header("before", before.name, "none", before.size, before.size)
        second == IF csize > Len(file) THEN Header("file", 2, "none", Len(file), Len(file))
                  ELSE Header("file", 2, "heatshrink", csize, Len(file))
        at(h)  == HEADER + h.nameLen + Aligned(h.fileLenComp)
    IN  [offset \in {0, at(first), at(first) + at(second)} |->
            IF offset = 0 THEN first ELSE IF offset = at(first) THEN second ELSE LastFile]

mkespfsimage ==
    /\ phase = "store"
    /\ image' = handleFile
    /\ phase' = "open"
    /\ UNCHANGED <<file, before, enc, taken, code, p, fh, dec, want, elen, got>>

-----------------------------------------------------------------------------

(* espFsOpen: from header to header, until the name is the one.            *)
Skip(h) == Aligned(HEADER + h.nameLen + h.fileLenComp)

espFsOpen ==
    /\ phase = "open"
    /\ IF p \notin DOMAIN image THEN phase' = "broken" /\ UNCHANGED <<p, fh>>    \* magic mismatch
       ELSE CASE image[p].of = "file" ->
                   /\ phase' = "read" /\ UNCHANGED p
                   /\ fh' = [header |-> image[p], posDecomp |-> 0,
                             posComp |-> IF image[p].compression = "none" THEN 0 ELSE 1]
              [] image[p].of = "before" -> p' = p + Skip(image[p]) /\ UNCHANGED <<phase, fh>>
    /\ UNCHANGED <<file, before, enc, taken, code, image, dec, want, elen, got>>

espFsClose == phase' = "closed" /\ dec' = heatshrink_decoder_reset

(* espFsRead of a file that is stored as it is.                            *)
Reads(len) ==
    LET n == Min({len, fh.header.fileLenComp - fh.posComp}) IN
    /\ got' = got \o SubSeq(file, fh.posComp + 1, fh.posComp + n)
    /\ fh' = [fh EXCEPT !.posDecomp = @ + n, !.posComp = @ + n]
    /\ IF n < len THEN espFsClose ELSE UNCHANGED <<phase, dec>>
    /\ UNCHANGED <<file, before, enc, taken, code, image, p, want, elen>>

ReadStored ==
    /\ phase = "read" /\ fh.header.compression = "none"
    /\ \E len \in Lengths : Reads(len)

(* ... and of a compressed one: nothing at its end, else a loop that sinks *)
(* and polls.  A short answer is the end of the file for the HTTP server.  *)
ReadAtEnd ==
    /\ phase = "read" /\ fh.header.compression = "heatshrink" /\ want = 0
    /\ fh.posDecomp = fh.header.fileLenDecomp
    /\ espFsClose
    /\ UNCHANGED <<file, before, enc, taken, code, image, p, fh, want, elen, got>>

ReadBegins ==
    /\ phase = "read" /\ fh.header.compression = "heatshrink" /\ want = 0
    /\ fh.posDecomp # fh.header.fileLenDecomp
    /\ want' \in Lengths
    /\ UNCHANGED <<file, before, phase, enc, taken, code, image, p, fh, dec, elen, got>>

CodeByte(i) == SubSeq(code, (i - 1) * B + 1, i * B)

(* Bytes that were used stay in the buffer until all of them were.         *)
heatshrink_decoder_sink(bytes) ==
    [dec EXCEPT !.pending = @ \o bytes,
                !.state = IF @ = "empty" /\ bytes # <<>> THEN "input_available" ELSE @]

ReadSinks ==
    /\ phase = "read" /\ want > 0
    /\ LET left == fh.header.fileLenComp - fh.posComp
           n    == Min({left, INPUT, INPUT - dec.used - Len(dec.pending)})
       IN  /\ elen' = left
           /\ dec' = heatshrink_decoder_sink([i \in 1..n |-> CodeByte(fh.posComp + i - 1)])
           /\ fh' = [fh EXCEPT !.posComp = @ + n]
    /\ phase' = "poll"
    /\ UNCHANGED <<file, before, enc, taken, code, image, p, want, got>>

-----------------------------------------------------------------------------
(* heatshrink_decoder_poll, one state after the other.                     *)
Polling(state) == phase = "poll" /\ dec.state = state

(* get_bits: all of the bits or none of them.                              *)
CanGet(n) == dec.pending # <<>> \/ Len(dec.bits) >= n

Pulled(n) == IF Len(dec.bits) >= n \/ dec.pending = <<>> THEN dec.bits ELSE dec.bits \o Head(dec.pending)

GotBits(n) == ValueOf(SubSeq(Pulled(n), 1, Min({n, Len(Pulled(n))})))

AfterBits(n) ==
    IF Pulled(n) = dec.bits THEN [dec EXCEPT !.bits = SubSeq(@, n + 1, Len(@))]
    ELSE [dec EXCEPT !.bits = SubSeq(Pulled(n), n + 1, Len(Pulled(n))),
                     !.pending = Tail(@),
                     !.used = IF Len(dec.pending) = 1 THEN 0 ELSE @ + 1]

Decode(d) ==
    /\ dec' = d
    /\ UNCHANGED <<file, before, phase, enc, taken, code, image, p, elen>>

NoOutput == UNCHANGED <<fh, want, got>>

Output(bytes) ==
    /\ got' = got \o bytes
    /\ want' = want - Len(bytes)
    /\ fh' = [fh EXCEPT !.posDecomp = @ + Len(bytes)]

st_input_available ==
    /\ Polling("input_available")
    /\ LET tag == GotBits(1)
       IN  Decode([AfterBits(1) EXCEPT !.index = 0,
                   !.state = IF tag = 1 THEN "literal" ELSE IF W > B THEN "index_msb" ELSE "index_lsb"])
    /\ NoOutput

decoder_yield_literal ==
    /\ Polling("literal") /\ want > 0 /\ CanGet(B)
    /\ LET c == GotBits(B)
       IN  /\ Decode([AfterBits(B) EXCEPT !.window[dec.head % WINDOW] = c, !.head = @ + 1,
                                          !.state = "check"])
           /\ Output(<<c>>)

st_backref_index_msb ==
    /\ Polling("index_msb") /\ CanGet(W - B)
    /\ Decode([AfterBits(W - B) EXCEPT !.index = GotBits(W - B) * 2^B, !.state = "index_lsb"])
    /\ NoOutput

st_backref_index_lsb ==
    /\ Polling("index_lsb") /\ CanGet(Min({W, B}))
    /\ Decode([AfterBits(Min({W, B})) EXCEPT !.index = dec.index + GotBits(Min({W, B})) + 1,
                                             !.state = "count_lsb"])
    /\ NoOutput

st_backref_count_lsb ==
    /\ Polling("count_lsb") /\ CanGet(L)
    /\ Decode([AfterBits(L) EXCEPT !.count = GotBits(L) + 1, !.state = "backref"])
    /\ NoOutput

(* The repeated section may repeat what it has just put out.               *)
Repeated(n) ==
    LET copy[i \in 1..n] ==
            LET back == dec.head + i - 1 - dec.index
            IN  IF i > dec.index THEN copy[i - dec.index] ELSE dec.window[back % WINDOW]
    IN  copy

Remaining_dropped(n) == 0    \* mutant: what found no room is forgotten

Remaining(n) == dec.count - n

st_yield_backref ==
    /\ Polling("backref") /\ want > 0
    /\ LET n    == Min({dec.count, want})
           copy == Repeated(n)
       IN  /\ Decode([dec EXCEPT
                   !.window = [i \in DOMAIN @ |->
                       LET j == ((i - dec.head) % WINDOW) + 1 IN IF j <= n THEN copy[j] ELSE @[i]],
                   !.head = @ + n, !.count = Remaining(n),
                   !.state = IF Remaining(n) = 0 THEN "check" ELSE "backref"])
           /\ Output([i \in 1..n |-> copy[i]])

st_check_for_input ==
    /\ Polling("check")
    /\ Decode([dec EXCEPT !.state = IF dec.pending = <<>> THEN "empty" ELSE "input_available"])
    /\ NoOutput

(* The poll returns when its state cannot advance.                         *)
Stuck ==
    CASE dec.state = "empty"     -> TRUE
      [] dec.state = "literal"   -> want = 0 \/ ~CanGet(B)
      [] dec.state = "index_msb" -> ~CanGet(W - B)
      [] dec.state = "index_lsb" -> ~CanGet(Min({W, B}))
      [] dec.state = "count_lsb" -> ~CanGet(L)
      [] dec.state = "backref"   -> want = 0
      [] OTHER                   -> FALSE

PollReturns ==
    /\ phase = "poll" /\ Stuck
    /\ IF elen = 0 /\ want > 0 THEN espFsClose ELSE phase' = "read" /\ UNCHANGED dec
    /\ want' = IF elen = 0 THEN 0 ELSE want
    /\ UNCHANGED <<file, before, enc, taken, code, image, p, fh, elen, got>>

espFsRead ==
    \/ ReadStored \/ ReadAtEnd \/ ReadBegins \/ ReadSinks \/ PollReturns
    \/ st_input_available \/ decoder_yield_literal \/ st_backref_index_msb \/ st_backref_index_lsb
    \/ st_backref_count_lsb \/ st_yield_backref \/ st_check_for_input

-----------------------------------------------------------------------------
(* What the HTTP server gets is the file: piece by piece never anything    *)
(* else, and all of it when a piece is short, which ends the answer; no    *)
(* buffer of the codecs is overrun on the way, and nothing that was looked *)
(* for is missed between the headers of the image.                         *)
RoundTrip ==
    /\ phase # "broken"
    /\ enc.size \in 0..WINDOW /\ enc.length \in 0..LOOKAHEAD
    /\ dec.used + Len(dec.pending) <= INPUT
    /\ IsPrefix(got, file)
    /\ phase = "closed" => got = file
=============================================================================
