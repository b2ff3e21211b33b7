------------------------------ MODULE CaptiveDns ------------------------------
(***************************************************************************)
(* The captive DNS server (util/captdns.c): every question is answered     *)
(* with the address of the soft-AP.  A packet is a sequence of bytes; the  *)
(* twelve of its header are kept apart, as a record.                       *)
(*                                                                         *)
(* A name need not end: then the server never returns (Endless).  Neither  *)
(* need a reply fit its buffer: then it overwrites what lies behind it     *)
(* (Overrun), and what follows is not modelled.                            *)
(***************************************************************************)
EXTENDS Integers, SequencesExt

CONSTANT DNS_LEN    \* bytes of the buffers for a packet, a name and a reply: 512

HEADERLEN == 12
DOT       == 46

QTYPE_A   == 1
QTYPE_NS  == 2
QTYPE_URI == 256

NoName  == [ends |-> TRUE,  name |-> <<>>, end |-> -1]    \* NULL
Endless == [ends |-> FALSE, name |-> <<>>, end |-> -1]

(* The byte at an offset in the packet; behind its end the buffer is zero. *)
ByteAt(body, offset) ==
    IF offset - HEADERLEN \in 0 .. Len(body) - 1 THEN body[offset - HEADERLEN + 1] ELSE 0

WordAt(body, offset) == 256 * ByteAt(body, offset) + ByteAt(body, offset + 1)

(* labelToStr: labels and pointers until a byte of zero, which is looked   *)
(* for behind the first label only, so that the name of the root is read   *)
(* one byte too far.  A pointer moves on to the labels it points to, and a *)
(* byte that is neither a length nor a pointer stays where it is; the      *)
(* field behind the name begins after the pointer that was followed last,  *)
(* or after the zero.  Of a label only the bytes that are copied are       *)
(* skipped.  To be at a byte again with as much of the name as before is   *)
(* to be there for ever.                                                   *)
EndPtr_target(pointer, at, endPtr) == endPtr    \* mutant: goes on behind the target

EndPtr(pointer, at, endPtr) == IF pointer THEN at + 2 ELSE endPtr

Dotted(res) == IF res = <<>> \/ Len(res) = DNS_LEN THEN res ELSE Append(res, DOT)

RECURSIVE Labels(_, _, _, _, _)
Labels(body, at, res, endPtr, been) ==
    LET byte    == ByteAt(body, at)
        label   == byte < 64
        pointer == byte >= 192
        copied  == Min({byte, DNS_LEN - Len(Dotted(res))})
        next    == CASE label -> at + 1 + copied
                     [] pointer -> WordAt(body, at) % 16384
                     [] OTHER -> at
        str     == IF label THEN Dotted(res) \o [i \in 1..copied |-> ByteAt(body, at + i)] ELSE res
        end     == EndPtr(pointer, at, endPtr)
    IN  IF next > HEADERLEN + Len(body) THEN NoName
        ELSE IF ByteAt(body, next) = 0
             THEN [ends |-> TRUE, name |-> str, end |-> IF end = 0 THEN next + 1 ELSE end]
        ELSE IF <<next, Len(str)>> \in been THEN Endless
        ELSE Labels(body, next, str, end, been \cup {<<next, Len(str)>>})

labelToStr(body, labelPtr) == Labels(body, labelPtr, <<>>, 0, {<<labelPtr, 0>>})

(* strToLabel: every dot becomes the length of the part behind it.         *)
strToLabel(str) ==
    LET parts == [i \in {0} \cup {j \in 1..Len(str) : str[j] = DOT} |->
                     Min({j \in i + 1..Len(str) : str[j] = DOT} \cup {Len(str) + 1}) - i - 1]
    IN  [i \in 1 .. Len(str) + 2 |->
            IF i = Len(str) + 2 THEN 0 ELSE IF i - 1 \in DOMAIN parts THEN parts[i - 1] ELSE str[i - 1]]

(* What is sent in answer to a type of question.                           *)
Rdata(type) ==
    CASE type = QTYPE_A   -> "address of the soft-AP"
      [] type = QTYPE_NS  -> "ns"
      [] type = QTYPE_URI -> "http://esp.nonet"

Record(found, type) == [label |-> strToLabel(found.name), type |-> type, rdata |-> Rdata(type)]

(* Bytes of a record: the label, ten of its footer, and the data.          *)
RecordSize(record) == Len(record.label) + 10 + (IF record.type = QTYPE_URI THEN 20 ELSE 4)

ReplySize(body, records) ==
    HEADERLEN + Len(body) + FoldSeq(LAMBDA record, sum : RecordSize(record) + sum, 0, records)

(* The questions one after the other, each from where the last one ended.  *)
RECURSIVE QuestionsRead(_, _, _)
QuestionsRead(body, n, s) ==
    LET found   == labelToStr(body, s.p)
        type    == WordAt(body, found.end)
        records == IF type \in {QTYPE_A, QTYPE_NS, QTYPE_URI}
                   THEN Append(s.records, Record(found, type)) ELSE s.records
    IN  CASE n = 0 -> s
          [] n > 0 /\ found = Endless -> [s EXCEPT !.how = "endless"]
          [] n > 0 /\ found = NoName -> [s EXCEPT !.how = "refused"]
          [] n > 0 /\ found \notin {Endless, NoName} ->
               IF Len(found.name) = DNS_LEN \/ ReplySize(body, records) > DNS_LEN
               THEN [s EXCEPT !.how = "overrun"]
               ELSE QuestionsRead(body, n - 1, [s EXCEPT !.p = found.end + 4, !.records = records])

NoReply == [sent |-> FALSE]

Unread == [p |-> HEADERLEN, records |-> <<>>, how |-> "read"]

(* Replies, what is truncated and what is longer than a packet may be are  *)
(* not read at all.                                                        *)
Dropped(hdr, body) ==
    \/ HEADERLEN + Len(body) > DNS_LEN
    \/ hdr.ancount # 0 \/ hdr.nscount # 0 \/ hdr.arcount # 0 \/ hdr.tc

(* captdnsRecv: how it ends, and what it sends.                            *)
captdnsRecv(hdr, body) ==
    LET s == IF Dropped(hdr, body) THEN [Unread EXCEPT !.how = "refused"]
             ELSE QuestionsRead(body, hdr.qdcount, Unread)
    IN  [how   |-> s.how,
         reply |-> IF s.how # "read" THEN NoReply
                   ELSE [sent |-> TRUE, qr |-> TRUE, id |-> hdr.id, qdcount |-> hdr.qdcount,
                         ancount |-> Len(s.records), body |-> body, records |-> s.records]]
=============================================================================
