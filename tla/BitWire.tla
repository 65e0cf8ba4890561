------------------------------- MODULE BitWire -------------------------------
(***************************************************************************)
(* The bit packer (ecs_serializer_t, ecs_deserializer_t) and the codec of  *)
(* masks on top of it: a sender writes a few items, flushes, and a receiver*)
(* reads items of the same kinds and sizes in the same order.              *)
(*                                                                         *)
(* A bit string is a sequence, lowest bit first.  Its bits are 0 and 1, or *)
(* a greater number that stands for a bit of either value, each such bit   *)
(* of the stream for itself: no branch of the packer looks at a payload.   *)
(***************************************************************************)
EXTENDS Naturals, FiniteSets, SequencesExt

CONSTANTS Word, Byte,  \* bits of a word (64) and of a byte (8)
          CountBits,   \* the field for the number of positions (3)
          IndexBits,   \* the field for a position (6)
          Masks,       \* the masks that are sent
          MaxItems,    \* bound: items in a stream
          MaxBytes,    \* bound: bytes in one item
          Words        \* words in the buffer (num_words)

ASSUME WordAssumption ==
  /\ Word \in Nat \ {0} /\ Byte \in Nat \ {0} /\ Word % Byte = 0
  /\ 2 ^ IndexBits = Word
ASSUME MaskAssumption == Masks \subseteq SUBSET (0..Word - 1)

VARIABLES w,     \* the writer: words finished, scratch, bits written
          r,     \* the reader: words taken, scratch, bits read, last output
          sent,  \* history: the items written
          got,   \* the items read
          phase

vars == <<w, r, sent, got, phase>>

PerWord == Word \div Byte

Init ==
  /\ w = [words |-> <<>>, scratch |-> <<>>, written |-> 0]
  /\ r = [word |-> 0, scratch |-> <<>>, read |-> 0, out |-> <<>>]
  /\ sent = <<>> /\ got = <<>>
  /\ phase = "write"

Zeros(n) == [x \in 1..n |-> 0]

(* The bits from the end of a stream to the next boundary of a byte. *)
AlignBits(n) == (Byte - (n % Byte)) % Byte

(* The bytes up to the boundary of a word, if there are so many. *)
HeadBytes(n, count) ==
  LET head == (PerWord - ((n % Word) \div Byte)) % PerWord
  IN IF head > count THEN count ELSE head

-----------------------------------------------------------------------------
(* The writer *)

(* ecs_serializer_write_bits: a full word goes out at once. *)
WriteBits(s, bits) ==
  LET all == s.scratch \o bits
  IN IF Len(all) >= Word
     THEN [words |-> Append(s.words, SubSeq(all, 1, Word)),
           scratch |-> SubSeq(all, Word + 1, Len(all)),
           written |-> s.written + Len(bits)]
     ELSE [s EXCEPT !.scratch = all, !.written = @ + Len(bits)]

WriteAll(s, fields) == FoldLeft(WriteBits, s, fields)

(* The scratch goes out, whatever it holds; no bit counts as written. *)
FlushBits(s) ==
  IF s.scratch = <<>> THEN s
  ELSE [s EXCEPT !.words = Append(@, s.scratch \o Zeros(Word - Len(s.scratch))),
                 !.scratch = <<>>]

(* Mutant: a stream that is at a boundary is padded, too. *)
WriteAlign_Always(s) == WriteBits(s, Zeros(Byte - (s.written % Byte)))

WriteAlign(s) ==
  IF AlignBits(s.written) = 0 THEN s ELSE WriteBits(s, Zeros(AlignBits(s.written)))

(* ecs_serializer_write_bytes: single bytes to the boundary of a word, then
   whole words by memcpy, then single bytes. *)
WriteBytes(s, bytes) ==
  LET aligned == WriteAlign(s)
      head == HeadBytes(aligned.written, Len(bytes))
      n == (Len(bytes) - head) \div PerWord
      Copied(x) == FlattenSeq(SubSeq(bytes, head + (x - 1) * PerWord + 1,
                                            head + x * PerWord))
      first == WriteAll(aligned, SubSeq(bytes, 1, head))
      flushed == FlushBits(first)
      copied == [flushed EXCEPT !.words = @ \o [x \in 1..n |-> Copied(x)],
                                !.written = @ + n * Word]
  IN IF head = Len(bytes) THEN first
     ELSE WriteAll(copied, SubSeq(bytes, head + n * PerWord + 1, Len(bytes)))

-----------------------------------------------------------------------------
(* The reader, on the words that were received *)

(* ecs_deserializer_read_bits: the next word is taken when it is needed. *)
ReadBits(s, n) ==
  LET have == Len(s.scratch)
      next == w.words[s.word + 1]
  IN IF have < n
     THEN [word |-> s.word + 1, read |-> s.read + n,
           out |-> s.scratch \o SubSeq(next, 1, n - have),
           scratch |-> SubSeq(next, n - have + 1, Word)]
     ELSE [s EXCEPT !.read = @ + n, !.out = SubSeq(s.scratch, 1, n),
                    !.scratch = SubSeq(@, n + 1, have)]

ReadAlign(s) == IF AlignBits(s.read) = 0 THEN s ELSE ReadBits(s, AlignBits(s.read))

(* n fields of the same size; `out' holds them one after the other. *)
ReadFields(s, n, size) ==
  FoldLeft(LAMBDA t, x : [ReadBits(t, size) EXCEPT !.out = t.out \o @],
           [s EXCEPT !.out = <<>>], [x \in 1..n |-> x])

(* Mutant: the copied words are taken, but not passed over. *)
CopyWords_NotTaken(s, n) ==
  [s EXCEPT !.out = @ \o FlattenSeq(SubSeq(w.words, s.word + 1, s.word + n)),
            !.read = @ + n * Word]

(* The memcpy of n whole words, past the scratch. *)
CopyWords(s, n) ==
  [s EXCEPT !.out = @ \o FlattenSeq(SubSeq(w.words, s.word + 1, s.word + n)),
            !.read = @ + n * Word, !.word = @ + n,
            !.scratch = IF n > 0 THEN <<>> ELSE @]

(* ecs_deserializer_read_bytes, the mirror of the writer. *)
ReadBytes(s, count) ==
  LET aligned == ReadAlign(s)
      head == HeadBytes(aligned.read, count)
      n == (count - head) \div PerWord
      copied == CopyWords(ReadFields(aligned, head, Byte), n)
      last == ReadFields(copied, count - head - n * PerWord, Byte)
  IN [last EXCEPT !.out = copied.out \o @]

-----------------------------------------------------------------------------
(* The codec of masks *)

Full == 0..Word - 1

Bits(number, n) == [x \in 1..n |-> (number \div 2 ^ (x - 1)) % 2]

Number(bits) == FoldLeft(LAMBDA sum, x : 2 * sum + x, 0, Reverse(bits))

RawMask(m) == [x \in 1..Word |-> IF x - 1 \in m THEN 1 ELSE 0]

(* The set or the clear positions, whichever are fewer. *)
Inverted(m) == Cardinality(Full \ m) < Cardinality(m)
Listed(m) == IF Inverted(m) THEN Full \ m ELSE m

(* ecs_serialize_mask: what it hands to write_bits, call by call. *)
MaskFields(m) ==
  IF m = Full THEN <<<<1, 1>>>>
  ELSE IF Cardinality(Listed(m)) <= 2 ^ CountBits
  THEN <<<<1, 0>>, Bits(IF Inverted(m) THEN 1 ELSE 0, 1),
         Bits(Cardinality(Listed(m)), CountBits)>>
       \o [x \in 1..Cardinality(Listed(m)) |->
             Bits(SetToSortSeq(Listed(m), <)[x], IndexBits)]
  ELSE <<<<0>>, RawMask(m)>>

(* write_bits asserts that the count fits its field; it does not when it is
   2 ^ CountBits, and the program stops. *)
Writable(m) == m = Full \/ Cardinality(Listed(m)) # 2 ^ CountBits

(* ecs_deserialize_mask; `out' is the raw mask. *)
ReadMask(s) ==
  LET tag == ReadBits(s, 1)
      sub == ReadBits(tag, 1)
      polarity == ReadBits(sub, 1)
      count == ReadBits(polarity, CountBits)
      listed == ReadFields(count, Number(count.out), IndexBits)
      positions == {Number(SubSeq(listed.out, (x - 1) * IndexBits + 1, x * IndexBits)) :
                      x \in 1..Number(count.out)}
  IN IF tag.out = <<0>> THEN ReadBits(tag, Word)
     ELSE IF sub.out = <<1>> THEN [sub EXCEPT !.out = RawMask(Full)]
     ELSE [listed EXCEPT !.out = RawMask(IF polarity.out = <<1>> THEN Full \ positions
                                                                 ELSE positions)]

-----------------------------------------------------------------------------
(* One message: written, flushed, read *)

(* A bit of the item being written, unlike every other of the stream. *)
Payload(n) == [x \in 1..n |-> 1 + Len(sent) * Word * (MaxBytes + 1) + x]

(* The writer asserts that the bits fit the buffer. *)
Sends(after, item) ==
  /\ phase = "write" /\ Len(sent) < MaxItems
  /\ after.written <= Words * Word
  /\ w' = after /\ sent' = Append(sent, item)
  /\ UNCHANGED <<r, got, phase>>

PutBits(n) ==
  Sends(WriteBits(w, Payload(n)), [kind |-> "bits", bits |-> Payload(n)])

PutBytes(n) ==
  LET bytes == [x \in 1..n |-> SubSeq(Payload(n * Byte), (x - 1) * Byte + 1, x * Byte)]
  IN Sends(WriteBytes(w, bytes), [kind |-> "bytes", bits |-> Payload(n * Byte)])

PutMask(m) ==
  /\ Writable(m)
  /\ Sends(WriteAll(w, MaskFields(m)), [kind |-> "mask", bits |-> RawMask(m)])

Flush ==
  /\ phase = "write"
  /\ phase' = "read" /\ w' = FlushBits(w)
  /\ UNCHANGED <<r, sent, got>>

Get ==
  LET item == sent[Len(got) + 1]
      n == Len(item.bits)
      after == CASE item.kind = "bits" -> ReadBits(r, n)
                 [] item.kind = "bytes" -> ReadBytes(r, n \div Byte)
                 [] item.kind = "mask" -> ReadMask(r)
  IN /\ phase = "read" /\ Len(got) < Len(sent)
     /\ r' = after /\ got' = Append(got, [item EXCEPT !.bits = after.out])
     /\ UNCHANGED <<w, sent, phase>>

Next ==
  \/ \E n \in 1..Word : PutBits(n)
  \/ \E n \in 0..MaxBytes : PutBytes(n)
  \/ \E m \in Masks : PutMask(m)
  \/ Flush \/ Get

Spec == Init /\ [][Next]_vars

-----------------------------------------------------------------------------
(* The bits of a stream after one more item. *)
Laid(stream, item) ==
  IF item.kind = "bytes" THEN stream \o Zeros(AlignBits(Len(stream))) \o item.bits
  ELSE IF item.kind = "bits" THEN stream \o item.bits
  ELSE LET m == {x \in Full : item.bits[x + 1] = 1} IN stream \o FlattenSeq(MaskFields(m))

(* The stream is one string of bits: the items one after the other, bytes at
   the next boundary of a byte.  It does not depend on the path a call took,
   through the scratch, around it by whole words, or split over two words. *)
OneStream ==
  phase = "write" =>
    /\ FlattenSeq(w.words) \o w.scratch = FoldLeft(Laid, <<>>, sent)
    /\ w.written = Len(FoldLeft(Laid, <<>>, sent))

(* What is read is what was written, item by item: reader and writer find the
   boundaries of bytes and words in the same places, the reader's word is the
   right one after whole words were copied, no mask is taken for another, and
   the reader is at the end of the stream with the last item. *)
ReadsBack ==
  /\ got = SubSeq(sent, 1, Len(got))
  /\ phase = "read" /\ got = sent => r.read = w.written
=============================================================================
