-------------------------------- MODULE Ring --------------------------------
(***************************************************************************)
(* The ring buffer of ringbuffer.c.  Each index has a mirror bit that      *)
(* flips when the index passes the end of the buffer, so that equal        *)
(* indices mean empty or full.  A ring is a record rb; every operator is   *)
(* the C function of the same name without its prefix, from the record     *)
(* before the call to the record after.  A block that is copied in two     *)
(* parts at the end of the buffer is copied byte by byte around it here.   *)
(***************************************************************************)
EXTENDS Integers, SequencesExt

CONSTANTS
  buffer_size,
  ByteMod      \* bytes are told apart by their number, modulo ByteMod

ASSUME RingAssumption ==
  /\ buffer_size \in Nat \ {0}
  /\ ByteMod \in Nat /\ ByteMod > buffer_size

VARIABLES
  rb,          \* struct rt_ringbuffer
  content,     \* history: the bytes put in and neither taken out nor discarded
  number,      \* history: the number of the next byte
  spoilt       \* rt_ringbuffer_put_force has emptied a ring it meant to fill

ring == <<rb, content, number, spoilt>>

Byte == 0 .. (ByteMod - 1)

\* rt_ringbuffer_init
empty_ring ==
  [buffer |-> [i \in 0 .. (buffer_size - 1) |-> 0],
   read_mirror |-> FALSE, read_index |-> 0,
   write_mirror |-> FALSE, write_index |-> 0]

RingInit == rb = empty_ring /\ content = << >> /\ number = 0 /\ spoilt = FALSE

-----------------------------------------------------------------------------
status(r) ==
  CASE r.read_index # r.write_index -> "HALFFULL"
    [] r.read_index = r.write_index /\ r.read_mirror = r.write_mirror -> "EMPTY"
    [] OTHER -> "FULL"

data_len(r) ==
  CASE status(r) = "EMPTY" -> 0
    [] status(r) = "FULL" -> buffer_size
    [] OTHER -> IF r.write_index > r.read_index
                THEN r.write_index - r.read_index
                ELSE buffer_size - (r.read_index - r.write_index)

space_len(r) == buffer_size - data_len(r)

\* The bytes of s are copied behind the write index, around the end.
copied(r, s) ==
  [i \in 0 .. (buffer_size - 1) |->
     LET j == (i - r.write_index) % buffer_size
     IN IF j < Len(s) THEN s[j + 1] ELSE r.buffer[i]]

\* The write index, and the read index, after n bytes: the mirror bit flips at
\* the end of the buffer.
written(r, n) ==
  [r EXCEPT !.write_index = (@ + n) % buffer_size,
            !.write_mirror = IF r.write_index + n >= buffer_size THEN ~@ ELSE @]

\* Mutant: the mirror bit stays.
ReadUnflipped(r, n) == [r EXCEPT !.read_index = (@ + n) % buffer_size]

read(r, n) ==
  [r EXCEPT !.read_index = (@ + n) % buffer_size,
            !.read_mirror = IF r.read_index + n >= buffer_size THEN ~@ ELSE @]

\* What does not fit is dropped.
put(r, s) ==
  LET n == Min({Len(s), space_len(r)})
  IN written([r EXCEPT !.buffer = copied(r, SubSeq(s, 1, n))], n)

\* The old data is overwritten; of more than the buffer holds the end is kept.
put_force(r, s) ==
  LET n == Min({Len(s), buffer_size})
      w == written([r EXCEPT !.buffer =
                      copied(r, SubSeq(s, Len(s) - n + 1, Len(s)))], n)
      flips == r.write_index + n >= buffer_size
  IN IF n > space_len(r)
     THEN [w EXCEPT !.read_index = w.write_index,
                    !.read_mirror = IF flips THEN ~@ ELSE @]
     ELSE w

\* rt_ringbuffer_putchar_force: one byte, which may take the place of the oldest.
putchar_force(r, ch) ==
  LET w == written([r EXCEPT !.buffer[r.write_index] = ch], 1)
  IN IF status(r) = "FULL"
     THEN [w EXCEPT !.read_index = w.write_index,
                    !.read_mirror = IF w.write_index = 0 THEN ~@ ELSE @]
     ELSE w

\* The bytes that rt_ringbuffer_get finds, as many as there are.
get(r, n) ==
  [i \in 1 .. Min({n, data_len(r)}) |->
     r.buffer[(r.read_index + i - 1) % buffer_size]]

-----------------------------------------------------------------------------
\* The next n bytes.
message(n) == [i \in 1 .. n |-> (number + i - 1) % ByteMod]
Numbered(n) == number' = (number + n) % ByteMod

latest(s) == SubSeq(s, Len(s) - Min({Len(s), buffer_size}) + 1, Len(s))

\* rt_ringbuffer_put, and rt_ringbuffer_putchar, which is a put of one byte.
Put(n) ==
  LET fits == Min({n, space_len(rb)}) IN
  /\ rb' = put(rb, message(n))
  /\ content' = content \o message(fits)
  /\ Numbered(fits)
  /\ UNCHANGED spoilt

PutForce(n) ==
  /\ rb' = put_force(rb, message(n))
  /\ content' = latest(content \o message(n))
  /\ spoilt' = (n > space_len(rb) /\ status(rb') = "EMPTY")
  /\ Numbered(n)

PutcharForce ==
  /\ rb' = putchar_force(rb, Head(message(1)))
  /\ content' = latest(content \o message(1))
  /\ Numbered(1)
  /\ UNCHANGED spoilt

\* rt_ringbuffer_get, and rt_ringbuffer_getchar, which is a get of one byte.
Get(n) ==
  LET got == get(rb, n) IN
  /\ rb' = read(rb, Len(got))
  /\ content' = SubSeq(content, Len(got) + 1, Len(content))
  /\ UNCHANGED <<number, spoilt>>

Reset ==
  /\ rb' = [empty_ring EXCEPT !.buffer = rb.buffer]
  /\ content' = << >>
  /\ UNCHANGED <<number, spoilt>>

\* Nothing is said of a ring that has lost its bytes.
RingNext ==
  /\ ~spoilt
  /\ \/ \E n \in 0 .. (buffer_size + 1) : Put(n) \/ PutForce(n) \/ Get(n)
     \/ PutcharForce
     \/ Reset

RingSpec == RingInit /\ [][RingNext]_ring

-----------------------------------------------------------------------------
\* The ring holds the bytes that were put in, in their order, whatever calls came
\* before: wrapping, filling to the last byte, overwriting and emptying keep the
\* indices and mirror bits in step.  (Up to a rt_ringbuffer_put_force that empties
\* the ring, see ForceKeepsLatest.)
HoldsContent ==
  /\ rb.buffer \in [0 .. (buffer_size - 1) -> Byte]
  /\ ~spoilt => get(rb, buffer_size) = content

\* "When the buffer is full, it will discard the old data": and no other.
ForceKeepsLatest == get(rb, buffer_size) = content
=============================================================================
