-------------------------------- MODULE Stdio --------------------------------
(***************************************************************************)
(* rt/rt_stdio.c: one FILE of the compiler's own C runtime on a disk file. *)
(* A stream has one buffer and a direction that says what the buffer holds *)
(* now, pending writes or read-ahead; every operation that crosses over    *)
(* flushes or discards.  The functions of the file are operators that map  *)
(* a stream to the stream they leave behind; an action is one library call *)
(* by the (single-threaded) program, or an event of the device.            *)
(*                                                                         *)
(* The state s is the FILE and the handle under it:                        *)
(*   data, at, up    the file, the handle's offset, does the device work   *)
(*   mode ... ungot  the fields of struct _C99MTLC_FILE (len = Len(buf))   *)
(***************************************************************************)
EXTENDS Integers, Sequences

CONSTANTS Byte, Zero, Newline, Payload, Offset, Content0,
          BufSz,     \* RT_BUFSZ, the capacity of a stream's buffer
          Quota      \* bound: the device holds files of at most Quota bytes

ASSUME ByteAssumption == Byte \subseteq Nat /\ Zero \in Byte /\ Newline \in Byte
ASSUME SizeAssumption == BufSz \in Nat \ {0} /\ Quota \in Nat
ASSUME CallAssumption == Payload \subseteq Seq(Byte) /\ Offset \subseteq Int
ASSUME FileAssumption ==
  Content0 \subseteq {c \in Seq(Byte) : Len(c) <= Quota}

None == -1
F_READ == "read"    F_WRITE == "write"    F_APPEND == "append"

VARIABLES s,         \* the stream and its handle
          open,      \* between fopen and the end of the stream
          ret        \* what the last call returned

vars == <<s, open, ret>>

Lesser(a, b) == IF a < b THEN a ELSE b
Larger(a, b) == IF a > b THEN a ELSE b

(* ---- the handle ---- *)

Overlay(c, at, p) ==
  IF p = << >> THEN c
  ELSE [i \in 1 .. Larger(Len(c), at + Len(p)) |->
          IF at < i /\ i <= at + Len(p) THEN p[i - at]
          ELSE IF i <= Len(c) THEN c[i] ELSE Zero]

\* How many of n bytes WriteFile takes, and the bytes ReadFile delivers.
Taken(t, n)     == IF t.up THEN Lesser(n, Larger(0, Quota - t.at)) ELSE 0
Delivered(t, n) ==
  IF t.up THEN SubSeq(t.data, t.at + 1, Lesser(t.at + n, Len(t.data))) ELSE << >>

(* ---- the write side ---- *)

write_ok(t, p) == Taken(t, Len(p)) = Len(p)
rt_raw_write(t, p) ==
  LET n == Taken(t, Len(p)) IN
  [t EXCEPT !.data = Overlay(@, t.at, SubSeq(p, 1, n)),
            !.at   = @ + n,
            !.err  = @ \/ n < Len(p)]

flush_ok(t) == t.dir = "out" => write_ok(t, t.buf)
rt_flush_write(t) ==
  IF t.dir # "out" THEN t
  ELSE [rt_raw_write(t, t.buf) EXCEPT
          !.buf = << >>,
          !.dir = IF write_ok(t, t.buf) THEN "idle" ELSE "out"]

Unread(t) == (Len(t.buf) - t.pos) + (IF t.ungot = None THEN 0 ELSE 1)

\* Leaving read mode forgets the read-ahead and rewinds the handle over it;
\* SetFilePointerEx refuses a negative offset and nobody looks.
rt_drop_read_keeps_pos(t) ==
  IF t.dir # "in" THEN t ELSE [t EXCEPT !.ungot = None, !.dir = "idle"]
rt_drop_read(t) ==
  IF t.dir # "in" THEN t
  ELSE [t EXCEPT !.at = IF @ >= Unread(t) THEN @ - Unread(t) ELSE @,
                 !.buf = << >>, !.pos = 0, !.ungot = None, !.dir = "idle"]

\* The length of the longest prefix of p that ends in a newline.
ThroughNewline(p) ==
  LET nl == {i \in 1 .. Len(p) : p[i] = Newline}
  IN  IF nl = {} THEN 0 ELSE CHOOSE i \in nl : \A j \in nl : j <= i

\* Of `held' pending bytes followed by n more, how many leave a full buffer in
\* one call, and how many a line buffer does: all through the last newline
\* (byte k of the n), and then, like the byte-at-a-time loop it is, a buffer's
\* worth whenever a byte finds it full.
EmittedFull_overfills(held, n, cap) == IF n >= cap THEN held + n ELSE 0
EmittedFull(held, n, cap) ==
  IF n >= cap THEN held + n ELSE IF held + n > cap THEN held ELSE 0
EmittedLine(held, n, cap, k) ==
  LET sent == IF k = 0 THEN 0 ELSE held + k
      rest == held + n - sent
  IN IF rest <= cap THEN sent ELSE (held + n - 1) - ((rest - 1) % cap)
Emitted(t, p) ==
  IF t.bufmode = "line" THEN EmittedLine(Len(t.buf), Len(p), t.cap, ThroughNewline(p))
  ELSE EmittedFull(Len(t.buf), Len(p), t.cap)

\* The buffered branches of rt_putbytes, on a stream already turned to write.
put_ok(t, p) ==
  IF t.bufmode = "none" \/ t.cap = 0 THEN write_ok(t, p)
  ELSE write_ok(t, SubSeq(t.buf \o p, 1, Emitted(t, p)))
put_turned(t, p) ==
  IF t.bufmode = "none" \/ t.cap = 0 THEN rt_raw_write(t, p)
  ELSE LET all == t.buf \o p
           e   == Emitted(t, p)
       IN [rt_raw_write(t, SubSeq(all, 1, e)) EXCEPT
             !.buf = IF put_ok(t, p) THEN SubSeq(all, e + 1, Len(all)) ELSE << >>]

Turned(t) == [rt_drop_read(t) EXCEPT !.dir = "out"]

rt_putbytes_unchecked(t, p) == put_turned(Turned(t), p)
rt_putbytes(t, p) ==
  IF F_WRITE \notin t.mode THEN [t EXCEPT !.err = TRUE]
  ELSE put_turned(Turned(t), p)
putbytes_ok(t, p) == F_WRITE \in t.mode /\ put_ok(Turned(t), p)

(* ---- the read side ---- *)

rt_fill(t) ==
  LET f   == rt_flush_write(t)
      got == Delivered(f, f.cap)
  IN IF ~flush_ok(t) THEN f
     ELSE IF f.cap = 0 THEN [f EXCEPT !.dir = "in", !.err = TRUE]
     ELSE [f EXCEPT !.dir = "in", !.buf = got, !.pos = 0,
                    !.at  = @ + Len(got),
                    !.eof = @ \/ got = << >>,
                    !.err = @ \/ ~f.up]

needs_fill(t) == t.dir # "in" \/ t.pos >= Len(t.buf)
filled(t)     == IF needs_fill(t) THEN rt_fill(t) ELSE t
fill_ok(t)    == filled(t).dir = "in" /\ filled(t).pos < Len(filled(t).buf)

rt_getbyte(t) ==
  IF F_READ \notin t.mode THEN [t EXCEPT !.err = TRUE]
  ELSE IF t.ungot # None THEN [t EXCEPT !.ungot = None]
  ELSE IF fill_ok(t) THEN [filled(t) EXCEPT !.pos = @ + 1]
  ELSE filled(t)
got_byte(t) ==
  IF F_READ \notin t.mode THEN << >>
  ELSE IF t.ungot # None THEN <<t.ungot>>
  ELSE IF fill_ok(t) THEN <<filled(t).buf[filled(t).pos + 1]>> ELSE << >>

\* What fread does once the read-ahead is used up and `left' bytes are still
\* wanted: at least a buffer's worth goes straight to the caller, less comes
\* through a refill, and the loop ends when nothing more is delivered.
Direct(left) == left >= BufSz
Next_chunk(t, left) == Delivered(t, IF Direct(left) THEN left ELSE t.cap)
read_on(t, left) ==
  LET got    == Next_chunk(t, left)
      short  == Len(got) < left
      refill == ~Direct(left) \/ (got # << >> /\ left - Len(got) < BufSz)
      nobuf  == t.cap = 0 /\ refill
      keep   == ~Direct(left) /\ ~short
  IN [t EXCEPT !.dir = "in",
               !.at  = @ + Len(got),
               !.buf = IF keep THEN got ELSE << >>,
               !.pos = IF keep THEN left ELSE 0,
               !.eof = @ \/ (short /\ ~nobuf),
               !.err = @ \/ (short /\ (nobuf \/ ~t.up))]

\* fread of `want' bytes: the pushed-back byte, the read-ahead, then the rest.
Pushed(t)     == IF t.ungot = None THEN << >> ELSE <<t.ungot>>
unpushed(t)   == rt_flush_write([t EXCEPT !.ungot = None])
Ahead(u)      == IF u.dir = "in" THEN SubSeq(u.buf, u.pos + 1, Len(u.buf)) ELSE << >>
Drain(t, want) == Lesser(Len(Ahead(unpushed(t))), want - Len(Pushed(t)))
Left(t, want)  == want - Len(Pushed(t)) - Drain(t, want)
drained(t, want) == [unpushed(t) EXCEPT !.pos = @ + Drain(t, want)]

fread(t, want) ==
  IF want = 0 THEN t
  ELSE IF F_READ \notin t.mode THEN [t EXCEPT !.err = TRUE]
  ELSE IF ~flush_ok(t) \/ Left(t, want) = 0 THEN drained(t, want)
  ELSE read_on(drained(t, want), Left(t, want))

fread_bytes(t, want) ==
  IF want = 0 \/ F_READ \notin t.mode THEN << >>
  ELSE IF ~flush_ok(t) THEN Pushed(t)
  ELSE LET rest == IF Left(t, want) = 0 THEN << >>
                   ELSE Next_chunk(drained(t, want), Left(t, want))
       IN Pushed(t) \o SubSeq(Ahead(unpushed(t)), 1, Drain(t, want))
            \o SubSeq(rest, 1, Lesser(Len(rest), Left(t, want)))

(* ---- positioning ---- *)

\* A seek relative to the current position is relative to what the caller has
\* consumed, not to where the read-ahead left the handle.
Adjusted_handle(t, off, whence) == off
Adjusted(t, off, whence) ==
  IF whence = "CUR" /\ t.dir = "in" THEN off - Unread(t) ELSE off
Origin(t, whence) == CASE whence = "SET" -> 0
                       [] whence = "CUR" -> t.at
                       [] whence = "END" -> Len(t.data)
seek_target(t, off, whence) ==
  LET u == rt_flush_write(t) IN Origin(u, whence) + Adjusted(u, off, whence)
seek_ok(t, off, whence) == flush_ok(t) /\ seek_target(t, off, whence) >= 0

fseek(t, off, whence) ==
  IF ~flush_ok(t) THEN rt_flush_write(t)
  ELSE [rt_flush_write(t) EXCEPT
          !.buf = << >>, !.pos = 0, !.ungot = None, !.dir = "idle", !.eof = FALSE,
          !.at = IF seek_ok(t, off, whence) THEN seek_target(t, off, whence) ELSE @]

ftell(t) == CASE t.dir = "in"   -> t.at - Unread(t)
              [] t.dir = "out"  -> t.at + Len(t.buf)
              [] t.dir = "idle" -> t.at

(* ---- the library calls ---- *)

Ok(op, bytes)   == [op |-> op, ok |-> TRUE, bytes |-> bytes]
Fail(op, bytes) == [op |-> op, ok |-> FALSE, bytes |-> bytes]
Result(op, ok, bytes) == ret' = [op |-> op, ok |-> ok, bytes |-> bytes]

\* The first letter of fopen's mode, and whether a `+' follows.
ModeBits(c, plus) ==
  (IF c = "r" \/ plus THEN {F_READ} ELSE {}) \cup
  (IF c # "r" \/ plus THEN {F_WRITE} ELSE {}) \cup
  (IF c = "a" THEN {F_APPEND} ELSE {})

NewFile(data, at, up, mode, cap) ==
  [data |-> data, at |-> at, up |-> up, mode |-> mode, cap |-> cap,
   dir |-> "idle", err |-> FALSE, eof |-> FALSE, bufmode |-> "full",
   buf |-> << >>, pos |-> 0, ungot |-> None]

\* The file alone, with no stream on it.
NoStream(data, up) == NewFile(data, 0, up, {}, 0)

\* malloc may refuse the FILE, after CREATE_ALWAYS has cut the file, or only
\* the buffer, and then the stream works unbuffered.
Fopen(c, plus) ==
  LET data == IF c = "w" THEN << >> ELSE s.data
      at   == IF c = "a" THEN Len(data) ELSE 0
  IN /\ ~open
     /\ \/ /\ \E cap \in {0, BufSz} : s' = NewFile(data, at, s.up, ModeBits(c, plus), cap)
           /\ open' = TRUE /\ Result("open", TRUE, << >>)
        \/ /\ s' = NoStream(data, s.up)
           /\ open' = FALSE /\ Result("open", FALSE, << >>)

Call == open /\ UNCHANGED open

Put(p) == /\ Call
          /\ s' = rt_putbytes(s, p)
          /\ Result("put", putbytes_ok(s, p), << >>)

\* getc, getchar and fgets are this call, or a loop of it.
Get == /\ Call
       /\ s' = rt_getbyte(s)
       /\ Result("get", got_byte(s) # << >>, got_byte(s))

Fread(want) == /\ Call
               /\ s' = fread(s, want)
               /\ Result("read", Len(fread_bytes(s, want)) = want, fread_bytes(s, want))

Ungetc(c) == /\ Call
             /\ s.ungot = None
             /\ s' = [s EXCEPT !.ungot = c, !.eof = FALSE]
             /\ Result("unget", TRUE, << >>)

Fseek(off, whence) == /\ Call
                      /\ seek_target(s, off, whence) <= Quota
                      /\ s' = fseek(s, off, whence)
                      /\ Result("seek", seek_ok(s, off, whence), << >>)

Rewind == /\ Call
          /\ s' = [fseek(s, 0, "SET") EXCEPT !.err = FALSE]
          /\ Result("rewind", TRUE, << >>)

Fflush == /\ Call
          /\ s' = rt_flush_write(s)
          /\ Result("flush", flush_ok(s), << >>)

Clearerr == /\ Call
            /\ s' = [s EXCEPT !.err = FALSE, !.eof = FALSE]
            /\ Result("clearerr", TRUE, << >>)

\* C99 7.19.5.6p2: setvbuf comes before any other operation on the stream.
Setvbuf(m) == /\ Call
              /\ s.dir = "idle"
              /\ s' = [s EXCEPT !.bufmode = m]
              /\ Result("setvbuf", TRUE, << >>)

\* fclose reports the last flush; ExitProcess flushes and reports nothing; a
\* program that is killed flushes nothing.
End(op, t, ok) == /\ open /\ open' = FALSE
                  /\ s' = NoStream(t.data, t.up)
                  /\ Result(op, ok, << >>)
Fclose      == End("close", rt_flush_write(s), flush_ok(s))
ExitProcess == End("exit", rt_flush_write(s), flush_ok(s))
Killed      == End("kill", s, FALSE)

\* The device goes away, or comes back.
Device == /\ open
          /\ s' = [s EXCEPT !.up = ~@]
          /\ UNCHANGED <<open, ret>>

Init == /\ \E data \in Content0 : s = NoStream(data, TRUE)
        /\ open = FALSE
        /\ ret = Ok("none", << >>)

Next == \/ \E c \in {"r", "w", "a"}, plus \in BOOLEAN : Fopen(c, plus)
        \/ \E p \in Payload : Put(p)
        \/ Get
        \/ \E want \in 0 .. BufSz + 1 : Fread(want)
        \/ \E c \in Byte : Ungetc(c)
        \/ \E off \in Offset, w \in {"SET", "CUR", "END"} : Fseek(off, w)
        \/ Rewind \/ Fflush \/ Clearerr
        \/ \E m \in {"full", "line", "none"} : Setvbuf(m)
        \/ Fclose \/ ExitProcess \/ Killed \/ Device

Spec == Init /\ [][Next]_vars
-----------------------------------------------------------------------------
Stream == [data : Seq(Byte), at : Nat, up : BOOLEAN,
           mode : SUBSET {F_READ, F_WRITE, F_APPEND}, cap : {0, BufSz},
           dir : {"in", "out", "idle"}, err : BOOLEAN, eof : BOOLEAN,
           bufmode : {"full", "line", "none"},
           buf : Seq(Byte), pos : Nat, ungot : Byte \cup {None}]

Calls == {"none", "open", "put", "get", "read", "unget", "seek", "rewind",
          "flush", "clearerr", "setvbuf", "close", "exit", "kill"}

Sized(t) == Len(t.buf) <= t.cap /\ Len(t.data) <= Quota

\* Every value has its type, no stream holds more than its buffer and no file
\* more than the device.
TypeOK == /\ s \in Stream /\ Sized(s)
          /\ open \in BOOLEAN
          /\ ret \in [op : Calls, ok : BOOLEAN, bytes : Seq(Byte)]

\* The buffer means what dir says.  Read-ahead is exactly the stretch of the
\* file that ends where the handle stands, read up to pos; a stream going in
\* neither direction holds nothing; only a writable stream has pending bytes.
\* Every crossing (rt_drop_read, rt_flush_write, fseek) relies on it.
Honest(t) ==
  /\ t.dir = "in" =>
       /\ t.pos <= Len(t.buf) /\ Len(t.buf) <= t.at
       /\ t.buf = SubSeq(t.data, t.at - Len(t.buf) + 1, t.at)
  /\ t.dir # "in" => t.pos = 0
  /\ t.dir = "idle" => t.buf = << >>
  /\ t.dir = "out" => F_WRITE \in t.mode
BufferHonest == Honest(s)

\* The caller of the stream cannot tell it from an unbuffered file: what is
\* read, where ftell stands, and what is on the device after a flush, a close
\* or an exit are those of the file with the pending bytes written at the
\* handle's offset.  Bytes vanish only with the error flag or a kill.
File == INSTANCE ByteFile WITH
  content <- IF s.dir = "out" THEN Overlay(s.data, s.at, s.buf) ELSE s.data,
  durable <- s.data,
  pos     <- ftell(s),
  side    <- s.dir,
  pushed  <- s.ungot,
  err     <- s.err,
  eof     <- s.eof
ImplementsFile == File!Spec

\* A stream opened without write permission never changes the file.
ReadOnlyKeepsFile == [][open /\ F_WRITE \notin s.mode => s'.data = s.data]_vars
=============================================================================
