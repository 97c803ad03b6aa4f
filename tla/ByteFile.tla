------------------------------ MODULE ByteFile ------------------------------
(***************************************************************************)
(* What a stdio stream promises its caller, with no buffer in sight: a     *)
(* file is a sequence of bytes with a position, a write lands at the       *)
(* position, a read returns the bytes that follow it, and the caller may   *)
(* push one byte back.  `content' is the file as this stream's caller sees *)
(* it, `durable' what the operating system already holds: a successful     *)
(* flush, seek, close or exit makes them equal, a kill reduces the file to *)
(* what was durable, and the only steps that lose an accepted byte without *)
(* a kill raise the error flag.  Stdio.tla implements this module.         *)
(***************************************************************************)
EXTENDS Integers, Sequences

CONSTANTS Byte,      \* the byte values
          Zero,      \* the byte that fills a hole left by a seek past the end
          Payload,   \* the byte strings a caller writes
          Offset,    \* the distances a caller seeks by
          Content0   \* the possible initial contents of the file

None == -1           \* no byte is pushed back

VARIABLES content,   \* the file the caller sees
          durable,   \* the file the operating system holds
          pos,       \* the position ftell reports
          side,      \* the direction of the last transfer: in, out or idle
          pushed,    \* the pushed-back byte, or None
          err, eof,  \* the two indicators
          open,      \* a stream is open on the file
          ret        \* what the last call returned

vars == <<content, durable, pos, side, pushed, err, eof, open, ret>>

Larger(a, b) == IF a > b THEN a ELSE b

\* The file c after the bytes p are written at offset at.
Overlay(c, at, p) ==
  IF p = << >> THEN c
  ELSE [i \in 1 .. Larger(Len(c), at + Len(p)) |->
          IF at < i /\ i <= at + Len(p) THEN p[i - at]
          ELSE IF i <= Len(c) THEN c[i] ELSE Zero]

\* File d1 is d0 with some of c written back, and nothing else.
WrittenBack(d0, d1, c) ==
  /\ Len(d0) <= Len(d1) /\ Len(d1) <= Larger(Len(d0), Len(c))
  /\ \A i \in 1 .. Len(d1) :
       \/ i <= Len(d0) /\ d1[i] = d0[i]
       \/ i <= Len(c) /\ d1[i] = c[i]
       \/ d1[i] = Zero

Ok(op, bytes)   == [op |-> op, ok |-> TRUE, bytes |-> bytes]
Fail(op, bytes) == [op |-> op, ok |-> FALSE, bytes |-> bytes]

Init ==
  /\ content \in Content0 /\ durable = content
  /\ pos = 0 /\ side = "idle" /\ pushed = None
  /\ err = FALSE /\ eof = FALSE /\ open = FALSE
  /\ ret = Ok("none", << >>)

Open ==
  /\ ~open
  /\ \/ open' = TRUE /\ ret' = Ok("open", << >>)
     \/ open' = FALSE /\ ret' = Fail("open", << >>)
  /\ content' \in {content, << >>} /\ durable' = content'
  /\ pos' \in {0, Len(content')}
  /\ side' = "idle" /\ pushed' = None /\ err' = FALSE /\ eof' = FALSE

\* A write after a read, or after a push-back, starts where ftell says.
Put(p) ==
  LET at == Larger(0, pos) IN
  /\ open /\ ret' = Ok("put", << >>)
  /\ content' = Overlay(content, at, p)
  /\ pos' = at + Len(p)
  /\ WrittenBack(durable, durable', content')
  /\ side' = "out"
  /\ pushed' = IF side = "in" THEN None ELSE pushed
  /\ UNCHANGED <<err, eof, open>>

\* One byte: the pushed-back one first, then the one at the position.
Get ==
  /\ open /\ ret'.op = "get"
  /\ \/ /\ pushed # None
        /\ ret' = Ok("get", <<pushed>>)
        /\ pushed' = None
        /\ pos' = IF side = "in" THEN pos + 1 ELSE pos
        /\ UNCHANGED <<content, durable, side, eof>>
     \/ /\ pushed = None /\ pos < Len(content)
        /\ ret' = Ok("get", <<content[pos + 1]>>)
        /\ pos' = pos + 1 /\ side' = "in"
        /\ durable' = content
        /\ UNCHANGED <<content, pushed, eof>>
     \/ /\ pushed = None /\ pos >= Len(content)
        /\ ret' = Fail("get", << >>)
        /\ side' = "in" /\ eof' = TRUE
        /\ durable' = content
        /\ UNCHANGED <<content, pushed, pos>>
  /\ UNCHANGED <<err, open>>

\* A block read returns the pushed-back byte and then consecutive bytes of
\* the file; it comes up short only at the end of the file.
Fread ==
  LET head  == IF pushed = None THEN << >> ELSE <<pushed>>
      start == IF pushed # None /\ side = "in" THEN pos + 1 ELSE pos
      got   == ret'.bytes
      body  == Len(got) - Len(head)
  IN
  /\ open /\ ret'.op = "read"
  /\ body >= 0 /\ (body > 0 => start + body <= Len(content))
  /\ got = head \o SubSeq(content, start + 1, start + body)
  /\ ~ret'.ok => (eof' /\ start + body >= Len(content))
  /\ ret'.ok => eof' = eof
  /\ pushed' = None /\ durable' = content
  /\ pos' = start + body
  /\ side' \in {"in", IF side = "in" THEN "in" ELSE "idle"}
  /\ UNCHANGED <<content, err, open>>

Ungetc ==
  /\ open /\ ret' = Ok("unget", << >>)
  /\ pushed = None /\ pushed' \in Byte /\ eof' = FALSE
  /\ pos' = IF side = "in" THEN pos - 1 ELSE pos
  /\ UNCHANGED <<content, durable, side, err, open>>

Origin(whence) == CASE whence = "SET" -> 0
                    [] whence = "CUR" -> pos
                    [] whence = "END" -> Len(content)

\* A seek drops the pushed-back byte.  One that is refused may leave the
\* position further on, which C99 does not forbid.
Seek(off, whence) ==
  LET target == Origin(whence) + off IN
  /\ open /\ ret'.op = "seek"
  /\ IF target >= 0
     THEN ret' = Ok("seek", << >>) /\ pos' = target
     ELSE ret' = Fail("seek", << >>) /\ pos' >= pos /\ pos' >= 0
  /\ durable' = content
  /\ side' = "idle" /\ pushed' = None /\ eof' = FALSE
  /\ UNCHANGED <<content, err, open>>

Flush ==
  /\ open /\ ret' = Ok("flush", << >>)
  /\ durable' = content
  /\ side' = IF side = "out" THEN "idle" ELSE side
  /\ UNCHANGED <<content, pos, pushed, err, eof, open>>

ClearErr ==
  /\ open /\ ret' = Ok("clearerr", << >>) /\ err' = FALSE /\ eof' = FALSE
  /\ UNCHANGED <<content, durable, pos, side, pushed, open>>

\* A block read of nothing and a change of buffering are invisible.
Invisible ==
  /\ open /\ ret' \in {Ok("read", << >>), Ok("setvbuf", << >>)}
  /\ UNCHANGED <<content, durable, pos, side, pushed, err, eof, open>>

\* A call the mode does not allow changes nothing but the error flag.
Refuse ==
  /\ open /\ err' = TRUE /\ ~ret'.ok
  /\ UNCHANGED <<content, durable, pos, side, pushed, eof, open>>

\* Accepted bytes that never reached the system are gone; no other byte is.
Lose == /\ \E p \in Payload \cup {<< >>} :
              WrittenBack(durable, durable', Overlay(content, Larger(0, pos), p))
        /\ content' = durable'

\* The device fails a call: the error flag is up and the call reports it,
\* except a block read that the pushed-back byte alone satisfies.
Failure == /\ open /\ open' /\ err' = TRUE
           /\ ret'.ok => (ret'.op = "read" /\ pushed # None)
           /\ Lose
           /\ pos' >= 0 \/ pos' = pos

\* rewind has no result and lowers the error flag, even over a failed flush.
Rewind ==
  /\ open /\ open' /\ err' = FALSE /\ ret' = Ok("rewind", << >>)
  /\ \/ /\ pos' = 0 /\ side' = "idle" /\ pushed' = None /\ eof' = FALSE
        /\ durable' = content /\ content' = content
     \/ Lose /\ side' = "out" /\ side = "out"

\* Close and exit end the stream.  An orderly end makes everything durable
\* unless the device refuses; a kill leaves what was durable.
CloseOk ==
  /\ open /\ open' = FALSE
  /\ ret' \in {Ok("close", << >>), Ok("exit", << >>)}
  /\ content' = content /\ durable' = content

CloseFailed ==
  /\ open /\ open' = FALSE
  /\ ret'.op \in {"close", "exit", "kill"} /\ ~ret'.ok
  /\ Lose

Next == \/ Open \/ \E p \in Payload : Put(p)
        \/ Get \/ Fread \/ Ungetc \/ Flush \/ ClearErr \/ Rewind
        \/ \E off \in Offset, w \in {"SET", "CUR", "END"} : Seek(off, w)
        \/ Invisible \/ Refuse \/ Failure \/ CloseOk \/ CloseFailed

Spec == Init /\ [][Next]_vars
=============================================================================
