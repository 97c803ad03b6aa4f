------------------------------- MODULE Pipes -------------------------------
(***************************************************************************)
(* rt/rt_stdio.c and rt/rt_start.c: _popen, _pclose and process exit.  The *)
(* program talks to its children over anonymous pipes; a library call may  *)
(* block on a child, so a call is a job of several steps and the children  *)
(* run between them.  Bytes are counted, not named.                        *)
(*                                                                         *)
(* A handle is <<c, "rd">> or <<c, "wr">>, an end of the pipe of child c.  *)
(* A pipe is broken for one side when no process holds the other end.      *)
(***************************************************************************)
EXTENDS Integers, Sequences, SequencesExt

CONSTANTS Child, Self, Stdout, Nobody,
          BufSz,     \* RT_BUFSZ (a buffer of one byte would be written through)
          PipeSz,    \* bytes the system keeps in one pipe
          Traffic    \* bound: bytes one side of a pipe writes in all

ASSUME ProcessAssumption == Self \notin Child /\ Stdout \notin Child /\ Nobody \notin Child
ASSUME SizeAssumption == BufSz \in Nat \ {0, 1} /\ PipeSz \in Nat \ {0} /\ Traffic \in Nat

VARIABLES child,     \* what each child process is and has done
          hold,      \* the pipe ends each process has open
          inherit,   \* the ends the program has marked inheritable
          pipe,      \* bytes in each pipe
          files,     \* rt_open_files, newest first
          pend,      \* pending bytes of a "w" stream, read-ahead of an "r" one
          eof,       \* the streams whose end-of-file indicator is set
          out,       \* pending bytes of stdout
          job        \* the library call in progress

vars == <<child, hold, inherit, pipe, files, pend, eof, out, job>>

Handle == Child \X {"rd", "wr"}
Ours(c, m)   == <<c, IF m = "r" THEN "rd" ELSE "wr">>
Theirs(c, m) == <<c, IF m = "r" THEN "wr" ELSE "rd">>

Unborn  == [mode |-> "none", life |-> "unborn", made |-> 0, used |-> 0]
Idle    == [op |-> "idle", c |-> Nobody, todo |-> << >>]
Call(op, c, todo) == job' = [op |-> op, c |-> c, todo |-> todo]
Return  == job' = Idle
Idling  == job.op = "idle"
Running(c)  == child[c].life = "running"
IsOpen(c)   == c \in ToSet(files)
Held(h)     == \E p \in DOMAIN hold : h \in hold[p]

Init ==
  /\ child = [c \in Child |-> Unborn]
  /\ hold = [p \in Child \cup {Self} |-> {}]
  /\ inherit = {}
  /\ pipe = [c \in Child |-> 0] /\ pend = [c \in Child |-> 0]
  /\ files = << >> /\ eof = {} /\ out = 0 /\ job = Idle

(* ---- flushing: stdout, stderr (unbuffered), then the open files ---- *)

FlushAll == <<Stdout>> \o files

Flushing == job.todo # << >>
NextFile == job' = [job EXCEPT !.todo = Tail(@)]

FlushStdout ==
  /\ Flushing /\ Head(job.todo) = Stdout
  /\ out' = 0 /\ NextFile
  /\ UNCHANGED <<child, hold, inherit, pipe, files, pend, eof>>

\* Where a flush fails, fputc gives up its byte; the others go on, as if it
\* had not.
AfterFailure == IF job.op = "fputc" THEN Return ELSE NextFile

\* One byte of a flush: WriteFile blocks on a full pipe, and fails on one with
\* no reader, which drops what was pending.
FlushPipe ==
  /\ Flushing /\ Head(job.todo) \in Child
  /\ LET c == Head(job.todo) IN
     \/ /\ child[c].mode = "r" \/ pend[c] = 0
        /\ NextFile /\ UNCHANGED <<pipe, pend>>
     \/ /\ child[c].mode = "w" /\ pend[c] > 0
        /\ Held(<<c, "rd">>) /\ pipe[c] < PipeSz
        /\ pipe' = [pipe EXCEPT ![c] = @ + 1]
        /\ pend' = [pend EXCEPT ![c] = @ - 1]
        /\ UNCHANGED job
     \/ /\ child[c].mode = "w" /\ pend[c] > 0 /\ ~Held(<<c, "rd">>)
        /\ pend' = [pend EXCEPT ![c] = 0]
        /\ AfterFailure /\ UNCHANGED pipe
  /\ UNCHANGED <<child, hold, inherit, files, eof, out>>

\* A job whose flushing is done.
Ready(op) == job.op = op /\ ~Flushing

(* ---- _popen ---- *)

Inheritable_both(c, m) == {<<c, "rd">>, <<c, "wr">>}
Inheritable(c, m)      == {Theirs(c, m)}

FlushBeforeSpawn_stdout == <<Stdout>>
FlushBeforeSpawn        == FlushAll

_popen(c, m) ==
  /\ Idling /\ child[c] = Unborn
  /\ hold' = [hold EXCEPT ![Self] = @ \cup {<<c, "rd">>, <<c, "wr">>}]
  /\ inherit' = inherit \cup Inheritable(c, m)
  /\ child' = [child EXCEPT ![c].mode = m]
  /\ Call("popen", c, FlushBeforeSpawn)
  /\ UNCHANGED <<pipe, files, pend, eof, out>>

\* CreateProcess hands the child every inheritable handle; the program then
\* closes the child's end, and ours too if there is no memory for the FILE.
KeptAfterSpawn_both(c, m) == hold[Self]
KeptAfterSpawn(c, m)      == hold[Self] \ {Theirs(c, m)}

CreateProcess(c, m) ==
  /\ Ready("popen") /\ job.c = c /\ child[c].mode = m
  /\ child' = [child EXCEPT ![c].life = "running"]
  /\ \/ /\ hold' = [hold EXCEPT ![c] = hold[Self] \cap inherit,
                                ![Self] = KeptAfterSpawn(c, m)]
        /\ files' = <<c>> \o files
        /\ Return
     \/ /\ hold' = [hold EXCEPT ![c] = hold[Self] \cap inherit,
                                ![Self] = KeptAfterSpawn(c, m) \ {Ours(c, m)}]
        /\ Call("wait", c, << >>)
        /\ UNCHANGED files
  /\ inherit' = inherit \cap hold'[Self]
  /\ UNCHANGED <<pipe, pend, eof, out>>

CreateProcess_fails(c) ==
  /\ Ready("popen") /\ job.c = c
  /\ child' = [child EXCEPT ![c] = Unborn]
  /\ hold' = [hold EXCEPT ![Self] = @ \ ({c} \X {"rd", "wr"})]
  /\ inherit' = inherit \ ({c} \X {"rd", "wr"})
  /\ Return
  /\ UNCHANGED <<pipe, files, pend, eof, out>>

(* ---- using a stream ---- *)

printf ==
  /\ Idling /\ out < BufSz /\ out' = out + 1
  /\ UNCHANGED <<child, hold, inherit, pipe, files, pend, eof, job>>

fflush_all ==
  /\ Idling /\ Call("fflush", Nobody, FlushAll)
  /\ UNCHANGED <<child, hold, inherit, pipe, files, pend, eof, out>>

fflush_done ==
  /\ Ready("fflush") /\ Return
  /\ UNCHANGED <<child, hold, inherit, pipe, files, pend, eof, out>>

\* One byte written: a full buffer is flushed first, and unless that fails the
\* byte is taken.
FlushBeforePut_late(c) == IF pend[c] > BufSz THEN <<c>> ELSE << >>
FlushBeforePut(c)      == IF pend[c] = BufSz THEN <<c>> ELSE << >>

fputc(c) ==
  /\ Idling /\ IsOpen(c) /\ child[c].mode = "w" /\ child[c].made < Traffic
  /\ Call("fputc", c, FlushBeforePut(c))
  /\ UNCHANGED <<child, hold, inherit, pipe, files, pend, eof, out>>

fputc_done ==
  /\ Ready("fputc")
  /\ child' = [child EXCEPT ![job.c].made = @ + 1]
  /\ pend' = [pend EXCEPT ![job.c] = @ + 1]
  /\ Return
  /\ UNCHANGED <<hold, inherit, pipe, files, eof, out>>

\* One byte read: from the read-ahead, or after a refill that waits for bytes
\* or for the pipe to break.
fgetc(c) ==
  /\ Idling /\ IsOpen(c) /\ child[c].mode = "r"
  /\ Call("fgetc", c, << >>)
  /\ UNCHANGED <<child, hold, inherit, pipe, files, pend, eof, out>>

fgetc_buffered ==
  /\ Ready("fgetc") /\ pend[job.c] > 0
  /\ pend' = [pend EXCEPT ![job.c] = @ - 1]
  /\ child' = [child EXCEPT ![job.c].used = @ + 1]
  /\ Return
  /\ UNCHANGED <<hold, inherit, pipe, files, eof, out>>

fgetc_fill ==
  /\ Ready("fgetc") /\ pend[job.c] = 0
  /\ LET c == job.c IN
     \/ /\ pipe[c] > 0
        /\ LET n == IF pipe[c] < BufSz THEN pipe[c] ELSE BufSz
           IN /\ pipe' = [pipe EXCEPT ![c] = @ - n]
              /\ pend' = [pend EXCEPT ![c] = n - 1]
        /\ child' = [child EXCEPT ![c].used = @ + 1]
        /\ UNCHANGED eof
     \/ /\ pipe[c] = 0 /\ ~Held(<<c, "wr">>)
        /\ eof' = eof \cup {c}
        /\ UNCHANGED <<pipe, pend, child>>
  /\ Return
  /\ UNCHANGED <<hold, inherit, files, out>>

(* ---- closing a stream, leaving the process ---- *)

FlushBeforeClose_nothing(c) == << >>
FlushBeforeClose(c)         == <<c>>

\* _pclose, and fclose on such a stream: flush, close our end, wait.
_pclose(c) ==
  /\ Idling /\ IsOpen(c)
  /\ Call("pclose", c, FlushBeforeClose(c))
  /\ UNCHANGED <<child, hold, inherit, pipe, files, pend, eof, out>>

\* The list without the first node that is c.
Unlinked(c) ==
  RemoveAt(files, CHOOSE i \in DOMAIN files :
                    files[i] = c /\ \A j \in 1 .. i - 1 : files[j] # c)

CloseHandle ==
  /\ Ready("pclose")
  /\ hold' = [hold EXCEPT ![Self] = @ \ {Ours(job.c, child[job.c].mode)}]
  /\ pend' = [pend EXCEPT ![job.c] = 0]
  /\ files' = Unlinked(job.c)
  /\ Call("wait", job.c, << >>)
  /\ UNCHANGED <<child, inherit, pipe, eof, out>>

WaitForSingleObject ==
  /\ Ready("wait") /\ ~Running(job.c)
  /\ Return
  /\ UNCHANGED <<child, hold, inherit, pipe, files, pend, eof, out>>

ExitProcess ==
  /\ Idling /\ Call("exit", Nobody, FlushAll)
  /\ UNCHANGED <<child, hold, inherit, pipe, files, pend, eof, out>>

TerminateProcess ==
  /\ Ready("exit")
  /\ hold' = [hold EXCEPT ![Self] = {}] /\ inherit' = {}
  /\ files' = << >> /\ pend' = [c \in Child |-> 0] /\ out' = 0
  /\ Call("gone", Nobody, << >>)
  /\ UNCHANGED <<child, pipe, eof>>

(* ---- the children ---- *)

Exits(c, as) ==
  /\ child' = [child EXCEPT ![c].life = as]
  /\ hold' = [hold EXCEPT ![c] = {}]
  /\ UNCHANGED <<inherit, pipe, files, pend, eof, out, job>>

\* A child run for "w" reads its input to the end.
ChildReads(c) ==
  /\ Running(c) /\ child[c].mode = "w" /\ pipe[c] > 0
  /\ pipe' = [pipe EXCEPT ![c] = @ - 1]
  /\ child' = [child EXCEPT ![c].used = @ + 1]
  /\ UNCHANGED <<hold, inherit, files, pend, eof, out, job>>
ChildSeesEnd(c) ==
  /\ Running(c) /\ child[c].mode = "w"
  /\ pipe[c] = 0 /\ ~Held(<<c, "wr">>) /\ Exits(c, "finished")

\* A child run for "r" writes all its output, or finds its pipe broken.
ChildWrites(c) ==
  /\ Running(c) /\ child[c].mode = "r" /\ Held(<<c, "rd">>)
  /\ child[c].made < Traffic /\ pipe[c] < PipeSz
  /\ pipe' = [pipe EXCEPT ![c] = @ + 1]
  /\ child' = [child EXCEPT ![c].made = @ + 1]
  /\ UNCHANGED <<hold, inherit, files, pend, eof, out, job>>
ChildIsDone(c) ==
  /\ Running(c) /\ child[c].mode = "r"
  /\ child[c].made = Traffic \/ ~Held(<<c, "rd">>)
  /\ Exits(c, "finished")

\* Any child may stop before it is done.
ChildQuits(c) == Running(c) /\ Exits(c, "quit")

ChildStep(c) ==
  ChildReads(c) \/ ChildSeesEnd(c) \/ ChildWrites(c) \/ ChildIsDone(c)

(* ---- the system ---- *)

ProgramCalls ==
  \/ printf \/ fflush_all \/ ExitProcess
  \/ \E c \in Child :
       \/ fputc(c) \/ fgetc(c) \/ _pclose(c)
       \/ \E m \in {"r", "w"} : _popen(c, m)

\* The rest of a call that has begun.
CallStep ==
  \/ FlushStdout \/ FlushPipe \/ fflush_done
  \/ fputc_done \/ fgetc_buffered \/ fgetc_fill
  \/ CloseHandle \/ WaitForSingleObject \/ TerminateProcess
  \/ \E c \in Child : \/ CreateProcess_fails(c)
                      \/ \E m \in {"r", "w"} : CreateProcess(c, m)

Next == ProgramCalls \/ CallStep
        \/ \E c \in Child : ChildStep(c) \/ ChildQuits(c)

\* A call that can go on does, and so does a child; the program need not make
\* another call, and a child need not quit early.
Spec == Init /\ [][Next]_vars /\ WF_vars(CallStep)
        /\ \A c \in Child : WF_vars(ChildStep(c))

(* ---- properties ---- *)

TypeOK ==
  /\ child \in [Child -> [mode : {"none", "r", "w"},
                          life : {"unborn", "running", "finished", "quit"},
                          made : 0 .. Traffic, used : 0 .. Traffic]]
  /\ hold \in [Child \cup {Self} -> SUBSET Handle]
  /\ inherit \subseteq hold[Self]
  /\ pipe \in [Child -> 0 .. PipeSz]
  /\ pend \in [Child -> 0 .. BufSz]
  /\ out \in 0 .. BufSz
  /\ eof \subseteq Child
  /\ files \in Seq(Child) /\ IsInjective(files)
  /\ job \in [op : {"idle", "popen", "fflush", "fputc", "fgetc", "pclose",
                    "wait", "exit", "gone"},
              c : Child \cup {Nobody}, todo : Seq(Child \cup {Stdout})]

\* The comment over _popen: a child has its own end of its own pipe and
\* nothing else, and between calls the program holds exactly the other ends.
\* At most BufSz bytes pend on a stream and at most PipeSz are in a pipe.
EndsAreWhereTheyBelong ==
  /\ TypeOK
  /\ \A c \in Child : Running(c) => hold[c] = {Theirs(c, child[c].mode)}
  /\ Idling => hold[Self] = {Ours(c, child[c].mode) : c \in ToSet(files)}

\* What one side wrote the other side gets: a stream is at end of file only
\* when the child is gone and all it wrote was read, and a child that read its
\* input to the end, while the program still ran, read all the program wrote.
NothingLost ==
  \A c \in Child :
    /\ c \in eof => ~Running(c) /\ child[c].used = child[c].made
    /\ child[c].mode = "w" /\ child[c].life = "finished"
         => child[c].used = child[c].made

\* A child starts behind everything the program wrote before _popen, whatever
\* the stream, so its output cannot overtake: nothing is pending at its start.
StartsBehind ==
  [][\A c \in Child : child[c].life = "unborn" /\ child'[c].life = "running"
       => out = 0 /\ \A d \in Child : child[d].mode = "w" => pend[d] = 0]_vars

\* No call hangs: _popen, reads, writes, closes and exit all return, whichever
\* other children are running.
CallsReturn == ~Idling ~> job.op \in {"idle", "gone"}

\* Once the program has ended, no child waits for input that cannot come.
ChildrenEnd == job.op = "gone" ~> \A c \in Child : ~Running(c)
=============================================================================
