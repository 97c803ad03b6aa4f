-------------------------------- MODULE Args --------------------------------
(***************************************************************************)
(* rt/rt_start.c, rt_parse_cmdline: the command line is split into argv by *)
(* one walk that writes the arguments, each with its terminator, to a pool *)
(* allocated beforehand.  A character is a letter, a blank, a quote or a   *)
(* backslash; "nul" is the terminator, of the command line and of each     *)
(* argument.  Offsets are the code's, from 0.                              *)
(***************************************************************************)
EXTENDS Naturals, Sequences

CONSTANTS Letters,    \* the characters the walk does not look at
          CmdLines    \* what GetCommandLineA may return

Blank   == {"space", "tab"}
Special == Blank \cup {"quote", "backslash", "nul"}
Char    == (Special \ {"nul"}) \cup Letters

ASSUME CharAssumption == Letters \cap Special = {}
ASSUME CmdAssumption  == CmdLines \subseteq Seq(Char)

VARIABLES cmd,      \* the command line
          p,        \* the character looked at
          pool,     \* what was written: the arguments, each ended by "nul"
          argv,     \* where in the pool each argument begins
          quoted,   \* between two quotes that toggle
          slashes,  \* backslashes counted and not yet written
          pc        \* the loop the walk is in

vars == <<cmd, p, pool, argv, quoted, slashes, pc>>

Here == IF p < Len(cmd) THEN cmd[p + 1] ELSE "nul"
Backslashes(n) == [i \in 1..n |-> "backslash"]

Init ==
  /\ cmd \in CmdLines
  /\ p = 0 /\ pool = << >> /\ argv = << >> /\ quoted = 0 /\ slashes = 0
  /\ pc = "start"

\* What was allocated, in characters and in pointers.
PoolSize == Len(cmd) + 2
ArgvSize_tight == Len(cmd) \div 2 + 1
ArgvSize == Len(cmd) \div 2 + 3

(* ---- argv[0]: quotes end it, and everything else is literal ---- *)

NoMemory ==
  /\ pc = "start" /\ pc' = "failed"
  /\ UNCHANGED <<cmd, p, pool, argv, quoted, slashes>>

BeginName ==
  /\ pc = "start"
  /\ argv' = <<0>>
  /\ IF Here = "quote" THEN p' = p + 1 /\ pc' = "quotedName" ELSE p' = p /\ pc' = "name"
  /\ UNCHANGED <<cmd, pool, quoted, slashes>>

NameEnds ==
  \/ pc = "quotedName" /\ Here \in {"quote", "nul"}
  \/ pc = "name" /\ Here \in Blank \cup {"nul"}

NameChar ==
  /\ pc \in {"quotedName", "name"} /\ ~NameEnds
  /\ pool' = Append(pool, Here) /\ p' = p + 1
  /\ UNCHANGED <<cmd, argv, quoted, slashes, pc>>

EndName ==
  /\ NameEnds
  /\ p' = IF pc = "quotedName" /\ Here = "quote" THEN p + 1 ELSE p
  /\ pool' = Append(pool, "nul") /\ pc' = "gap"
  /\ UNCHANGED <<cmd, argv, quoted, slashes>>

(* ---- between arguments ---- *)

SkipBlank ==
  /\ pc = "gap" /\ Here \in Blank
  /\ p' = p + 1
  /\ UNCHANGED <<cmd, pool, argv, quoted, slashes, pc>>

BeginArg ==
  /\ pc = "gap" /\ Here \notin Blank \cup {"nul"}
  /\ argv' = Append(argv, Len(pool)) /\ quoted' = 0 /\ pc' = "arg"
  /\ UNCHANGED <<cmd, p, pool, slashes>>

EndOfLine ==
  /\ pc = "gap" /\ Here = "nul"
  /\ pc' = "done"
  /\ UNCHANGED <<cmd, p, pool, argv, quoted, slashes>>

(* ---- in an argument ---- *)

ArgEnds_unquoted == Here \in Blank \cup {"nul"}
ArgEnds == Here = "nul" \/ (quoted = 0 /\ Here \in Blank)

EndArg ==
  /\ pc = "arg" /\ ArgEnds
  /\ pool' = Append(pool, "nul") /\ pc' = "gap"
  /\ UNCHANGED <<cmd, p, argv, quoted, slashes>>

CountSlash ==
  /\ pc \in {"arg", "slashes"} /\ Here = "backslash"
  /\ slashes' = slashes + 1 /\ p' = p + 1 /\ pc' = "slashes"
  /\ UNCHANGED <<cmd, pool, argv, quoted>>

SlashesThenQuote ==
  /\ pc = "slashes" /\ Here = "quote"
  /\ IF slashes % 2 = 1
     THEN /\ pool' = Append(pool \o Backslashes(slashes \div 2), "quote")
          /\ UNCHANGED quoted
     ELSE /\ pool' = pool \o Backslashes(slashes \div 2)
          /\ quoted' = 1 - quoted
  /\ p' = p + 1 /\ slashes' = 0 /\ pc' = "arg"
  /\ UNCHANGED <<cmd, argv>>

SlashesAlone ==
  /\ pc = "slashes" /\ Here \notin {"quote", "backslash"}
  /\ pool' = pool \o Backslashes(slashes) /\ slashes' = 0 /\ pc' = "arg"
  /\ UNCHANGED <<cmd, p, argv, quoted>>

Quote_stays ==
  /\ pc = "arg" /\ Here = "quote"
  /\ quoted' = 1 - quoted
  /\ UNCHANGED <<cmd, p, pool, argv, slashes, pc>>
Quote ==
  /\ pc = "arg" /\ Here = "quote"
  /\ quoted' = 1 - quoted /\ p' = p + 1
  /\ UNCHANGED <<cmd, pool, argv, slashes, pc>>

ArgChar ==
  /\ pc = "arg" /\ ~ArgEnds /\ Here \notin {"quote", "backslash"}
  /\ pool' = Append(pool, Here) /\ p' = p + 1
  /\ UNCHANGED <<cmd, argv, quoted, slashes, pc>>

Next ==
  \/ NoMemory \/ BeginName \/ NameChar \/ EndName
  \/ SkipBlank \/ BeginArg \/ EndOfLine
  \/ EndArg \/ CountSlash \/ SlashesThenQuote \/ SlashesAlone \/ Quote \/ ArgChar

Spec == Init /\ [][Next]_vars /\ WF_vars(Next)

TypeOK ==
  /\ cmd \in Seq(Char) /\ p \in 0..Len(cmd)
  /\ pool \in Seq(Char \cup {"nul"}) /\ argv \in Seq(Nat)
  /\ quoted \in {0, 1} /\ slashes \in Nat
  /\ pc \in {"start", "failed", "quotedName", "name", "gap", "arg", "slashes", "done"}

(* Whatever is quoted, the walk never writes past the pool it allocated, nor
   past the slots of argv, of which one is left for the final null: the sizes
   of rt_parse_cmdline's two allocations are enough. *)
FitsAllocation ==
  /\ Len(pool) <= PoolSize
  /\ pc # "failed" => Len(argv) < ArgvSize

(* The walk comes to the end of every command line. *)
WalkEnds == <>(pc \in {"done", "failed"})
=============================================================================
