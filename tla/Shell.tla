-------------------------------- MODULE Shell -------------------------------
(***************************************************************************)
(* Two programs that fork one child after another and wait for it:         *)
(*                                                                         *)
(*   "shell"      shell/shell.c: reads a line, cuts it into arguments in   *)
(*                place and runs them, until "exit" or the end of stdin;   *)
(*   "restarter"  simple_watch_dog.c: runs its arguments over and over.    *)
(*                                                                         *)
(* A line is the words between its blanks, and whether blanks come before  *)
(* or after them.  A blank that parse meets becomes the end of a string,   *)
(* so that of the line only what precedes the first blank is left in input *)
(* (and argv keeps its entries behind the NULL).  Commands do not read the *)
(* stdin of the shell; a line fits into input and argv.                    *)
(***************************************************************************)
EXTENDS Integers, Sequences

CONSTANTS Commands,       \* the commands that are typed: sequences of words
          MaxTyped,       \* bound: lines that are typed
          MaxFailures     \* bound: failures of fork and execvp

Blank(before) == [before |-> before, words |-> <<>>, after |-> FALSE]

\* The lines: an empty one, one of blanks, and commands.
Line == [before : BOOLEAN, words : Commands, after : BOOLEAN]
            \cup {Blank(FALSE), Blank(TRUE)}

IsEmpty(line) == line = Blank(FALSE)

VARIABLES setting,
          lines,      \* what is typed, and then the end of stdin
          read,       \* how many lines fscanf has taken
          input,      \* <<>> as long as it is not initialised, else <<line>>
          argv,       \* the entries before the NULL
          pc, child,
          fresh,      \* argv is from a line that was read just now
          executed,   \* history: the arguments of execvp, of fresh lines
          again,      \* history: the arguments of execvp, of other lines
          failures

vars == <<setting, lines, read, input, argv, pc, child, fresh, executed, again, failures>>

Init ==
    /\ setting \in {"shell", "restarter"}
    /\ lines \in (IF setting = "shell" THEN UNION {[1..n -> Line] : n \in 0..MaxTyped}
                                       ELSE {<<>>})
    /\ read = 0
    /\ input = <<>>
    /\ argv = (IF setting = "shell" THEN <<>> ELSE <<"program">>)
    /\ pc = (IF setting = "shell" THEN "scan" ELSE "fork")
    /\ child = "none"
    /\ fresh = FALSE
    /\ executed = <<>>
    /\ again = {}
    /\ failures = 0

-----------------------------------------------------------------------------
(* The shell reads *)

\* Mutant of Parse: the array is not ended, and keeps its later entries.
ParseWithoutEnd(line) ==
    LET args == IF line.after \/ line = Blank(TRUE) THEN Append(line.words, "")
                                                    ELSE line.words
    IN  args \o SubSeq(argv, Len(args) + 1, Len(argv))

\* The arguments: blanks at the end give one more, which is empty.
Parse(line) ==
    IF line.after \/ line = Blank(TRUE) THEN Append(line.words, "") ELSE line.words

\* What parse leaves in input, up to the first end of a string.
Rest(line) ==
    IF line.before \/ line.words = <<>>
    THEN Blank(FALSE)
    ELSE [before |-> FALSE, words |-> <<Head(line.words)>>, after |-> FALSE]

\* fscanf takes nothing from an empty line and leaves input as it was; the
\* line stays in front.  Without a word strcmp gets a null pointer.
Scan ==
    /\ pc = "scan"
    /\ IF read = Len(lines)
       THEN /\ pc' = "returned"
            /\ UNCHANGED <<read, input, argv, fresh>>
       ELSE LET matched == ~IsEmpty(lines[read + 1])
                text == IF matched THEN <<lines[read + 1]>> ELSE input
            IN  /\ fresh' = matched
                /\ read' = IF matched THEN read + 1 ELSE read
                /\ IF text = <<>>
                   THEN pc' = "undefined" /\ UNCHANGED <<input, argv>>
                   ELSE /\ argv' = Parse(text[1])
                        /\ input' = <<Rest(text[1])>>
                        /\ pc' = IF argv' = <<>> THEN "crashed"
                                 ELSE IF Head(argv') = "exit" THEN "exited"
                                 ELSE "fork"
    /\ UNCHANGED <<setting, lines, child, executed, again, failures>>

-----------------------------------------------------------------------------
(* The child *)

Fails ==
    /\ failures < MaxFailures
    /\ failures' = failures + 1

AfterFailedFork == IF setting = "shell" THEN "exited" ELSE "fork"

Fork ==
    /\ pc = "fork"
    /\ \/ pc' = "wait" /\ child' = "forked" /\ UNCHANGED failures
       \/ pc' = AfterFailedFork /\ Fails /\ UNCHANGED child
    /\ UNCHANGED <<setting, lines, read, input, argv, fresh, executed, again>>

\* There is no program without a name.
Execvp ==
    /\ child = "forked"
    /\ \/ Head(argv) # "" /\ child' = "running" /\ UNCHANGED failures
       \/ Head(argv) # "" /\ child' = "ended" /\ Fails
       \/ Head(argv) = "" /\ child' = "ended" /\ UNCHANGED failures
    /\ executed' = IF fresh THEN Append(executed, argv) ELSE executed
    /\ again' = IF fresh THEN again ELSE again \cup {argv}
    /\ UNCHANGED <<setting, lines, read, input, argv, pc, fresh>>

ChildEnds ==
    /\ child = "running"
    /\ child' = "ended"
    /\ UNCHANGED <<setting, lines, read, input, argv, pc, fresh, executed, again, failures>>

Wait ==
    /\ pc = "wait"
    /\ child = "ended"
    /\ child' = "none"
    /\ pc' = IF setting = "shell" THEN "scan" ELSE "fork"
    /\ UNCHANGED <<setting, lines, read, input, argv, fresh, executed, again, failures>>

Step == Scan \/ Fork \/ Execvp \/ Wait

Stopped == pc \in {"returned", "exited", "crashed", "undefined"} /\ UNCHANGED vars

Next == Step \/ ChildEnds \/ Stopped

-----------------------------------------------------------------------------
(* Properties *)

\* What the shell runs was typed, line by line and with no argument of an
\* earlier line.  Only in front of an empty line it runs something again: the
\* first word of the line before, for ever, and it reads no further.
RunsWhatWasTyped ==
    /\ \A k \in 1..Len(executed) :
          executed[k] \in {lines[k].words, Append(lines[k].words, "")}
    /\ setting = "shell" /\ again # {} =>
          /\ read < Len(lines) /\ IsEmpty(lines[read + 1])
          /\ again = {<<Head(lines[read].words)>>}
=============================================================================
