---------------------------- MODULE LogExtractor ----------------------------
(***************************************************************************)
(* extract_error_from_log of tools/extractor.py: the tracebacks of a log   *)
(* with the stacks below them, and each line that reports an error once.   *)
(* Two nested loops move one cursor over the lines.                        *)
(***************************************************************************)
EXTENDS Naturals, Sequences

CONSTANTS
    LineKinds,      \* the lines a log may have
    MaxLines        \* bound: lines of a log, without the empty ones

(* Of a line, what the patterns of the tool tell apart: its text; head, the *)
(* text left of "Traceback (most recent call last):", NoHead without that; *)
(* under, the heads for which it matches stack_pattern; raises, the heads  *)
(* for which re.search raises; error and warning, whether it matches       *)
(* "(error|failed|exception):" and "warning".                              *)
(*                                                                         *)
(* The non-word characters left of a traceback are not escaped in          *)
(* stack_pattern: with "." it matches other lines than those below the     *)
(* traceback, with "(" it is no pattern, and with "|" or "*" none that a   *)
(* look-behind may have.  It is compiled for lines that reach further to   *)
(* the right than the traceback's head, and then raises for all of them.   *)
NoHead == "none"

ASSUME LineKindsAssumption ==
    /\ \A l \in LineKinds : {l.error, l.warning} \subseteq BOOLEAN
    /\ \A l, m \in LineKinds : l.raises \cap m.under = {}
    /\ \A l, m \in LineKinds : l.text = m.text => l = m
    /\ MaxLines \in Nat

VARIABLES
    lines,          \* the log
    loop,           \* the loop that goes on: "lines", "stack", then "done" or "raised"
    line_cursor, next_line_cursor,  \* counted from 1
    head,           \* char_cursor and left_pattern of the last traceback
    errors,         \* what is collected: texts of lines
    printed         \* what is printed

extractVars == <<lines, loop, line_cursor, next_line_cursor, head, errors, printed>>

-----------------------------------------------------------------------------
Logs == UNION {[1..n -> LineKinds] : n \in 0..MaxLines}

ExtractInit ==
    /\ lines \in Logs
    /\ loop = "lines"
    /\ line_cursor = 1
    /\ next_line_cursor = 1
    /\ head = NoHead
    /\ errors = << >>
    /\ printed = << >>

Line == lines[line_cursor]
NextLine == lines[next_line_cursor]

(* The next line matches stack_pattern, or makes it raise.                 *)
InStack == next_line_cursor \in DOMAIN lines /\ head \in NextLine.under
Raises  == next_line_cursor \in DOMAIN lines /\ head \in NextLine.raises

Collected == {errors[i] : i \in DOMAIN errors}

IsReported(line) == line.error /\ ~ line.warning /\ line.text \notin Collected

FindTraceback ==
    /\ loop = "lines"
    /\ line_cursor <= Len(lines)
    /\ Line.head # NoHead
    /\ errors' = Append(errors, Line.text)
    /\ head' = Line.head
    /\ next_line_cursor' = line_cursor + 1
    /\ loop' = "stack"
    /\ UNCHANGED <<lines, line_cursor, printed>>

(* Mutant: the outer loop goes over the lines of the stack again.          *)
KeepsLineCursor ==
    /\ loop = "stack"
    /\ InStack
    /\ errors' = Append(errors, NextLine.text)
    /\ next_line_cursor' = next_line_cursor + 1
    /\ UNCHANGED <<lines, loop, head, line_cursor, printed>>

FollowStack ==
    /\ loop = "stack"
    /\ InStack
    /\ errors' = Append(errors, NextLine.text)
    /\ line_cursor' = next_line_cursor
    /\ next_line_cursor' = next_line_cursor + 1
    /\ UNCHANGED <<lines, loop, head, printed>>

(* Mutant: the inner loop is not left on the line below the stack.        *)
DoesNotBreak ==
    /\ loop = "stack"
    /\ next_line_cursor > Len(lines)
    /\ loop' = "lines"
    /\ line_cursor' = line_cursor + 1
    /\ UNCHANGED <<lines, next_line_cursor, head, errors, printed>>

LeaveStack ==
    /\ loop = "stack"
    /\ ~ InStack /\ ~ Raises
    /\ loop' = "lines"
    /\ line_cursor' = line_cursor + 1
    /\ UNCHANGED <<lines, next_line_cursor, head, errors, printed>>

(* Mutant: a pattern that cannot be compiled is taken for one that does    *)
(* not match.                                                              *)
PatternIsSkipped ==
    /\ loop = "stack"
    /\ Raises
    /\ loop' = "lines"
    /\ line_cursor' = line_cursor + 1
    /\ UNCHANGED <<lines, next_line_cursor, head, errors, printed>>

(* The exception ends the tool, of what is collected nothing is printed.   *)
PatternRaises ==
    /\ loop = "stack"
    /\ Raises
    /\ loop' = "raised"
    /\ UNCHANGED <<lines, line_cursor, next_line_cursor, head, errors, printed>>

OtherLine ==
    /\ loop = "lines"
    /\ line_cursor <= Len(lines)
    /\ Line.head = NoHead
    /\ errors' = IF IsReported(Line) THEN Append(errors, Line.text) ELSE errors
    /\ line_cursor' = line_cursor + 1
    /\ UNCHANGED <<lines, loop, next_line_cursor, head, printed>>

LastLine ==
    /\ loop = "lines"
    /\ line_cursor > Len(lines)
    /\ loop' = "done"
    /\ printed' = errors
    /\ UNCHANGED <<lines, line_cursor, next_line_cursor, head, errors>>

ExtractNext ==
    \/ FindTraceback
    \/ FollowStack
    \/ LeaveStack
    \/ PatternRaises
    \/ OtherLine
    \/ LastLine

(* A single thread that nothing holds up.                                  *)
ExtractSpec == ExtractInit /\ [][ExtractNext]_extractVars /\ WF_extractVars(ExtractNext)

-----------------------------------------------------------------------------
(* Reference definition.  TraceOf(log)[i] is the line of the traceback     *)
(* that line i of a log belongs to, 0 if to none: a stack goes on as long  *)
(* as lines match its pattern, tracebacks inside of it included.           *)
TraceOf(log) ==
    LET trace[i \in 0..Len(log)] ==
          IF i = 0 THEN 0
          ELSE IF trace[i - 1] # 0 /\ log[trace[i - 1]].head \in log[i].under
               THEN trace[i - 1]
          ELSE IF log[i].head # NoHead THEN i
          ELSE 0
    IN  trace

(* Lines of tracebacks are extracted wherever they are, a line that        *)
(* reports an error where it is for the first time.                        *)
IsExtracted(log, i) ==
    \/ TraceOf(log)[i] # 0
    \/ /\ log[i].error /\ ~ log[i].warning
       /\ \A j \in 1..(i - 1) : log[j].text # log[i].text

(* Extract(log)[n] is what is to be extracted from the first n lines.      *)
Extract(log) ==
    LET extract[n \in 0..Len(log)] ==
          IF n = 0 THEN << >>
          ELSE IF IsExtracted(log, n) THEN Append(extract[n - 1], log[n].text)
          ELSE extract[n - 1]
    IN  extract

(* The line below line i is one on which the pattern of the traceback that *)
(* line i belongs to raises.                                               *)
RaisesBelow(log, i) ==
    TraceOf(log)[i] # 0 /\ log[TraceOf(log)[i]].head \in log[i + 1].raises

HasRaisingLine(log) == \E i \in 1..(Len(log) - 1) : RaisesBelow(log, i)

(* The lines passed by the cursors, and no others, have been looked at,    *)
(* once, in order: whatever traces, errors and repetitions a log has, what *)
(* is collected is what the reference definition extracts of these lines.  *)
CollectsWhatIsExtracted ==
    errors = Extract(lines)[IF loop \in {"stack", "raised"}
                            THEN next_line_cursor - 1
                            ELSE line_cursor - 1]

(* All that is to be extracted from a log is printed, or nothing of it;    *)
(* nothing exactly for the logs in which a traceback is preceded by        *)
(* characters that cannot be used as a pattern, and followed by a line     *)
(* that is long enough to be searched for it.                              *)
PrintsAllOrNothing ==
    /\ loop = "done" => printed = Extract(lines)[Len(lines)] /\ ~ HasRaisingLine(lines)
    /\ loop = "raised" => printed = << >> /\ HasRaisingLine(lines)

(* The two loops come to the end of every log, or to that exception.       *)
Terminates == <>(loop \in {"done", "raised"})
=============================================================================
