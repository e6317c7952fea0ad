-------------------------------- MODULE MCBoot --------------------------------
(* A small instance of Boot for TLC.  Two lines fit; the files are one or    *)
(* two of each way a line can be read: not at all (Absent, High), as it is   *)
(* (Twice, Commented, Off), with its newline (TwiceLn, OffLn), with the rest *)
(* of the file in its value (Runs, OffRuns) or in its name (Spans, SpansLn). *)
EXTENDS Boot

MCName == {"console", "Console", "*nousbehci"}
MCFold == [n \in MCName \union {Long} |-> IF n = "Console" THEN "console" ELSE n]
Lower == B!Pair("console", "0")
Upper == B!Pair("Console", "1")
Nousbehci == B!Pair("*nousbehci", "1")

Ini(l, n, h) == [lines |-> l, newline |-> n, high |-> h]
Absent == Ini(<<>>, FALSE, FALSE)
High == Ini(<<Nousbehci, Lower>>, FALSE, TRUE)
Twice == Ini(<<Lower, Upper>>, FALSE, FALSE)
TwiceLn == Ini(<<Upper, Lower>>, TRUE, FALSE)
Commented == Ini(<<B!Comment, Upper>>, FALSE, FALSE)
Off == Ini(<<Nousbehci>>, TRUE, FALSE)
OffLn == Ini(<<Lower, Nousbehci>>, TRUE, FALSE)
Runs == Ini(<<Lower, Upper, Nousbehci>>, FALSE, FALSE)
OffRuns == Ini(<<B!Commented, Nousbehci, Lower>>, FALSE, FALSE)
Spans == Ini(<<Nousbehci, B!Text, Upper>>, FALSE, FALSE)
SpansLn == Ini(<<Upper, B!Text, B!Text, B!Commented>>, TRUE, FALSE)
MCFile == {Absent, High, Twice, TwiceLn, Commented, Off, OffLn, Runs, OffRuns, Spans, SpansLn}
=============================================================================
