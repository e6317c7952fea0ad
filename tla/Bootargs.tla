------------------------------- MODULE Bootargs -------------------------------
(***************************************************************************)
(* plan9.ini (bootargs.c): the file U-Boot left in memory is cut into      *)
(* lines in place and the names and values point into it; the first        *)
(* process makes them its environment.  A file is what lies in the         *)
(* BOOTARGSLEN bytes, as a sequence of lines that are not empty (getfields *)
(* drops the others); a line is a comment, with or without a '=', a text   *)
(* that has none, or a name and a value.                                   *)
(***************************************************************************)
EXTENDS Naturals, Sequences, SequencesExt

CONSTANTS
  MAXCONF,   \* lines and names there is room for: 64
  Name,      \* names, as they are spelled
  Fold,      \* Fold[n]: n in lower case
  Star,      \* the names that begin with '*'
  Value,
  Long       \* what spans lines: nobody asks for it or looks at it

MaxconfAssumption == MAXCONF \in Nat \ {0}
FoldAssumption ==
  /\ Fold \in [Name \union {Long} -> Name \union {Long}] /\ Fold[Long] = Long
  /\ \A n \in Name : Fold[n] \in Name /\ Fold[Fold[n]] = Fold[n]
StarAssumption == Star \subseteq Name \union {Long} /\ \A n \in Name : n \in Star <=> Fold[n] \in Star

LongAssumption == Long \notin Name

Comment == [kind |-> "comment"]
Commented == [kind |-> "commented"]   \* with a '=' in it
Text == [kind |-> "text"]
Pair(n, v) == [kind |-> "pair", name |-> n, value |-> v]
Line == {Comment, Commented, Text} \union {Pair(n, v) : n \in Name, v \in Value}

VARIABLES
  file,    \* its lines
  newline, \* the last line ends like the others
  high,    \* the first byte is 0x80 or more: nothing U-Boot would have put there
  at,      \* bootargsinit is to come, has been; setconfenv has been, an error ended it
  conf,    \* confname and confval: [name, value, tail]
  env      \* env[f]: what ksetenv has set with flag f

vars == <<file, newline, high, at, conf, env>>

-----------------------------------------------------------------------------
(* A first line that begins with '#' does not begin with 0x80. *)
Begins(f, h) == h => f # <<>> /\ f[1].kind \notin {"comment", "commented"}

Init(F, N, H) ==
  /\ file \in F /\ newline \in N /\ high \in H /\ Begins(file, high) /\ at = "start"
  /\ conf = <<>> /\ env = [f \in {0, 1} |-> {}]

(* getfields(cp, line, MAXCONF, 1, "\n"): once there are MAXCONF fields      *)
(* nothing is cut off the last one, not even its own newline.                *)
Fields == [i \in 1 .. IF Len(file) < MAXCONF THEN Len(file) ELSE MAXCONF |-> file[i]]

(* Field i goes on with the rest of the file. *)
RunsOn(i) == i = MAXCONF /\ (Len(file) > MAXCONF \/ newline)

Same(c, n) == Fold[c.name] = Fold[n]

(* findconf: the first of that name, or 0. *)
Findconf(cs, n) == SelectInSeq(cs, LAMBDA c : Same(c, n))

(* What could go wrong: the first value stays. *)
AddconfFirst(cs, n, v, t) ==
  IF Findconf(cs, n) # 0 THEN cs ELSE Append(cs, [name |-> n, value |-> v, tail |-> t])

(* addconf: the first spelling, the last value. *)
Addconf(cs, n, v, t) ==
  LET i == Findconf(cs, n) IN
  IF i # 0 THEN [cs EXCEPT ![i] = [@ EXCEPT !.value = v, !.tail = t]]
  ELSE IF Len(cs) >= MAXCONF THEN cs
  ELSE Append(cs, [name |-> n, value |-> v, tail |-> t])

(* A text that goes on and meets a later line's '=': its name is all that is *)
(* before that, and one more of the names, for no line is read after it.     *)
Meets(i) ==
  /\ Fields[i].kind = "text" /\ RunsOn(i)
  /\ \E j \in i + 1 .. Len(file) : file[j].kind \in {"commented", "pair"}

(* One line. *)
Bootarg(cs, i) ==
  IF Fields[i].kind = "pair" THEN Addconf(cs, Fields[i].name, Fields[i].value, RunsOn(i))
  ELSE IF Meets(i) THEN Append(cs, [name |-> Long, value |-> Long, tail |-> TRUE]) ELSE cs

(* conf after each line. *)
Read[i \in 0 .. Len(Fields)] == IF i = 0 THEN <<>> ELSE Bootarg(Read[i - 1], i)

(* bootargsinit *)
Bootargsinit ==
  /\ at = "start" /\ at' = "read"
  /\ conf' = IF high THEN <<>> ELSE Read[Len(Fields)]
  /\ UNCHANGED <<file, newline, high, env>>

(* getconf(n) # nil *)
Getconf(n) == Findconf(conf, n) # 0

(* What could go wrong: '*' keeps a name out of both. *)
ExportedUnstarred(n, m) == [f \in {0, 1} |->
  {c \in ToSet(SubSeq(conf, 1, IF f = 0 THEN n ELSE m)) : c.name \notin Star}]

(* What could go wrong: '*' keeps a name out of none. *)
ExportedStarred(n, m) == [f \in {0, 1} |-> ToSet(SubSeq(conf, 1, IF f = 0 THEN n ELSE m))]

(* What ksetenv has set when it has been through n names with flag 0 and     *)
(* through m with flag 1. *)
Exported(n, m) == [f \in {0, 1} |->
  IF f = 0 THEN {c \in ToSet(SubSeq(conf, 1, n)) : c.name \notin Star}
  ELSE ToSet(SubSeq(conf, 1, m))]

(* setconfenv: flag 0, then flag 1, for one name after the other.  An error  *)
(* of ksetenv, at either, leads out of it to init0's waserror.               *)
Setconfenv ==
  /\ at = "read"
  /\ \/ at' = "set" /\ env' = Exported(Len(conf), Len(conf))
     \/ /\ at' = "error"
        /\ \E m \in 0 .. Len(conf) - 1 : \E n \in {m, m + 1} : env' = Exported(n, m)
  /\ UNCHANGED <<file, newline, high, conf>>

Next == Bootargsinit \/ Setconfenv

-----------------------------------------------------------------------------
(* Every variable has its type. *)
TypeOK ==
  /\ file \in Seq(Line) /\ newline \in BOOLEAN /\ high \in BOOLEAN
  /\ at \in {"start", "read", "set", "error"}
  /\ conf \in Seq([name : Name \union {Long}, value : Value \union {Long}, tail : BOOLEAN])
  /\ Len(conf) <= MAXCONF
  /\ env \in [{0, 1} -> SUBSET ToSet(conf)]

(* How many of the lines are read for what they are: all but line MAXCONF,   *)
(* whose value swallows the rest of the file, a newline if nothing else.     *)
Readable ==
  IF high THEN 0
  ELSE IF Len(file) < MAXCONF \/ (Len(file) = MAXCONF /\ ~newline) THEN Len(file)
  ELSE MAXCONF - 1

(* Those that give n a value, case aside; the first and the last. *)
Lines(n) == {i \in 1 .. Readable : file[i].kind = "pair" /\ Fold[file[i].name] = Fold[n]}
Least(S) == CHOOSE i \in S : \A j \in S : i <= j
Greatest(S) == CHOOSE i \in S : \A j \in S : j <= i

(* The entries for n. *)
Of(cs, n) == {c \in cs : Same(c, n)}

(* They are one, with the spelling of n's first line and the value of its    *)
(* last, unless line MAXCONF gave it another.                                *)
Says(cs, n) ==
  /\ \A c \in Of(cs, n) : c.name = file[Least(Lines(n))].name
  /\ \E c \in Of(cs, n) :
       Of(cs, n) = {c} /\ (c.tail \/ c.value = file[Greatest(Lines(n))].value)

(* Once the file has been read, getconf knows each name the file has and no  *)
(* other, but for what line MAXCONF made of the rest of the file.            *)
ConfTrue ==
  at # "start" =>
    \A n \in Name :
      IF Lines(n) = {} THEN \A c \in Of(ToSet(conf), n) : c.tail ELSE Says(ToSet(conf), n)

(* The first process finds in its environment what plan9.ini says: each name *)
(* under flag 1, and under flag 0 those that do not begin with '*'; if       *)
(* ksetenv failed names may be missing, but none is there that should not be *)
(* and none says anything else.                                              *)
EnvTrue ==
  at \in {"set", "error"} =>
    \A n \in Name, f \in {0, 1} :
      IF f = 0 /\ n \in Star THEN Of(env[f], n) = {}
      ELSE IF Lines(n) = {} THEN \A c \in Of(env[f], n) : c.tail
      ELSE Says(env[f], n) \/ (at = "error" /\ Of(env[f], n) = {})
=============================================================================
