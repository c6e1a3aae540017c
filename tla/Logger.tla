------------------------------- MODULE Logger -------------------------------
(***************************************************************************)
(* afc::logger (src/src/afc/logger.hpp, logger.cpp): threads write log     *)
(* records to one stdio FILE.  A record is written piecewise, under        *)
(* flockfile, and ends in a newline; a call returns whether it was written *)
(* completely.  Any stdio call may fail after writing a part, and a        *)
(* user-defined logPrint may throw.                                        *)
(*                                                                         *)
(* A format is a sequence of characters in which "#" stands for the next   *)
(* argument and "\" makes the character behind it plain.                   *)
(***************************************************************************)
EXTENDS Integers, Sequences, FiniteSets

CONSTANTS
  Threads,
  NoThread,   (* The FILE is not locked.                                   *)
  FmtCalls,   (* Calls of logToFileFmt: [format, args, flush].             *)
  PlainCalls, (* Calls of logToFile: [args, flush].                        *)
  Throwing,   (* Arguments whose logPrint throws.                          *)
  MaxCalls    (* Calls a thread makes.  Bounds the model.                  *)

ASSUME LoggerAssumption ==
  /\ NoThread \notin Threads
  /\ FmtCalls \subseteq [format : Seq(STRING), args : Seq(STRING), flush : BOOLEAN]
  /\ PlainCalls \subseteq [args : Seq(STRING), flush : BOOLEAN]
  /\ MaxCalls \in Nat \ {0}

VARIABLES
  owner,    (* The thread that holds the lock of the FILE.                 *)
  thread,   (* thread[t]: the frame of the call t executes.                *)
  stream,   (* Everything stdio accepted, in order: which call wrote what. *)
  flushed,  (* How much of stream has reached the file.                    *)
  broken    (* Calls during which a stdio function failed.                 *)

vars == <<owner, thread, stream, flushed, broken>>

(***************************************************************************)
(* pc of a frame: "idle", "lock" (waiting in flockfile), "parse" (the loop *)
(* of logInternalFmt), "print" (the recursion of logToFileInternal),       *)
(* "finish" (the newline of a format), "newline" (that of plain            *)
(* arguments), "flush", "unlock".  i and start are `format` and `start` of *)
(* logInternalFmt, arg is paramPtr or the number of arguments printed.     *)
(***************************************************************************)
Escape == "\\"
NL == "nl"

Kinds == [kind : {"fmt"}, call : FmtCalls] \cup [kind : {"plain"}, call : PlainCalls]
Idle(n, res) == [pc |-> "idle", kind |-> "none", call |-> <<>>, i |-> 1, start |-> 1,
                 arg |-> 1, success |-> FALSE, result |-> res, n |-> n]

Frame(t) == thread[t]
Format(t) == Frame(t).call.format
Args(t) == Frame(t).call.args
Id(t) == <<t, Frame(t).n>>
Goto(t, pc) == thread' = [thread EXCEPT ![t].pc = pc]
GotoWith(t, pc, success) == thread' = [thread EXCEPT ![t].pc = pc, ![t].success = success]

Init ==
  /\ owner = NoThread
  /\ thread = [t \in Threads |-> Idle(0, "none")]
  /\ stream = <<>>
  /\ flushed = 0
  /\ broken = {}

(***************************************************************************)
(* stdio.                                                                  *)
(***************************************************************************)
Tokens(t, s) == [k \in 1..Len(s) |-> [by |-> Id(t), c |-> s[k]]]

(* A stdio output function accepts all of s, *)
Accepts(t, s) == stream' = stream \o Tokens(t, s) /\ UNCHANGED broken

(* or fails after a part of it; nothing can fail when there is nothing to  *)
(* write.                                                                  *)
Fails(t, s) ==
  /\ s # <<>>
  /\ \E k \in 0..(Len(s) - 1) : stream' = stream \o SubSeq(Tokens(t, s), 1, k)
  /\ broken' = broken \cup {Id(t)}

(***************************************************************************)
(* A call begins and locks the FILE (FileLock).                            *)
(***************************************************************************)
call(t) ==
  /\ Frame(t).pc = "idle" /\ Frame(t).n < MaxCalls
  /\ \E c \in Kinds :
       thread' = [thread EXCEPT ![t] =
         [Idle(@.n + 1, "none") EXCEPT !.pc = "lock", !.kind = c.kind, !.call = c.call]]
  /\ UNCHANGED <<owner, stream, flushed, broken>>

flockfile_Unlocked(t) ==
  /\ Frame(t).pc = "lock"
  /\ owner' = t
  /\ Goto(t, IF Frame(t).kind = "fmt" THEN "parse" ELSE "print")
  /\ UNCHANGED <<stream, flushed, broken>>

flockfile(t) ==
  /\ Frame(t).pc = "lock"
  /\ owner = NoThread
  /\ owner' = t
  /\ Goto(t, IF Frame(t).kind = "fmt" THEN "parse" ELSE "print")
  /\ UNCHANGED <<stream, flushed, broken>>

(***************************************************************************)
(* logInternalFmt.                                                         *)
(***************************************************************************)
InFormat(t) == Frame(t).pc = "parse" /\ Frame(t).i <= Len(Format(t))
Char(t) == Format(t)[Frame(t).i]
(* The plain text not yet written. *)
Text(t) == SubSeq(Format(t), Frame(t).start, Frame(t).i - 1)

(* Plain characters are collected. *)
plainChar(t) ==
  /\ InFormat(t) /\ Char(t) \notin {"#", Escape}
  /\ thread' = [thread EXCEPT ![t].i = @ + 1]
  /\ UNCHANGED <<owner, stream, flushed, broken>>

textFails(t) ==
  /\ Frame(t).pc = "parse"
  /\ IF Frame(t).i <= Len(Format(t)) THEN Char(t) \in {"#", Escape} ELSE TRUE
  /\ Fails(t, Text(t))
  /\ GotoWith(t, "finish", FALSE)
  /\ UNCHANGED <<owner, flushed>>

(* "#": the text before it is written, then the next argument. *)
placeholder(t) ==
  LET a == Frame(t).arg IN
  /\ InFormat(t) /\ Char(t) = "#"
  /\ UNCHANGED <<owner, flushed>>
  /\ \/ /\ a > Len(Args(t))
        /\ Accepts(t, Text(t))
        /\ GotoWith(t, "finish", FALSE)
     \/ /\ a <= Len(Args(t)) /\ Args(t)[a] \notin Throwing
        /\ Accepts(t, Text(t) \o <<Args(t)[a]>>)
        /\ thread' = [thread EXCEPT ![t].i = @ + 1, ![t].start = Frame(t).i + 1,
                                    ![t].arg = @ + 1]
     \/ /\ a <= Len(Args(t)) /\ Args(t)[a] \notin Throwing
        /\ stream' = stream \o Tokens(t, Text(t))
        /\ broken' = broken \cup {Id(t)}
        /\ GotoWith(t, "finish", FALSE)
     \/ /\ a <= Len(Args(t)) /\ Args(t)[a] \in Throwing
        /\ Accepts(t, Text(t))
        /\ thread' = [thread EXCEPT ![t].pc = "unlock", ![t].result = "threw"]

(* "\": the text before it is written; the character behind it begins the  *)
(* next text, whatever it is.  (As in FastStringBuffer, X_Y is X with a    *)
(* mistake and part of no specification.)                                  *)
escape_Reparses(t) ==
  /\ InFormat(t) /\ Char(t) = Escape
  /\ Accepts(t, Text(t))
  /\ UNCHANGED <<owner, flushed>>
  /\ IF Frame(t).i = Len(Format(t))
     THEN GotoWith(t, "finish", FALSE)
     ELSE thread' = [thread EXCEPT ![t].i = @ + 1, ![t].start = Frame(t).i + 1]

escape(t) ==
  /\ InFormat(t) /\ Char(t) = Escape
  /\ Accepts(t, Text(t))
  /\ UNCHANGED <<owner, flushed>>
  /\ IF Frame(t).i = Len(Format(t))
     THEN GotoWith(t, "finish", FALSE)
     ELSE thread' = [thread EXCEPT ![t].i = @ + 2, ![t].start = Frame(t).i + 1]

(* The end of the format: the last text, and no argument may be left. *)
endOfFormat_OffByOne(t) ==
  /\ Frame(t).pc = "parse" /\ Frame(t).i > Len(Format(t))
  /\ Accepts(t, Text(t))
  /\ GotoWith(t, "finish", Frame(t).arg = Len(Args(t)))
  /\ UNCHANGED <<owner, flushed>>

endOfFormat(t) ==
  /\ Frame(t).pc = "parse" /\ Frame(t).i > Len(Format(t))
  /\ Accepts(t, Text(t))
  /\ GotoWith(t, "finish", Frame(t).arg = Len(Args(t)) + 1)
  /\ UNCHANGED <<owner, flushed>>

AfterNewline(t) == IF Frame(t).call.flush THEN "flush" ELSE "unlock"

(* finish: the newline, after success and failure alike. *)
finish_OnlySuccess(t) ==
  /\ Frame(t).pc = "finish"
  /\ UNCHANGED <<owner, flushed>>
  /\ \/ /\ ~Frame(t).success
        /\ Goto(t, AfterNewline(t))
        /\ UNCHANGED <<stream, broken>>
     \/ Frame(t).success /\ Accepts(t, <<NL>>) /\ Goto(t, AfterNewline(t))
     \/ Frame(t).success /\ Fails(t, <<NL>>) /\ GotoWith(t, AfterNewline(t), FALSE)

finish(t) ==
  /\ Frame(t).pc = "finish"
  /\ UNCHANGED <<owner, flushed>>
  /\ \/ Accepts(t, <<NL>>) /\ Goto(t, AfterNewline(t))
     \/ Fails(t, <<NL>>) /\ GotoWith(t, AfterNewline(t), FALSE)

(***************************************************************************)
(* logToFileInternal and logToFile.                                        *)
(***************************************************************************)
print(t) ==
  LET a == Frame(t).arg IN
  /\ Frame(t).pc = "print" /\ a <= Len(Args(t))
  /\ UNCHANGED <<owner, flushed>>
  /\ \/ /\ Args(t)[a] \notin Throwing
        /\ Accepts(t, <<Args(t)[a]>>)
        /\ thread' = [thread EXCEPT ![t].arg = @ + 1]
     \/ /\ Args(t)[a] \notin Throwing
        /\ Fails(t, <<Args(t)[a]>>)
        /\ GotoWith(t, AfterNewline(t), FALSE)
     \/ /\ Args(t)[a] \in Throwing
        /\ thread' = [thread EXCEPT ![t].pc = "unlock", ![t].result = "threw"]
        /\ UNCHANGED <<stream, broken>>

(* && fputc('\n', dest): only after every argument was printed. *)
newline(t) ==
  /\ Frame(t).pc = "print" /\ Frame(t).arg > Len(Args(t))
  /\ UNCHANGED <<owner, flushed>>
  /\ \/ Accepts(t, <<NL>>) /\ GotoWith(t, AfterNewline(t), TRUE)
     \/ Fails(t, <<NL>>) /\ GotoWith(t, AfterNewline(t), FALSE)

(***************************************************************************)
(* The end of both: fflush, also after a failure, and ~FileLock.           *)
(***************************************************************************)
fflush(t) ==
  /\ Frame(t).pc = "flush"
  /\ UNCHANGED <<owner, stream>>
  /\ \/ flushed' = Len(stream) /\ Goto(t, "unlock") /\ UNCHANGED broken
     \/ /\ flushed' \in flushed..Len(stream)
        /\ GotoWith(t, "unlock", FALSE)
        /\ broken' = broken \cup {Id(t)}

Outcome(t) == IF Frame(t).result = "threw" THEN "threw"
              ELSE IF Frame(t).success THEN "true" ELSE "false"

(* An unlock that an exception skips. *)
funlockfile_NotOnThrow(t) ==
  /\ Frame(t).pc = "unlock"
  /\ owner' = IF Outcome(t) = "threw" THEN owner ELSE NoThread
  /\ thread' = [thread EXCEPT ![t].pc = "idle", ![t].result = Outcome(t)]
  /\ UNCHANGED <<stream, flushed, broken>>

funlockfile(t) ==
  /\ Frame(t).pc = "unlock"
  /\ owner' = NoThread
  /\ thread' = [thread EXCEPT ![t].pc = "idle", ![t].result = Outcome(t)]
  /\ UNCHANGED <<stream, flushed, broken>>

(* stdio writes its buffer out by itself when it is full. *)
drain ==
  /\ flushed < Len(stream)
  /\ flushed' = Len(stream)
  /\ UNCHANGED <<owner, thread, stream, broken>>

Step(t) ==
  \/ flockfile(t)
  \/ plainChar(t) \/ textFails(t) \/ placeholder(t) \/ escape(t) \/ endOfFormat(t)
  \/ finish(t) \/ print(t) \/ newline(t) \/ fflush(t) \/ funlockfile(t)

Next == drain \/ \E t \in Threads : call(t) \/ Step(t)

(* A thread inside a call goes on, as the scheduler of the platform        *)
(* ensures; callers need not make another call.                            *)
Fairness == \A t \in Threads : WF_vars(Step(t))
Spec == Init /\ [][Next]_vars /\ Fairness

(***************************************************************************)
(* What a format means, written apart from the code that parses it.        *)
(***************************************************************************)
Ids == Threads \X (1..MaxCalls)

(* Positions of f that a "\" before them makes plain, or that are such a   *)
(* "\" themselves.                                                         *)
Escapes(f) == {k \in 1..Len(f) :
                 /\ f[k] = Escape
                 /\ LET run == {j \in 1..k : \A m \in j..k : f[m] = Escape}
                    IN  Cardinality(run) % 2 = 1}
Holes(f) == {k \in 1..Len(f) : f[k] = "#" /\ k - 1 \notin Escapes(f)}
WellFormed(f, args) == Len(f) \notin Escapes(f) /\ Cardinality(Holes(f)) = Len(args)

(* What the format prints: escapes dropped, the n-th hole filled with the  *)
(* n-th argument.                                                          *)
Expansion(f, args) ==
  LET kept == (1..Len(f)) \ Escapes(f)
      At(n) == CHOOSE k \in kept : Cardinality({j \in kept : j <= k}) = n
      Unit(k) == IF k \in Holes(f)
                 THEN args[Cardinality({j \in Holes(f) : j <= k})] ELSE f[k]
  IN  [n \in 1..Cardinality(kept) |-> Unit(At(n))]

Record(c) == (IF c.kind = "fmt" THEN Expansion(c.call.format, c.call.args)
              ELSE c.call.args) \o <<NL>>

(***************************************************************************)
(* Properties.                                                             *)
(***************************************************************************)
Outcomes == {"none", "true", "false", "threw"}

(* Frames are those of calls that can be made, what a stdio failure was    *)
(* recorded for is a call, and no more is flushed than was written.        *)
TypeOK ==
  /\ owner \in Threads \cup {NoThread}
  /\ \A t \in Threads :
       /\ Frame(t).pc \in {"idle", "lock", "parse", "finish", "print", "flush", "unlock"}
       /\ Frame(t).n \in 0..MaxCalls
       /\ Frame(t).result \in Outcomes
       /\ Frame(t).pc \notin {"idle"} =>
            [kind |-> Frame(t).kind, call |-> Frame(t).call] \in Kinds
       /\ Frame(t).pc = "parse" =>
            /\ Frame(t).i \in 1..(Len(Format(t)) + 1)
            /\ Frame(t).start \in 1..(Len(Format(t)) + 1)
            /\ Frame(t).arg \in 1..(Len(Args(t)) + 1)
  /\ broken \subseteq Ids
  /\ flushed \in 0..Len(stream)

(* The pieces of a record are never mixed with those of another, however   *)
(* the threads run and whichever stdio calls fail.                         *)
Contiguous ==
  \A j, k \in 1..Len(stream) :
    j < k /\ stream[j].by = stream[k].by
    => \A m \in j..k : stream[m].by = stream[j].by

WrittenBy(id) == {k \in 1..Len(stream) : stream[k].by = id}
Wrote(id, text) ==
  \E from \in 0..Len(stream) :
    /\ WrittenBy(id) = (from + 1)..(from + Len(text))
    /\ \A k \in 1..Len(text) : stream[from + k].c = text[k]
EndsLine(id) ==
  \E k \in WrittenBy(id) : stream[k].c = NL /\ \A m \in WrittenBy(id) : m <= k
Returned(t) == Frame(t).pc = "idle" /\ Frame(t).n > 0

(* A call that returned true wrote exactly the record its arguments and    *)
(* format stand for, newline included, and a flushing call's record is in  *)
(* the file.                                                               *)
TrueMeansWritten ==
  \A t \in Threads : Returned(t) /\ Frame(t).result = "true" =>
    /\ Wrote(Id(t), Record(Frame(t)))
    /\ Frame(t).call.flush => \A k \in WrittenBy(Id(t)) : k <= flushed

(* A call returns false only when stdio failed or its format does not fit  *)
(* its arguments: no record that could be written is reported as lost.     *)
(* Such a record still ends in a newline unless stdio refused something,   *)
(* so that the next one begins on a line of its own.                       *)
FalseHasACause ==
  \A t \in Threads : Returned(t) =>
    /\ Frame(t).result = "false" =>
         \/ Id(t) \in broken
         \/ Frame(t).kind = "fmt" /\ ~WellFormed(Format(t), Args(t))
    /\ Frame(t).kind = "fmt" /\ Frame(t).result # "threw" /\ Id(t) \notin broken =>
         EndsLine(Id(t))

(* Every call returns, also after failures and exceptions of other calls:  *)
(* the lock is always released.                                            *)
CallsReturn == \A t \in Threads : Frame(t).pc # "idle" ~> Frame(t).pc = "idle"
=============================================================================
