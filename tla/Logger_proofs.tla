---------------------------- MODULE Logger_proofs ----------------------------
(***************************************************************************)
(* Records are never mixed, and what a call answers is true, for every     *)
(* number of threads and calls, every format and every pattern of stdio    *)
(* failures and exceptions.                                                *)
(***************************************************************************)
EXTENDS Logger, Counting, TLAPS

Region == {"parse", "print", "finish", "flush", "unlock"}
FrameType == [pc : Region \cup {"idle", "lock"}, kind : {"none", "fmt", "plain"},
              call : FmtCalls \cup PlainCalls \cup {<<>>},
              i : Nat \ {0}, start : Nat \ {0}, arg : Nat \ {0}, success : BOOLEAN,
              result : Outcomes, n : Nat]
CharSet == STRING \cup {NL}
TokenType == [by : Threads \X Nat, c : CharSet]

(* The call a frame executes has the shape its kind says, and the parser   *)
(* has not run past the end of the format.                                 *)
CallOK(t) ==
  /\ thread[t].pc = "lock" =>
       \/ thread[t].kind = "fmt" /\ thread[t].call \in FmtCalls /\ thread[t].i = 1
       \/ thread[t].kind = "plain" /\ thread[t].call \in PlainCalls
  /\ thread[t].pc = "parse" =>
       thread[t].call \in FmtCalls /\ thread[t].i <= Len(thread[t].call.format) + 1
  /\ thread[t].pc = "print" => thread[t].call \in PlainCalls

Types == /\ owner \in Threads \cup {NoThread}
         /\ thread \in [Threads -> FrameType]
         /\ stream \in Seq(TokenType)
         /\ \A t \in Threads : CallOK(t)

(* Only the owner of the lock is between flockfile and funlockfile. *)
Exclusive == \A t \in Threads : thread[t].pc \in Region <=> owner = t

(* Tokens are those of calls that began, and not of a call that still      *)
(* waits for the lock.                                                     *)
FromStarted ==
  \A k \in 1..Len(stream) : \A t \in Threads : stream[k].by[1] = t =>
    /\ stream[k].by[2] <= thread[t].n
    /\ thread[t].pc = "lock" => stream[k].by # Id(t)

(* What the owner wrote is at the end of the stream. *)
OwnerLast ==
  \A t \in Threads : owner = t =>
    \A k, m \in 1..Len(stream) : k < m /\ stream[k].by = Id(t) => stream[m].by = Id(t)

LInv == Types /\ Exclusive /\ FromStarted /\ OwnerLast /\ Contiguous

(***************************************************************************)
(* A step between flockfile and funlockfile writes, if anything, tokens of *)
(* the thread's own call.                                                  *)
(***************************************************************************)
OwnTokens(t, s) == s \in Seq(TokenType) /\ \A k \in 1..Len(s) : s[k].by = Id(t)

Inside(t) ==
  /\ thread[t].pc \in Region
  /\ owner' = owner
  /\ \E s : OwnTokens(t, s) /\ stream' = stream \o s
  /\ \E f \in FrameType :
       /\ thread' = [thread EXCEPT ![t] = f]
       /\ f.n = thread[t].n /\ f.pc \in Region /\ f.call = thread[t].call
       /\ f.pc \in {"parse", "print"} => f.pc = thread[t].pc
       /\ f.pc = "parse" => f.i <= Len(Format(t)) + 1

LEMMA TokensOwn ==
  ASSUME Types, NEW t \in Threads, NEW s \in Seq(CharSet)
  PROVE  /\ OwnTokens(t, Tokens(t, s))
         /\ Len(Tokens(t, s)) = Len(s)
         /\ \A k \in 0..Len(s) : OwnTokens(t, SubSeq(Tokens(t, s), 1, k))
<1>1. Id(t) \in Threads \X Nat
  BY DEF Types, Id, Frame, FrameType
<1>2. Tokens(t, s) = [k \in 1..Len(s) |-> [by |-> Id(t), c |-> s[k]]]
  BY DEF Tokens
<1>3. Len(s) \in Nat /\ \A k \in 1..Len(s) : [by |-> Id(t), c |-> s[k]] \in TokenType
  BY <1>1 DEF TokenType
<1>4. Tokens(t, s) \in Seq(TokenType) /\ Len(Tokens(t, s)) = Len(s)
  BY <1>2, <1>3
<1>5. \A k \in 1..Len(s) : Tokens(t, s)[k].by = Id(t)
  BY <1>2
<1>6. ASSUME NEW k \in 0..Len(s) PROVE OwnTokens(t, SubSeq(Tokens(t, s), 1, k))
  <2>1. SubSeq(Tokens(t, s), 1, k) \in Seq(TokenType) /\ Len(SubSeq(Tokens(t, s), 1, k)) = k
    BY <1>3, <1>4
  <2>2. \A m \in 1..k : SubSeq(Tokens(t, s), 1, k)[m] = Tokens(t, s)[m]
    BY <1>3, <1>4
  <2> QED BY <1>3, <1>5, <2>1, <2>2 DEF OwnTokens
<1> QED BY <1>4, <1>5, <1>6 DEF OwnTokens

LEMMA NothingOwn ==
  ASSUME Types, NEW t \in Threads, stream' = stream
  PROVE  \E s : OwnTokens(t, s) /\ stream' = stream \o s
<1>1. OwnTokens(t, <<>>) /\ stream' = stream \o <<>>
  BY DEF OwnTokens, Types
<1> QED BY <1>1

LEMMA AcceptsOwn ==
  ASSUME Types, NEW t \in Threads, NEW s \in Seq(CharSet), Accepts(t, s)
  PROVE  \E x : OwnTokens(t, x) /\ stream' = stream \o x
BY TokensOwn DEF Accepts

LEMMA FailsOwn ==
  ASSUME Types, NEW t \in Threads, NEW s \in Seq(CharSet), Fails(t, s)
  PROVE  \E x : OwnTokens(t, x) /\ stream' = stream \o x
<1>1. PICK k \in 0..(Len(s) - 1) : stream' = stream \o SubSeq(Tokens(t, s), 1, k)
  BY DEF Fails
<1>2. k \in 0..Len(s)
  OBVIOUS
<1> QED BY <1>1, <1>2, TokensOwn

LEMMA SingletonText ==
  ASSUME NEW S, NEW e \in S PROVE <<e>> \in Seq(S)
OBVIOUS

LEMMA TextOfStrings ==
  ASSUME NEW S, NEW T, S \subseteq T, NEW s \in Seq(S) PROVE s \in Seq(T)
OBVIOUS

LEMMA FormatTypes ==
  ASSUME Types, NEW t \in Threads
  PROVE  /\ thread[t].pc = "parse" =>
              /\ Text(t) \in Seq(CharSet)
              /\ Format(t) \in Seq(CharSet) /\ Args(t) \in Seq(CharSet)
              /\ \A a \in Nat \ {0} : a <= Len(Args(t)) =>
                   Text(t) \o <<Args(t)[a]>> \in Seq(CharSet)
         /\ thread[t].pc = "print" =>
              /\ Args(t) \in Seq(CharSet)
              /\ \A a \in Nat \ {0} : a <= Len(Args(t)) =>
                   <<Args(t)[a]>> \in Seq(CharSet)
<1>0. \A s \in Seq(STRING) : s \in Seq(CharSet)
  <2>1. STRING \subseteq CharSet
    BY DEF CharSet
  <2> QED BY <2>1, TextOfStrings
<1>1. thread[t].call \in FmtCalls =>
        /\ Format(t) \in Seq(CharSet) /\ Args(t) \in Seq(CharSet)
  BY <1>0, LoggerAssumption DEF Format, Args, Frame
<1>2. thread[t].call \in PlainCalls => Args(t) \in Seq(CharSet)
  BY <1>0, LoggerAssumption DEF Args, Frame
<1>3. thread[t].start \in Nat \ {0} /\ thread[t].i \in Nat \ {0}
  BY DEF Types, FrameType
<1>4. ASSUME thread[t].pc = "parse" PROVE Text(t) \in Seq(CharSet)
  <2>1. Format(t) \in Seq(CharSet) /\ Frame(t).i - 1 <= Len(Format(t))
    BY <1>1, <1>3, <1>4 DEF Types, CallOK, Format, Frame
  <2> QED BY <1>3, <2>1 DEF Text, Frame
<1>5. ASSUME NEW s \in Seq(CharSet), NEW u \in Seq(CharSet), NEW a \in Nat \ {0}, a <= Len(s)
      PROVE  <<s[a]>> \in Seq(CharSet) /\ u \o <<s[a]>> \in Seq(CharSet)
  BY <1>5
<1>6. (thread[t].pc = "parse" => thread[t].call \in FmtCalls)
      /\ (thread[t].pc = "print" => thread[t].call \in PlainCalls)
  BY DEF Types, CallOK
<1>7. CASE thread[t].pc = "parse"
  BY <1>1, <1>4, <1>5, <1>6, <1>7
<1>8. CASE thread[t].pc = "print"
  BY <1>2, <1>5, <1>6, <1>8
<1> QED BY <1>7, <1>8

(***************************************************************************)
(* Every step between flockfile and funlockfile is of that form.           *)
(***************************************************************************)
LEMMA FrameUpdates ==
  ASSUME NEW f \in FrameType
  PROVE  /\ \A pc \in Region : [f EXCEPT !.pc = pc] \in FrameType
         /\ \A pc \in Region, s \in BOOLEAN : [f EXCEPT !.pc = pc, !.success = s] \in FrameType
         /\ \A pc \in Region, r \in Outcomes : [f EXCEPT !.pc = pc, !.result = r] \in FrameType
         /\ [f EXCEPT !.i = @ + 1] \in FrameType
         /\ [f EXCEPT !.arg = @ + 1] \in FrameType
         /\ [f EXCEPT !.i = @ + 1, !.start = f.i + 1, !.arg = @ + 1] \in FrameType
         /\ [f EXCEPT !.i = @ + 2, !.start = f.i + 1] \in FrameType
<1>1. \A pc \in Region : [f EXCEPT !.pc = pc] \in FrameType
  BY DEF FrameType
<1>2. \A pc \in Region, s \in BOOLEAN : [f EXCEPT !.pc = pc, !.success = s] \in FrameType
  BY DEF FrameType
<1>3. \A pc \in Region, r \in Outcomes : [f EXCEPT !.pc = pc, !.result = r] \in FrameType
  BY DEF FrameType
<1>4. f.i + 1 \in Nat \ {0} /\ f.i + 2 \in Nat \ {0} /\ f.arg + 1 \in Nat \ {0}
  BY DEF FrameType
<1>5. [f EXCEPT !.i = @ + 1] \in FrameType
  BY <1>4 DEF FrameType
<1>6. [f EXCEPT !.arg = @ + 1] \in FrameType
  BY <1>4 DEF FrameType
<1>7. [f EXCEPT !.i = @ + 1, !.start = f.i + 1, !.arg = @ + 1] \in FrameType
  BY <1>4 DEF FrameType
<1>8. [f EXCEPT !.i = @ + 2, !.start = f.i + 1] \in FrameType
  BY <1>4 DEF FrameType
<1> QED BY <1>1, <1>2, <1>3, <1>5, <1>6, <1>7, <1>8

LEMMA GotoInside ==
  ASSUME Types, NEW t \in Threads, thread[t].pc \in Region, owner' = owner,
         NEW pc \in {"finish", "flush", "unlock"},
         \/ Goto(t, pc)
         \/ \E s \in BOOLEAN : GotoWith(t, pc, s)
         \/ thread' = [thread EXCEPT ![t].pc = pc, ![t].result = "threw"],
         \E s : OwnTokens(t, s) /\ stream' = stream \o s
  PROVE  Inside(t)
<1> DEFINE f == thread[t]
<1>1. f \in FrameType /\ pc \in Region /\ "threw" \in Outcomes
  BY DEF Types, Region, Outcomes
<1>2. ASSUME NEW g \in FrameType, thread' = [thread EXCEPT ![t] = g],
             g.n = f.n, g.pc = pc, g.call = f.call
      PROVE  Inside(t)
  BY <1>1, <1>2 DEF Inside
<1>3. CASE Goto(t, pc)
  <2> DEFINE g == [f EXCEPT !.pc = pc]
  <2>3. g \in FrameType
    BY <1>1, FrameUpdates, Zenon
  <2>1. g \in FrameType /\ g.n = f.n /\ g.pc = pc /\ g.call = f.call
    BY <1>1, <2>3 DEF FrameType
  <2>2. thread' = [thread EXCEPT ![t] = g]
    BY <1>3 DEF Goto
  <2> QED BY <1>2, <2>1, <2>2
<1>4. ASSUME NEW s \in BOOLEAN, GotoWith(t, pc, s) PROVE Inside(t)
  <2> DEFINE g == [f EXCEPT !.pc = pc, !.success = s]
  <2>3. g \in FrameType
    BY <1>1, <1>4, FrameUpdates, Zenon
  <2>1. g \in FrameType /\ g.n = f.n /\ g.pc = pc /\ g.call = f.call
    BY <1>1, <2>3 DEF FrameType
  <2>2. thread' = [thread EXCEPT ![t] = g]
    BY <1>4 DEF GotoWith
  <2> QED BY <1>2, <2>1, <2>2
<1>5. CASE thread' = [thread EXCEPT ![t].pc = pc, ![t].result = "threw"]
  <2> DEFINE g == [f EXCEPT !.pc = pc, !.result = "threw"]
  <2>3. g \in FrameType
    BY <1>1, FrameUpdates, Zenon
  <2>1. g \in FrameType /\ g.n = f.n /\ g.pc = pc /\ g.call = f.call
    BY <1>1, <2>3 DEF FrameType
  <2>2. thread' = [thread EXCEPT ![t] = g]
    BY <1>5
  <2> QED BY <1>2, <2>1, <2>2
<1> QED BY <1>3, <1>4, <1>5

LEMMA InsideSteps ==
  ASSUME Types, NEW t \in Threads,
         \/ plainChar(t) \/ textFails(t) \/ placeholder(t) \/ escape(t)
         \/ endOfFormat(t) \/ finish(t) \/ print(t) \/ newline(t) \/ fflush(t)
  PROVE  Inside(t)
<1> DEFINE f == thread[t]
           Appended == \E s : OwnTokens(t, s) /\ stream' = stream \o s
<1>1. f \in FrameType
  BY DEF Types
<1>2. f.i \in Nat \ {0} /\ f.arg \in Nat \ {0} /\ f.start \in Nat \ {0}
  BY <1>1 DEF FrameType
<1>3. AfterNewline(t) \in {"finish", "flush", "unlock"}
  BY DEF AfterNewline
<1>4. <<NL>> \in Seq(CharSet)
  <2>1. NL \in CharSet
    BY DEF CharSet
  <2> QED BY <2>1, SingletonText
<1>5. ASSUME NEW g \in FrameType, thread' = [thread EXCEPT ![t] = g], owner' = owner, Appended,
             g.n = f.n, g.pc = f.pc, g.call = f.call, f.pc \in Region,
             f.pc = "parse" => g.i <= Len(Format(t)) + 1
      PROVE  Inside(t)
  BY <1>5 DEF Inside
<1>6. ASSUME plainChar(t) PROVE Inside(t)
  <2> DEFINE g == [f EXCEPT !.i = @ + 1]
  <2>1. f.pc = "parse" /\ f.i <= Len(Format(t))
    BY <1>6 DEF plainChar, InFormat, Frame
  <2>2. g \in FrameType
    BY <1>1, FrameUpdates
  <2>3. g.n = f.n /\ g.pc = f.pc /\ g.call = f.call /\ g.i = f.i + 1
    BY <1>1 DEF FrameType
  <2>4. thread' = [thread EXCEPT ![t] = g] /\ owner' = owner /\ Appended
    BY <1>6, NothingOwn DEF plainChar
  <2>5. g.i <= Len(Format(t)) + 1
    BY <1>2, <2>1, <2>3, FormatTypes
  <2> QED BY <1>5, <2>1, <2>2, <2>3, <2>4, <2>5 DEF Region
<1>7. ASSUME textFails(t) PROVE Inside(t)
  <2>1. f.pc = "parse" /\ Text(t) \in Seq(CharSet) /\ owner' = owner
    BY <1>7, FormatTypes DEF textFails, Frame
  <2>2. Appended
    BY <1>7, <2>1, FailsOwn DEF textFails
  <2> QED BY <1>7, <2>1, <2>2, GotoInside DEF textFails, Region
<1>8. ASSUME placeholder(t) PROVE Inside(t)
  <2>1. /\ f.pc = "parse" /\ f.i <= Len(Format(t)) /\ owner' = owner
        /\ Text(t) \in Seq(CharSet)
        /\ f.arg <= Len(Args(t)) => Text(t) \o <<Args(t)[f.arg]>> \in Seq(CharSet)
    BY <1>2, <1>8, FormatTypes DEF placeholder, InFormat, Frame
  <2>2. Accepts(t, Text(t)) => Appended
    BY <2>1, AcceptsOwn
  <2>3. CASE Accepts(t, Text(t)) /\ GotoWith(t, "finish", FALSE)
    BY <2>1, <2>2, <2>3, GotoInside DEF Region
  <2>4. CASE /\ f.arg <= Len(Args(t))
             /\ Accepts(t, Text(t) \o <<Args(t)[f.arg]>>)
             /\ thread' = [thread EXCEPT ![t].i = @ + 1, ![t].start = f.i + 1, ![t].arg = @ + 1]
    <3> DEFINE g == [f EXCEPT !.i = @ + 1, !.start = f.i + 1, !.arg = @ + 1]
    <3>1. g \in FrameType
      BY <1>1, FrameUpdates
    <3>2. g.n = f.n /\ g.pc = f.pc /\ g.call = f.call /\ g.i = f.i + 1
      BY <1>1 DEF FrameType
    <3>3. thread' = [thread EXCEPT ![t] = g]
      BY <2>4
    <3>4. Appended
      BY <2>1, <2>4, AcceptsOwn
    <3>5. g.i <= Len(Format(t)) + 1
      BY <1>2, <2>1, <3>2, FormatTypes
    <3> QED BY <1>5, <2>1, <3>1, <3>2, <3>3, <3>4, <3>5 DEF Region
  <2>5. CASE stream' = stream \o Tokens(t, Text(t)) /\ GotoWith(t, "finish", FALSE)
    <3>1. Appended
      BY <2>1, <2>5, TokensOwn
    <3> QED BY <2>1, <2>5, <3>1, GotoInside DEF Region
  <2>6. CASE /\ Accepts(t, Text(t))
             /\ thread' = [thread EXCEPT ![t].pc = "unlock", ![t].result = "threw"]
    BY <2>1, <2>2, <2>6, GotoInside DEF Region
  <2> QED BY <1>8, <2>3, <2>4, <2>5, <2>6 DEF placeholder, Frame
<1>9. ASSUME escape(t) PROVE Inside(t)
  <2>1. f.pc = "parse" /\ f.i <= Len(Format(t)) /\ owner' = owner /\ Appended
    BY <1>9, FormatTypes, AcceptsOwn DEF escape, InFormat, Frame
  <2>2. CASE GotoWith(t, "finish", FALSE)
    BY <2>1, <2>2, GotoInside DEF Region
  <2>3. CASE /\ f.i # Len(Format(t))
             /\ thread' = [thread EXCEPT ![t].i = @ + 2, ![t].start = f.i + 1]
    <3> DEFINE g == [f EXCEPT !.i = @ + 2, !.start = f.i + 1]
    <3>1. g \in FrameType
      BY <1>1, FrameUpdates
    <3>2. g.n = f.n /\ g.pc = f.pc /\ g.call = f.call /\ g.i = f.i + 2
      BY <1>1 DEF FrameType
    <3>3. thread' = [thread EXCEPT ![t] = g]
      BY <2>3
    <3>4. g.i <= Len(Format(t)) + 1
      BY <1>2, <2>1, <2>3, <3>2, FormatTypes
    <3> QED BY <1>5, <2>1, <3>1, <3>2, <3>3, <3>4 DEF Region
  <2> QED BY <1>9, <2>2, <2>3 DEF escape, Frame
<1>10. ASSUME endOfFormat(t) PROVE Inside(t)
  <2>1. f.pc = "parse" /\ owner' = owner /\ Appended
    BY <1>10, FormatTypes, AcceptsOwn DEF endOfFormat, Frame
  <2>2. \E s \in BOOLEAN : GotoWith(t, "finish", s)
    <3>1. (f.arg = Len(Args(t)) + 1) \in BOOLEAN
      OBVIOUS
    <3> QED BY <1>10, <3>1, Zenon DEF endOfFormat, Frame
  <2> QED BY <2>1, <2>2, GotoInside DEF Region
<1>11. ASSUME finish(t) \/ newline(t) PROVE Inside(t)
  <2>1. f.pc \in Region /\ owner' = owner
    BY <1>11 DEF finish, newline, Frame, Region
  <2>2. Appended
    BY <1>4, <1>11, AcceptsOwn, FailsOwn DEF finish, newline
  <2>3. \/ Goto(t, AfterNewline(t))
        \/ GotoWith(t, AfterNewline(t), FALSE)
        \/ GotoWith(t, AfterNewline(t), TRUE)
    BY <1>11 DEF finish, newline
  <2> QED BY <1>3, <2>1, <2>2, <2>3, GotoInside
<1>12. ASSUME print(t) PROVE Inside(t)
  <2>1. f.pc = "print" /\ owner' = owner /\ <<Args(t)[f.arg]>> \in Seq(CharSet)
    BY <1>2, <1>12, FormatTypes DEF print, Frame
  <2>2. CASE Accepts(t, <<Args(t)[f.arg]>>) /\ thread' = [thread EXCEPT ![t].arg = @ + 1]
    <3> DEFINE g == [f EXCEPT !.arg = @ + 1]
    <3>1. g \in FrameType
      BY <1>1, FrameUpdates
    <3>2. g.n = f.n /\ g.pc = f.pc /\ g.call = f.call
      BY <1>1 DEF FrameType
    <3>3. thread' = [thread EXCEPT ![t] = g]
      BY <2>2
    <3>4. Appended
      BY <2>1, <2>2, AcceptsOwn
    <3> QED BY <1>5, <2>1, <3>1, <3>2, <3>3, <3>4 DEF Region
  <2>3. CASE Fails(t, <<Args(t)[f.arg]>>) /\ GotoWith(t, AfterNewline(t), FALSE)
    <3>1. Appended
      BY <2>1, <2>3, FailsOwn
    <3> QED BY <1>3, <2>1, <2>3, <3>1, GotoInside DEF Region
  <2>4. CASE /\ thread' = [thread EXCEPT ![t].pc = "unlock", ![t].result = "threw"]
             /\ UNCHANGED <<stream, broken>>
    <3>1. Appended
      BY <2>4, NothingOwn
    <3> QED BY <2>1, <2>4, <3>1, GotoInside DEF Region
  <2> QED BY <1>12, <2>2, <2>3, <2>4 DEF print, Frame
<1>13. ASSUME fflush(t) PROVE Inside(t)
  <2>1. f.pc = "flush" /\ owner' = owner /\ Appended
    BY <1>13, NothingOwn DEF fflush, Frame
  <2> QED BY <1>13, <2>1, GotoInside DEF fflush, Region
<1> QED BY <1>6, <1>7, <1>8, <1>9, <1>10, <1>11, <1>12, <1>13

(***************************************************************************)
(* The inductive invariant.                                                *)
(***************************************************************************)
(* What the owner appends keeps the tokens of one call together.           *)
LEMMA AppendKeeps ==
  ASSUME LInv, NEW t \in Threads, owner = t, NEW s, OwnTokens(t, s), stream' = stream \o s
  PROVE  /\ stream' \in Seq(TokenType)
         /\ Contiguous'
         /\ \A k, m \in 1..Len(stream') :
              k < m /\ stream'[k].by = Id(t) => stream'[m].by = Id(t)
         /\ \A k \in 1..Len(stream') :
              \/ k \in 1..Len(stream) /\ stream'[k] = stream[k]
              \/ stream'[k].by = Id(t)
<1> USE DEF LInv, Types
<1>1. stream \in Seq(TokenType) /\ s \in Seq(TokenType) /\ \A k \in 1..Len(s) : s[k].by = Id(t)
  BY DEF OwnTokens
<1>2. /\ stream' \in Seq(TokenType) /\ Len(stream') = Len(stream) + Len(s)
      /\ Len(stream) \in Nat /\ Len(s) \in Nat
      /\ \A k \in 1..Len(stream) : stream'[k] = stream[k]
      /\ \A k \in 1..Len(s) : stream'[Len(stream) + k] = s[k]
  BY <1>1
<1>3. ASSUME NEW k \in 1..Len(stream'), k \notin 1..Len(stream) PROVE stream'[k].by = Id(t)
  <2>1. k - Len(stream) \in 1..Len(s) /\ k = Len(stream) + (k - Len(stream))
    BY <1>2, <1>3
  <2> QED BY <1>1, <1>2, <2>1
<1>4. ASSUME NEW k \in 1..Len(stream'), NEW m \in 1..Len(stream'), k < m,
             stream'[k].by = Id(t)
      PROVE  stream'[m].by = Id(t)
  <2>1. CASE m \in 1..Len(stream)
    <3>1. k \in 1..Len(stream)
      BY <1>2, <1>4, <2>1
    <3> QED BY <1>2, <1>4, <2>1, <3>1 DEF OwnerLast
  <2>2. CASE m \notin 1..Len(stream)
    BY <1>3, <2>2
  <2> QED BY <2>1, <2>2
<1>5. ASSUME NEW j \in 1..Len(stream'), NEW k \in 1..Len(stream'), j < k,
             stream'[j].by = stream'[k].by, NEW m \in j..k
      PROVE  stream'[m].by = stream'[j].by
  <2>1. m \in 1..Len(stream')
    BY <1>2, <1>5
  <2>2. CASE k \in 1..Len(stream)
    <3>1. j \in 1..Len(stream) /\ m \in 1..Len(stream)
      BY <1>2, <1>5, <2>2
    <3> QED BY <1>2, <1>5, <2>2, <3>1 DEF Contiguous
  <2>3. CASE k \notin 1..Len(stream)
    <3>1. stream'[j].by = Id(t)
      BY <1>3, <1>5, <2>3
    <3>2. j = m \/ j < m
      BY <1>2, <1>5
    <3> QED BY <1>4, <2>1, <3>1, <3>2
  <2> QED BY <2>2, <2>3
<1>6. Contiguous'
  BY <1>5 DEF Contiguous
<1> QED BY <1>2, <1>3, <1>4, <1>6

LEMMA InsideInv ==
  ASSUME LInv, NEW t \in Threads, Inside(t)
  PROVE  LInv'
<1> USE DEF LInv, Types
<1>1. owner = t /\ owner' = t
  BY DEF Inside, Exclusive
<1>2. PICK s : OwnTokens(t, s) /\ stream' = stream \o s
  BY DEF Inside
<1>3. PICK f \in FrameType :
        /\ thread' = [thread EXCEPT ![t] = f]
        /\ f.n = thread[t].n /\ f.pc \in Region /\ f.call = thread[t].call
        /\ f.pc \in {"parse", "print"} => f.pc = thread[t].pc
        /\ f.pc = "parse" => f.i <= Len(Format(t)) + 1
  BY DEF Inside
<1>4. thread'[t] = f /\ \A o \in Threads \ {t} : thread'[o] = thread[o]
  BY <1>3
<1>5. /\ stream' \in Seq(TokenType)
      /\ Contiguous'
      /\ \A k, m \in 1..Len(stream') :
           k < m /\ stream'[k].by = Id(t) => stream'[m].by = Id(t)
      /\ \A k \in 1..Len(stream') :
           \/ k \in 1..Len(stream) /\ stream'[k] = stream[k]
           \/ stream'[k].by = Id(t)
  BY <1>1, <1>2, AppendKeeps
<1>6. \A o \in Threads : thread'[o].n = thread[o].n /\ Id(o)' = Id(o)
  BY <1>3, <1>4 DEF Id, Frame
<1>7. Types'
  <2>1. thread' \in [Threads -> FrameType]
    BY <1>3
  <2>2. \A o \in Threads : CallOK(o)'
    BY <1>3, <1>4 DEF CallOK, Format, Frame, Region
  <2> QED BY <1>1, <1>5, <2>1, <2>2
<1>8. Exclusive'
  BY <1>1, <1>3, <1>4 DEF Exclusive
<1>9. FromStarted'
  <2>1. ASSUME NEW k \in 1..Len(stream'), NEW o \in Threads, stream'[k].by[1] = o
        PROVE  /\ stream'[k].by[2] <= thread'[o].n
               /\ thread'[o].pc = "lock" => stream'[k].by # Id(o)'
    <3>1. CASE k \in 1..Len(stream) /\ stream'[k] = stream[k]
      <4>1. thread'[o].pc = "lock" => thread[o].pc = "lock"
        BY <1>3, <1>4 DEF Region
      <4> QED BY <1>6, <2>1, <3>1, <4>1 DEF FromStarted
    <3>2. CASE stream'[k].by = Id(t)
      <4>1. o = t /\ stream'[k].by[2] = thread[t].n
        BY <2>1, <3>2 DEF Id, Frame
      <4>2. thread[t].n \in Nat /\ thread'[t].pc # "lock"
        BY <1>3, <1>4 DEF FrameType, Region
      <4> QED BY <1>6, <4>1, <4>2
    <3> QED BY <1>5, <3>1, <3>2
  <2> QED BY <2>1 DEF FromStarted
<1>10. OwnerLast'
  BY <1>1, <1>5, <1>6 DEF OwnerLast
<1> QED BY <1>5, <1>7, <1>8, <1>9, <1>10

LEMMA LInvStep ==
  ASSUME LInv, [Next]_vars
  PROVE  LInv'
<1> USE DEF LInv
<1>1. CASE UNCHANGED <<owner, thread, stream>>
  BY <1>1 DEF Types, CallOK, Exclusive, FromStarted, OwnerLast, Contiguous, Id, Frame
<1>2. ASSUME NEW t \in Threads, call(t) PROVE LInv'
  <2>1. PICK c \in Kinds :
          thread' = [thread EXCEPT ![t] =
            [Idle(@.n + 1, "none") EXCEPT !.pc = "lock", !.kind = c.kind, !.call = c.call]]
    BY <1>2 DEF call
  <2>2. /\ thread'[t].pc = "lock" /\ thread'[t].n = thread[t].n + 1
        /\ thread'[t] \in FrameType
        /\ \A o \in Threads \ {t} : thread'[o] = thread[o]
    <3> DEFINE f == [Idle(thread[t].n + 1, "none") EXCEPT !.pc = "lock", !.kind = c.kind,
                                                          !.call = c.call]
    <3>1. thread[t].n \in Nat
      BY DEF Types, FrameType
    <3>2. c.kind \in {"none", "fmt", "plain"} /\ c.call \in FmtCalls \cup PlainCalls \cup {<<>>}
      BY DEF Kinds
    <3>3. f.pc = "lock" /\ f.n = thread[t].n + 1
      BY DEF Idle
    <3>4. f \in FrameType
      <4>1. Idle(thread[t].n + 1, "none") \in FrameType
        BY <3>1 DEF FrameType, Idle, Outcomes
      <4>2. ASSUME NEW g \in FrameType PROVE [g EXCEPT !.pc = "lock"] \in FrameType
        BY <4>2 DEF FrameType
      <4>3. ASSUME NEW g \in FrameType PROVE [g EXCEPT !.kind = c.kind] \in FrameType
        BY <3>2 DEF FrameType
      <4>4. ASSUME NEW g \in FrameType PROVE [g EXCEPT !.call = c.call] \in FrameType
        BY <3>2 DEF FrameType
      <4> QED BY <4>1, <4>2, <4>3, <4>4
    <3>5. thread'[t] = f /\ \A o \in Threads \ {t} : thread'[o] = thread[o]
      BY <2>1 DEF Types
    <3> QED BY <3>3, <3>4, <3>5
  <2>3. thread[t].pc = "idle" /\ thread[t].n \in Nat /\ UNCHANGED <<owner, stream>>
    BY <1>2 DEF call, Frame, Types, FrameType
  <2>4. owner # t
    BY <2>3 DEF Exclusive, Region
  <2>5. Types'
    <3>1. CallOK(t)'
      <4>1. thread'[t].kind = c.kind /\ thread'[t].call = c.call /\ thread'[t].i = 1
        BY <2>1 DEF Idle, Types
      <4>2. \/ c.kind = "fmt" /\ c.call \in FmtCalls
            \/ c.kind = "plain" /\ c.call \in PlainCalls
        BY DEF Kinds
      <4> QED BY <2>2, <4>1, <4>2 DEF CallOK
    <3>3. \A o \in Threads : CallOK(o)'
      BY <2>2, <3>1 DEF Types, CallOK
    <3>2. thread' \in [Threads -> FrameType]
      BY <2>1, <2>2 DEF Types
    <3> QED BY <2>3, <3>3, <3>2 DEF Types
  <2>6. Exclusive'
    BY <2>2, <2>3, <2>4 DEF Exclusive, Region
  <2>7. FromStarted'
    <3>1. ASSUME NEW k \in 1..Len(stream), NEW o \in Threads, stream[k].by[1] = o
          PROVE  /\ stream[k].by[2] <= thread'[o].n
                 /\ thread'[o].pc = "lock" => stream[k].by # Id(o)'
      <4>1. stream[k].by[2] <= thread[o].n
        BY <3>1 DEF FromStarted
      <4>4. stream[k] \in TokenType
        BY DEF Types
      <4>5. stream[k].by[2] \in Nat
        BY <4>4 DEF TokenType
      <4>2. CASE o = t
        BY <2>2, <2>3, <4>1, <4>5, <4>2 DEF Id, Frame
      <4>3. CASE o # t
        BY <2>2, <3>1, <4>1, <4>3 DEF FromStarted, Id, Frame
      <4> QED BY <4>2, <4>3
    <3> QED BY <2>3, <3>1 DEF FromStarted
  <2>8. OwnerLast'
    <3>1. ASSUME NEW o \in Threads, owner = o PROVE Id(o)' = Id(o)
      BY <2>2, <2>4, <3>1 DEF Id, Frame
    <3> QED BY <2>3, <3>1 DEF OwnerLast
  <2>9. Contiguous'
    BY <2>3 DEF Contiguous
  <2> QED BY <2>5, <2>6, <2>7, <2>8, <2>9
<1>3. ASSUME NEW t \in Threads, flockfile(t) PROVE LInv'
  <2> DEFINE pc == IF Frame(t).kind = "fmt" THEN "parse" ELSE "print"
             f == [thread[t] EXCEPT !.pc = pc]
  <2>1. /\ thread[t].pc = "lock" /\ owner = NoThread /\ owner' = t /\ stream' = stream
        /\ thread' = [thread EXCEPT ![t] = f] /\ thread[t] \in FrameType
    BY <1>3 DEF flockfile, Goto, Frame, Types
  <2>2. f \in FrameType /\ f.n = thread[t].n /\ f.pc \in {"parse", "print"}
    <3>1. pc \in {"parse", "print"}
      OBVIOUS
    <3>2. f.n = thread[t].n /\ f.pc = pc
      BY <2>1 DEF FrameType
    <3>3. f \in FrameType
      BY <2>1, <3>1 DEF FrameType, Region
    <3> QED BY <3>1, <3>2, <3>3
  <2>3. thread'[t] = f /\ \A o \in Threads \ {t} : thread'[o] = thread[o]
    BY <2>1 DEF Types
  <2>4. \A o \in Threads : thread'[o].n = thread[o].n /\ Id(o)' = Id(o)
    BY <2>2, <2>3 DEF Id, Frame
  <2>5. Types'
    <3>1. CallOK(t)'
      <4>1. f.kind = thread[t].kind /\ f.call = thread[t].call /\ f.i = thread[t].i /\ f.pc = pc
        BY <2>1 DEF FrameType
      <4>2. CASE thread[t].kind = "fmt"
        <5>1. thread[t].call \in FmtCalls /\ thread[t].i = 1 /\ pc = "parse"
          BY <2>1, <4>2 DEF Types, CallOK, Frame
        <5>2. Len(thread[t].call.format) \in Nat
          BY <5>1, LoggerAssumption
        <5> QED BY <2>3, <4>1, <5>1, <5>2 DEF CallOK
      <4>3. CASE thread[t].kind # "fmt"
        <5>1. thread[t].call \in PlainCalls /\ pc = "print"
          BY <2>1, <4>3 DEF Types, CallOK, Frame
        <5> QED BY <2>3, <4>1, <5>1 DEF CallOK
      <4> QED BY <4>2, <4>3
    <3>2. \A o \in Threads : CallOK(o)'
      BY <2>3, <3>1 DEF Types, CallOK
    <3>3. thread' \in [Threads -> FrameType]
      BY <2>1, <2>2 DEF Types
    <3> QED BY <2>1, <3>2, <3>3 DEF Types
  <2>6. Exclusive'
    BY <2>1, <2>2, <2>3, LoggerAssumption DEF Exclusive, Region
  <2>7. FromStarted'
    <3>1. \A o \in Threads : thread'[o].pc = "lock" => thread[o].pc = "lock"
      BY <2>2, <2>3
    <3> QED BY <2>1, <2>4, <3>1 DEF FromStarted
  <2>8. OwnerLast'
    <3>1. \A k \in 1..Len(stream) : stream[k].by # Id(t)
      BY <2>1 DEF FromStarted, Id
    <3> QED BY <2>1, <2>4, <3>1 DEF OwnerLast
  <2>9. Contiguous'
    BY <2>1 DEF Contiguous
  <2> QED BY <2>5, <2>6, <2>7, <2>8, <2>9
<1>4. ASSUME NEW t \in Threads, funlockfile(t) PROVE LInv'
  <2> DEFINE f == [thread[t] EXCEPT !.pc = "idle", !.result = Outcome(t)]
  <2>1. /\ thread[t].pc = "unlock" /\ owner' = NoThread /\ stream' = stream
        /\ thread' = [thread EXCEPT ![t] = f] /\ thread[t] \in FrameType
    BY <1>4 DEF funlockfile, Frame, Types
  <2>2. f \in FrameType /\ f.n = thread[t].n /\ f.pc = "idle"
    <3>1. Outcome(t) \in Outcomes
      BY DEF Outcome, Outcomes
    <3> QED BY <2>1, <3>1 DEF FrameType
  <2>3. thread'[t] = f /\ \A o \in Threads \ {t} : thread'[o] = thread[o]
    BY <2>1 DEF Types
  <2>4. \A o \in Threads : thread'[o].n = thread[o].n /\ Id(o)' = Id(o)
    BY <2>2, <2>3 DEF Id, Frame
  <2>5. Types'
    <3>1. \A o \in Threads : CallOK(o)'
      BY <2>2, <2>3 DEF Types, CallOK
    <3>2. thread' \in [Threads -> FrameType]
      BY <2>1, <2>2 DEF Types
    <3> QED BY <2>1, <3>1, <3>2 DEF Types
  <2>6. Exclusive'
    <3>1. owner = t
      BY <2>1 DEF Exclusive, Region
    <3>2. \A o \in Threads : thread'[o].pc \notin Region
      BY <2>2, <2>3, <3>1 DEF Exclusive, Region
    <3> QED BY <2>1, <3>2, LoggerAssumption DEF Exclusive
  <2>7. FromStarted'
    <3>1. \A o \in Threads : thread'[o].pc = "lock" => thread[o].pc = "lock"
      BY <2>2, <2>3
    <3> QED BY <2>1, <2>4, <3>1 DEF FromStarted
  <2>8. OwnerLast'
    BY <2>1, LoggerAssumption DEF OwnerLast
  <2>9. Contiguous'
    BY <2>1 DEF Contiguous
  <2> QED BY <2>5, <2>6, <2>7, <2>8, <2>9
<1>5. ASSUME NEW t \in Threads, Step(t), ~flockfile(t), ~funlockfile(t) PROVE LInv'
  <2>1. Inside(t)
    BY <1>5, InsideSteps DEF Step
  <2> QED BY <2>1, InsideInv
<1>6. CASE drain
  BY <1>1, <1>6 DEF drain
<1> QED BY <1>1, <1>2, <1>3, <1>4, <1>5, <1>6 DEF Next, vars

LEMMA LInvInit == Init => LInv
<1> SUFFICES ASSUME Init PROVE LInv
  OBVIOUS
<1>1. Idle(0, "none") \in FrameType /\ Idle(0, "none").pc = "idle"
  BY DEF Idle, FrameType, Outcomes, Region
<1>2. Types
  BY <1>1 DEF Init, Types, CallOK
<1>3. Exclusive
  BY <1>1, LoggerAssumption DEF Init, Exclusive, Region
<1>4. FromStarted /\ OwnerLast /\ Contiguous
  BY DEF Init, FromStarted, OwnerLast, Contiguous
<1> QED BY <1>2, <1>3, <1>4 DEF LInv

(* The pieces of a record written under flockfile are never mixed with     *)
(* those of another, for any number of threads and calls, however stdio    *)
(* fails.                                                                  *)
THEOREM ContiguousAlways == Spec => []Contiguous
<1>1. LInv => Contiguous
  BY DEF LInv
<1> QED BY <1>1, LInvInit, LInvStep, PTL DEF Spec

(* No two threads are between flockfile and funlockfile, and a thread      *)
(* waiting for the lock has written nothing.                               *)
THEOREM LockAlways == Spec => [](Exclusive /\ FromStarted)
<1>1. LInv => Exclusive /\ FromStarted
  BY DEF LInv
<1> QED BY <1>1, LInvInit, LInvStep, PTL DEF Spec

(***************************************************************************)
(* What a format means: an escape is a "\" that no escape stands before.   *)
(***************************************************************************)
Kept(f) == (1..Len(f)) \ Escapes(f)

LEMMA EscapeNext ==
  ASSUME NEW f, Len(f) \in Nat, NEW k \in 1..Len(f)
  PROVE  k \in Escapes(f) <=> f[k] = Escape /\ k - 1 \notin Escapes(f)
<1> DEFINE run(i) == {j \in 1..i : \A m \in j..i : f[m] = Escape}
           c == Cardinality(run(k - 1))
<1>1. \A i \in 1..Len(f) : i \in Escapes(f) <=> f[i] = Escape /\ Cardinality(run(i)) % 2 = 1
  BY DEF Escapes
<1>2. IsFiniteSet(run(k - 1)) /\ c \in Nat /\ k \notin run(k - 1)
  <2>1. IsFiniteSet(1..(k - 1))
    BY FS_Interval
  <2>2. run(k - 1) \in SUBSET (1..(k - 1))
    OBVIOUS
  <2>3. k \notin 1..(k - 1)
    OBVIOUS
  <2> HIDE DEF run
  <2> QED BY <2>1, <2>2, <2>3, FS_Subset, FS_CardinalityType
<1>3. k - 1 \in Escapes(f) <=> c % 2 = 1
  <2>1. CASE k - 1 \in 1..Len(f) /\ f[k - 1] = Escape
    BY <1>1, <2>1
  <2>2. CASE ~ (k - 1 \in 1..Len(f) /\ f[k - 1] = Escape)
    <3>1. k - 1 \notin Escapes(f)
      BY <2>2 DEF Escapes
    <3>2. \A j \in 1..(k - 1) : k - 1 \in j..(k - 1) /\ f[k - 1] # Escape
      BY <2>2
    <3>3. run(k - 1) = {}
      BY <3>2
    <3>4. c = 0
      BY <3>3, FS_EmptySet
    <3> QED BY <3>1, <3>4
  <2> QED BY <2>1, <2>2
<1>4. ASSUME f[k] = Escape PROVE Cardinality(run(k)) = c + 1
  <2>1. \A j \in 1..k : j \in run(k) <=> j = k \/ j \in run(k - 1)
    <3>1. ASSUME NEW j \in 1..k, j \in run(k), j # k PROVE j \in run(k - 1)
      <4>1. j \in 1..(k - 1) /\ \A m \in j..(k - 1) : m \in j..k
        BY <3>1
      <4> QED BY <3>1, <4>1
    <3>2. ASSUME NEW j \in 1..k, j \in run(k - 1) PROVE j \in run(k)
      <4>1. \A m \in j..k : m = k \/ m \in j..(k - 1)
        OBVIOUS
      <4> QED BY <1>4, <3>2, <4>1
    <3>3. k \in run(k)
      <4>1. \A m \in k..k : m = k
        OBVIOUS
      <4> QED BY <1>4, <4>1
    <3> HIDE DEF run
    <3> QED BY <3>1, <3>2, <3>3
  <2>2. run(k) \subseteq 1..k /\ run(k - 1) \subseteq 1..k /\ k \in 1..k
    OBVIOUS
  <2>3. run(k) = run(k - 1) \cup {k}
    <3> HIDE DEF run
    <3> QED BY <2>1, <2>2
  <2> HIDE DEF run
  <2> QED BY <1>2, <2>3, FS_AddElement
<1>5. (c + 1) % 2 = 1 <=> ~ (c % 2 = 1)
  <2> HIDE DEF c
  <2> QED BY <1>2
<1>6. CASE f[k] = Escape
  <2>1. k \in Escapes(f) <=> (c + 1) % 2 = 1
    <3> HIDE DEF run, c
    <3> QED BY <1>1, <1>4, <1>6
  <2> HIDE DEF run, c
  <2> QED BY <1>3, <1>5, <1>6, <2>1
<1>7. CASE f[k] # Escape
  BY <1>7 DEF Escapes
<1> QED BY <1>6, <1>7

LEMMA FormatPlaces ==
  ASSUME NEW f, Len(f) \in Nat
  PROVE  /\ Escapes(f) \in SUBSET (1..Len(f))
         /\ Holes(f) \in SUBSET (1..Len(f))
         /\ Kept(f) \in SUBSET (1..Len(f))
         /\ Holes(f) \subseteq Kept(f)
<1>1. Escapes(f) \subseteq 1..Len(f) /\ \A k \in Escapes(f) : f[k] = Escape
  BY DEF Escapes
<1>2. Holes(f) \subseteq 1..Len(f) /\ \A k \in Holes(f) : f[k] = "#"
  BY DEF Holes
<1>3. "#" # Escape
  BY DEF Escape
<1> QED BY <1>1, <1>2, <1>3 DEF Kept

(* The place of a kept character in what the format prints. *)
LEMMA ExpansionAt ==
  ASSUME NEW f, NEW args, Len(f) \in Nat, NEW k \in Kept(f)
  PROVE  /\ Count(Kept(f), k) \in 1..Cardinality(Kept(f))
         /\ Expansion(f, args)[Count(Kept(f), k)] =
              IF k \in Holes(f) THEN args[Count(Holes(f), k)] ELSE f[k]
<1> DEFINE K == Kept(f)
           At(m) == CHOOSE j \in K : Count(K, j) = m
           Unit(j) == IF j \in Holes(f) THEN args[Count(Holes(f), j)] ELSE f[j]
<1>1. Kept(f) \in SUBSET (1..Len(f))
  BY FormatPlaces
<1>2. /\ Count(K, k) \in 1..Cardinality(K)
      /\ \A i, j \in K : Count(K, i) = Count(K, j) => i = j
  BY <1>1, CountNumbers
<1>3. At(Count(K, k)) = k
  <2> HIDE DEF K
  <2> QED BY <1>2 DEF K
<1>4. Expansion(f, args) = [m \in 1..Cardinality(K) |-> Unit(At(m))]
  BY DEF Expansion, Kept, Count
<1> HIDE DEF At, Unit, K
<1>5. Expansion(f, args)[Count(K, k)] = Unit(k)
  BY <1>2, <1>3, <1>4
<1> QED BY <1>2, <1>5 DEF Unit, K

(* A format that fits its arguments prints characters. *)
LEMMA ExpansionText ==
  ASSUME NEW f \in Seq(CharSet), NEW args \in Seq(CharSet), WellFormed(f, args)
  PROVE  /\ Expansion(f, args) \in Seq(CharSet)
         /\ Len(Expansion(f, args)) = Cardinality(Kept(f))
<1> DEFINE K == Kept(f)
           x == Expansion(f, args)
<1>1. /\ Len(f) \in Nat /\ K \in SUBSET (1..Len(f)) /\ Holes(f) \in SUBSET (1..Len(f))
  BY FormatPlaces
<1>2. Cardinality(K) \in Nat
  BY <1>1, PlaceFacts, FS_CardinalityType
<1>3. ASSUME NEW m \in 1..Cardinality(K) PROVE x[m] \in CharSet
  <2>1. PICK k \in K : Count(K, k) = m
    BY <1>1, CountNumbers
  <2>2. x[m] = IF k \in Holes(f) THEN args[Count(Holes(f), k)] ELSE f[k]
    BY <1>1, <2>1, ExpansionAt
  <2>3. k \in Holes(f) => Count(Holes(f), k) \in 1..Len(args)
    BY <1>1, CountNumbers DEF WellFormed
  <2>4. k \in 1..Len(f)
    BY <1>1
  <2> QED BY <2>2, <2>3, <2>4
<1>4. x = [m \in 1..Cardinality(K) |-> x[m]]
  BY DEF Expansion, Kept
<1> HIDE DEF x, K
<1>5. x \in Seq(CharSet) /\ Len(x) = Cardinality(K)
  BY <1>2, <1>3, <1>4
<1> QED BY <1>5 DEF x, K

(***************************************************************************)
(* What calls have written and what they know of it: of a frame g, the     *)
(* call's id, the stream st, its flushed part fl and the failed calls br.  *)
(***************************************************************************)
By(st, id) == {k \in 1..Len(st) : st[k].by = id}

(* The call wrote the first m characters of text and nothing else. *)
Prefix(st, id, text, m) ==
  /\ m \in Nat
  /\ \E from \in 0..Len(st) :
       /\ By(st, id) = (from + 1)..(from + m)
       /\ \A k \in 1..m : st[from + k].c = text[k]
LineEnd(st, id) == \E k \in By(st, id) : st[k].c = NL /\ \A m \in By(st, id) : m <= k
InFile(st, id, fl) == \A k \in By(st, id) : k <= fl
Cause(g, id, br) == id \in br \/ (g.kind = "fmt" /\ ~WellFormed(g.call.format, g.call.args))

(* The parser stands behind a character that is no escape, has passed as   *)
(* many holes as arguments, has only plain characters before it that are   *)
(* not written, and has written what the format prints before them.        *)
Parsed(g, id, st) ==
  LET f == g.call.format IN
  /\ g.i - 1 \notin Escapes(f)
  /\ Count(Holes(f), g.i - 1) = g.arg - 1
  /\ g.start <= g.i
  /\ \A k \in g.start..(g.i - 1) : k \in Kept(f) /\ k \notin Holes(f)
  /\ g.arg - 1 <= Len(g.call.args)
  /\ Prefix(st, id, Expansion(f, g.call.args), Count(Kept(f), g.start - 1))

Printed(g, id, st) ==
  /\ WellFormed(g.call.format, g.call.args)
  /\ Prefix(st, id, Expansion(g.call.format, g.call.args), Cardinality(Kept(g.call.format)))

Complete(g, id, st) == Prefix(st, id, Record(g), Len(Record(g)))

Told(g, id, st, fl, br) ==
  /\ g.success => Complete(g, id, st)
  /\ ~g.success => Cause(g, id, br)
  /\ g.kind = "fmt" => id \in br \/ LineEnd(st, id)
  /\ g.pc = "unlock" /\ g.success /\ g.call.flush => InFile(st, id, fl)

Answered(g, id, st, fl, br) ==
  /\ g.result = "true" => Complete(g, id, st) /\ (g.call.flush => InFile(st, id, fl))
  /\ g.result = "false" => Cause(g, id, br)
  /\ g.kind = "fmt" /\ g.result # "threw" => id \in br \/ LineEnd(st, id)

Good(g, id, st, fl, br) ==
  /\ g.pc = "lock" => g.start = 1 /\ g.arg = 1
  /\ g.pc = "parse" => g.kind = "fmt" /\ Parsed(g, id, st)
  /\ g.pc = "print" => /\ g.kind = "plain" /\ g.arg - 1 <= Len(g.call.args)
                       /\ Prefix(st, id, g.call.args, g.arg - 1)
  /\ g.pc = "finish" => /\ g.kind = "fmt" /\ g.call \in FmtCalls
                        /\ g.success => Printed(g, id, st)
                        /\ ~g.success => Cause(g, id, br)
  /\ g.pc \in {"flush", "unlock"} /\ g.result # "threw" => Told(g, id, st, fl, br)
  /\ g.pc = "idle" /\ g.n > 0 => Answered(g, id, st, fl, br)

RInv ==
  /\ flushed \in 0..Len(stream)
  /\ \A t \in Threads : Good(thread[t], Id(t), stream, flushed, broken)

(* What others write, flush and fail at does not matter to a call. *)
LEMMA OthersWrite ==
  ASSUME NEW st \in Seq(TokenType), NEW s \in Seq(TokenType), NEW id,
         \A k \in 1..Len(s) : s[k].by # id
  PROVE  /\ By(st \o s, id) = By(st, id)
         /\ \A text, m : Prefix(st, id, text, m) => Prefix(st \o s, id, text, m)
         /\ LineEnd(st, id) => LineEnd(st \o s, id)
<1> DEFINE all == st \o s
<1>1. /\ Len(st) \in Nat /\ Len(s) \in Nat /\ Len(all) = Len(st) + Len(s)
      /\ \A k \in 1..Len(st) : all[k] = st[k]
      /\ \A k \in 1..Len(s) : all[Len(st) + k] = s[k]
  OBVIOUS
<1> HIDE DEF all
<1>2. ASSUME NEW k \in 1..Len(all), k \notin 1..Len(st) PROVE all[k].by # id
  <2>1. k - Len(st) \in 1..Len(s) /\ k = Len(st) + (k - Len(st))
    BY <1>1, <1>2
  <2>2. all[k] = s[k - Len(st)]
    BY <1>1, <2>1
  <2> QED BY <2>1, <2>2
<1>3. \A k \in 1..Len(st) : k \in 1..Len(all)
  BY <1>1
<1>4. By(all, id) = By(st, id)
  BY <1>1, <1>2, <1>3 DEF By
<1>5. ASSUME NEW text, NEW m, Prefix(st, id, text, m) PROVE Prefix(all, id, text, m)
  <2>1. PICK from \in 0..Len(st) :
          /\ By(st, id) = (from + 1)..(from + m)
          /\ \A k \in 1..m : st[from + k].c = text[k]
    BY <1>5 DEF Prefix
  <2>2. from \in 0..Len(all) /\ m \in Nat
    BY <1>1, <1>5 DEF Prefix
  <2>3. \A k \in 1..m : from + k \in 1..Len(st)
    <3>1. ASSUME NEW k \in 1..m PROVE from + k \in By(st, id)
      BY <2>1, <2>2
    <3> QED BY <3>1 DEF By
  <2>4. \A k \in 1..m : all[from + k].c = text[k]
    BY <1>1, <2>1, <2>3
  <2> QED BY <1>4, <2>1, <2>2, <2>4 DEF Prefix
<1>6. ASSUME LineEnd(st, id) PROVE LineEnd(all, id)
  <2>1. PICK k \in By(st, id) : st[k].c = NL /\ \A m \in By(st, id) : m <= k
    BY <1>6 DEF LineEnd
  <2>2. all[k] = st[k]
    BY <1>1 DEF By
  <2> QED BY <1>4, <2>1, <2>2 DEF LineEnd
<1> QED BY <1>4, <1>5, <1>6 DEF all

LEMMA GoodKeeps ==
  ASSUME NEW g \in FrameType, NEW id, NEW st \in Seq(TokenType), NEW s \in Seq(TokenType),
         \A k \in 1..Len(s) : s[k].by # id,
         NEW fl \in Int, NEW more \in Int, fl <= more, NEW br, NEW broke, br \subseteq broke,
         Good(g, id, st, fl, br)
  PROVE  Good(g, id, st \o s, more, broke)
<1> DEFINE all == st \o s
<1>1. /\ By(all, id) = By(st, id)
      /\ \A text, m : Prefix(st, id, text, m) => Prefix(all, id, text, m)
      /\ LineEnd(st, id) => LineEnd(all, id)
  BY OthersWrite
<1> HIDE DEF all
<1>2. InFile(st, id, fl) => InFile(all, id, more)
  BY <1>1 DEF InFile, By
<1>3. Cause(g, id, br) => Cause(g, id, broke)
  BY DEF Cause
<1>4. Complete(g, id, st) => Complete(g, id, all)
  BY <1>1 DEF Complete
<1>5. Parsed(g, id, st) => Parsed(g, id, all)
  BY <1>1, Zenon DEF Parsed
<1>6. Printed(g, id, st) => Printed(g, id, all)
  BY <1>1, Zenon DEF Printed
<1>7. Told(g, id, st, fl, br) => Told(g, id, all, more, broke)
  BY <1>1, <1>2, <1>3, <1>4, Zenon DEF Told
<1>8. Answered(g, id, st, fl, br) => Answered(g, id, all, more, broke)
  BY <1>1, <1>2, <1>3, <1>4, Zenon DEF Answered
<1>9. Good(g, id, all, more, broke)
  BY <1>1, <1>3, <1>5, <1>6, <1>7, <1>8, Zenon DEF Good
<1> QED BY <1>9 DEF all

LEMMA Joined ==
  ASSUME NEW S, NEW a \in Seq(S), NEW b \in Seq(S)
  PROVE  /\ Len(a \o b) = Len(a) + Len(b)
         /\ \A k \in 1..Len(a) : (a \o b)[k] = a[k]
         /\ \A k \in 1..Len(b) : (a \o b)[Len(a) + k] = b[k]
OBVIOUS

(* What the owner of the lock writes continues what it has written. *)
LEMMA OwnWrite ==
  ASSUME LInv, NEW t \in Threads, owner = t, NEW x \in Seq(CharSet), Accepts(t, x)
  PROVE  /\ broken' = broken
         /\ \A text, m :
              /\ Prefix(stream, Id(t), text, m)
              /\ \A j \in 1..Len(x) : x[j] = text[m + j]
              => Prefix(stream', Id(t), text, m + Len(x))
         /\ Len(x) > 0 /\ x[Len(x)] = NL => LineEnd(stream', Id(t))
<1> DEFINE s == Tokens(t, x)
           L == Len(stream)
           id == Id(t)
<1>1. /\ Types /\ stream \in Seq(TokenType) /\ L \in Nat /\ Len(x) \in Nat
      /\ \A j, k \in 1..L : j < k /\ stream[j].by = id => stream[k].by = id
  BY DEF LInv, Types, OwnerLast
<1>2. /\ s \in Seq(TokenType) /\ Len(s) = Len(x) /\ stream' = stream \o s /\ broken' = broken
      /\ \A k \in 1..Len(x) : s[k].by = id /\ s[k].c = x[k]
  <2>1. OwnTokens(t, s) /\ Len(s) = Len(x)
    BY <1>1, TokensOwn
  <2>2. \A k \in 1..Len(x) : s[k].by = id /\ s[k].c = x[k]
    BY DEF Tokens
  <2> QED BY <2>1, <2>2 DEF OwnTokens, Accepts
<1> HIDE DEF s, id
<1>3. /\ Len(stream') = L + Len(x)
      /\ \A k \in 1..L : stream'[k] = stream[k]
      /\ \A k \in 1..Len(x) : stream'[L + k].by = id /\ stream'[L + k].c = x[k]
  <2>1. /\ Len(stream \o s) = L + Len(s)
        /\ \A k \in 1..L : (stream \o s)[k] = stream[k]
        /\ \A k \in 1..Len(s) : (stream \o s)[L + k] = s[k]
    <3>1. stream \in Seq(TokenType) /\ s \in Seq(TokenType)
      BY <1>1, <1>2
    <3> QED BY <3>1, Joined
  <2> HIDE DEF L
  <2> QED BY <1>2, <2>1
<1> HIDE DEF L
<1>4. \A k \in 1..Len(stream') : k \in By(stream', id) <=> k \in By(stream, id) \/ k > L
  <2>1. ASSUME NEW k \in 1..Len(stream'), k > L PROVE k \in By(stream', id)
    <3>1. k - L \in 1..Len(x) /\ k = L + (k - L)
      BY <1>1, <1>3, <2>1
    <3>2. stream'[L + (k - L)].by = id
      BY <1>3, <3>1
    <3> QED BY <3>1, <3>2 DEF By
  <2>2. ASSUME NEW k \in 1..Len(stream'), ~ (k > L)
        PROVE  k \in By(stream', id) <=> k \in By(stream, id)
    <3>1. k \in 1..L /\ k \in 1..Len(stream)
      BY <1>1, <1>3, <2>2 DEF L
    <3> QED BY <1>3, <3>1 DEF By
  <2>3. \A k \in By(stream, id) : ~ (k > L)
    BY <1>1 DEF By, L
  <2> QED BY <2>1, <2>2, <2>3
<1>5. By(stream, id) \subseteq 1..L /\ By(stream', id) \subseteq 1..(L + Len(x))
  BY <1>3 DEF By, L
<1>6. ASSUME NEW text, NEW m, Prefix(stream, id, text, m),
             \A j \in 1..Len(x) : x[j] = text[m + j]
      PROVE  Prefix(stream', id, text, m + Len(x))
  <2>1. m \in Nat
    BY <1>6 DEF Prefix
  <2>2. PICK from \in 0..L :
          /\ By(stream, id) = (from + 1)..(from + m)
          /\ \A k \in 1..m : stream[from + k].c = text[k]
    BY <1>6 DEF Prefix, L
  <2>3. CASE m = 0
    <3>1. By(stream, id) = {}
      BY <2>2, <2>3
    <3>2. \A k : k \in By(stream', id) <=> k \in (L + 1)..(L + (m + Len(x)))
      <4>1. \A k \in 1..Len(stream') : k > L <=> k \in (L + 1)..(L + (m + Len(x)))
        BY <1>1, <1>3, <2>3
      <4>2. \A k \in (L + 1)..(L + (m + Len(x))) : k \in 1..Len(stream')
        BY <1>1, <1>3, <2>3
      <4> QED BY <1>3, <1>4, <1>5, <3>1, <4>1, <4>2
    <3>3. By(stream', id) = (L + 1)..(L + (m + Len(x)))
      BY <3>2
    <3>4. \A k \in 1..(m + Len(x)) : stream'[L + k].c = text[k]
      <4>1. \A k \in 1..(m + Len(x)) : k \in 1..Len(x) /\ m + k = k
        BY <1>1, <2>3
      <4> QED BY <1>3, <1>6, <4>1
    <3>5. L \in 0..Len(stream') /\ m + Len(x) \in Nat
      BY <1>1, <1>3, <2>1
    <3> QED BY <3>3, <3>4, <3>5 DEF Prefix
  <2>4. CASE m # 0
    <3>1. from + m \in By(stream, id) /\ from + m \in 1..L
      BY <1>5, <2>1, <2>2, <2>4
    <3>2. from + m = L
      <4>1. SUFFICES ASSUME from + m # L PROVE FALSE
        OBVIOUS
      <4>2. from + m < L /\ L \in 1..L
        BY <1>1, <3>1, <4>1
      <4>3. stream[from + m].by = id
        BY <3>1 DEF By
      <4>4. stream[L].by = id
        BY <1>1, <3>1, <4>2, <4>3 DEF L
      <4>5. L \in By(stream, id)
        BY <4>2, <4>4 DEF By, L
      <4> QED BY <1>1, <2>1, <2>2, <4>2, <4>5
    <3>3. \A k : k \in By(stream', id) <=> k \in (from + 1)..(from + (m + Len(x)))
      <4>1. \A k \in 1..Len(stream') :
              k \in (from + 1)..(from + m) \/ k > L <=> k \in (from + 1)..(from + (m + Len(x)))
        BY <1>1, <1>3, <2>1, <2>2, <3>2
      <4>2. \A k \in (from + 1)..(from + (m + Len(x))) : k \in 1..Len(stream')
        BY <1>1, <1>3, <2>1, <2>2, <3>2
      <4> QED BY <1>3, <1>4, <1>5, <2>2, <4>1, <4>2
    <3>4. By(stream', id) = (from + 1)..(from + (m + Len(x)))
      BY <3>3
    <3>5. ASSUME NEW k \in 1..(m + Len(x)) PROVE stream'[from + k].c = text[k]
      <4>1. CASE k <= m
        <5>1. k \in 1..m /\ from + k \in 1..L
          BY <1>1, <2>1, <2>2, <3>2, <4>1
        <5> QED BY <1>3, <2>2, <5>1
      <4>2. CASE k > m
        <5>1. k - m \in 1..Len(x) /\ from + k = L + (k - m) /\ m + (k - m) = k
          BY <1>1, <2>1, <2>2, <3>2, <4>2
        <5>2. stream'[L + (k - m)].c = x[k - m] /\ x[k - m] = text[m + (k - m)]
          BY <1>3, <1>6, <5>1
        <5> QED BY <5>1, <5>2
      <4> QED BY <2>1, <4>1, <4>2
    <3>6. from \in 0..Len(stream') /\ m + Len(x) \in Nat
      BY <1>1, <1>3, <2>1, <2>2
    <3> QED BY <3>4, <3>5, <3>6 DEF Prefix
  <2> QED BY <2>3, <2>4
<1>7. ASSUME Len(x) > 0, x[Len(x)] = NL PROVE LineEnd(stream', id)
  <2> DEFINE last == L + Len(x)
  <2>1. Len(x) \in 1..Len(x) /\ last \in 1..Len(stream') /\ last > L
    BY <1>1, <1>3, <1>7
  <2>2. last \in By(stream', id) /\ stream'[last].c = NL
    BY <1>3, <1>4, <1>7, <2>1
  <2>3. \A k \in By(stream', id) : k <= last
    BY <1>5
  <2> HIDE DEF last
  <2> QED BY <2>2, <2>3 DEF LineEnd
<1> QED BY <1>2, <1>6, <1>7 DEF id

(* The text before the parser is what the format prints next. *)
LEMMA TextParsed ==
  ASSUME Types, NEW t \in Threads, thread[t].pc = "parse", NEW st,
         Parsed(thread[t], Id(t), st)
  PROVE  LET f == Format(t)
             m == Count(Kept(f), thread[t].start - 1)
         IN  /\ Count(Kept(f), thread[t].i - 1) = m + Len(Text(t))
             /\ \A j \in 1..Len(Text(t)) : Text(t)[j] = Expansion(f, Args(t))[m + j]
<1> DEFINE f == Format(t)
           K == Kept(f)
           a == thread[t].start - 1
           b == thread[t].i - 1
           m == Count(K, a)
<1>1. /\ f \in Seq(CharSet) /\ Len(f) \in Nat /\ a \in Nat /\ b \in Nat /\ b <= Len(f)
      /\ thread[t].start = a + 1 /\ thread[t].i = b + 1
  <2>1. thread[t].start \in Nat \ {0} /\ thread[t].i \in Nat \ {0}
    BY DEF Types, FrameType
  <2>2. thread[t].i <= Len(f) + 1
    BY DEF Types, CallOK, Format, Frame
  <2>3. f \in Seq(CharSet) /\ Len(f) \in Nat
    BY FormatTypes
  <2> QED BY <2>1, <2>2, <2>3
<1>3. a <= b /\ \A k \in (a + 1)..b : k \in K /\ k \notin Holes(f)
  BY <1>1 DEF Parsed, Format, Frame
<1>2. Text(t) = SubSeq(f, a + 1, b) /\ Len(Text(t)) = b - a
      /\ \A j \in 1..(b - a) : Text(t)[j] = f[a + j]
  <2>1. Text(t) = SubSeq(f, a + 1, b)
    BY <1>1 DEF Text, Frame
  <2>2. a + 1 \in 1..(Len(f) + 1) /\ b \in 0..Len(f) /\ b - a \in Nat
    BY <1>1, <1>3
  <2> HIDE DEF f, a, b
  <2>3. Len(SubSeq(f, a + 1, b)) = b - a
    BY <1>1, <1>3, <2>2
  <2>4. \A j \in 1..(b - a) : SubSeq(f, a + 1, b)[j] = f[a + j]
    BY <1>1, <1>3, <2>2
  <2> QED BY <2>1, <2>3, <2>4
<1> HIDE DEF f, a, b
<1>5. K \in SUBSET (1..Len(f))
  BY <1>1, FormatPlaces
<1>6. Count(K, b) = m + (b - a)
  BY <1>1, <1>3, <1>5, CountRun
<1>7. ASSUME NEW j \in 1..(b - a) PROVE f[a + j] = Expansion(f, Args(t))[m + j]
  <2> DEFINE k == a + j
  <2>1. k \in (a + 1)..b /\ k \in Nat /\ a <= k /\ k - a = j
        /\ \A i \in (a + 1)..k : i \in (a + 1)..b
    BY <1>1
  <2>2. k \in K /\ k \notin Holes(f)
    BY <1>3, <2>1
  <2> HIDE DEF k, K
  <2>3. \A i \in (a + 1)..k : i \in K
    BY <1>3, <2>1
  <2>4. Count(K, k) = m + j
    BY <1>1, <1>5, <2>1, <2>3, CountRun
  <2>5. Expansion(f, Args(t))[Count(K, k)] = f[k]
    BY <1>1, <2>2, ExpansionAt DEF K
  <2> QED BY <2>4, <2>5 DEF k
<1> QED BY <1>2, <1>6, <1>7 DEF f, a, b

(***************************************************************************)
(* Each step of the call keeps this.                                       *)
(***************************************************************************)
LEMMA ParserFacts ==
  ASSUME LInv, RInv, NEW t \in Threads, thread[t].pc = "parse"
  PROVE  /\ thread[t] \in FrameType /\ thread[t].call \in FmtCalls /\ thread[t].kind = "fmt"
         /\ Format(t) = thread[t].call.format /\ Args(t) = thread[t].call.args
         /\ Format(t) \in Seq(CharSet) /\ Args(t) \in Seq(CharSet) /\ Text(t) \in Seq(CharSet)
         /\ Len(Format(t)) \in Nat /\ Len(Args(t)) \in Nat /\ Len(Text(t)) \in Nat
         /\ thread[t].i \in Nat \ {0} /\ thread[t].start \in Nat \ {0} /\ thread[t].arg \in Nat \ {0}
         /\ thread[t].i <= Len(Format(t)) + 1
         /\ owner = t
         /\ Parsed(thread[t], Id(t), stream)
<1>1. /\ Types /\ thread[t] \in FrameType /\ thread[t].call \in FmtCalls
      /\ thread[t].i <= Len(Format(t)) + 1 /\ owner = t
  BY DEF LInv, Types, CallOK, Format, Frame, Exclusive, Region
<1>2. thread[t].kind = "fmt" /\ Parsed(thread[t], Id(t), stream)
  BY DEF RInv, Good
<1>3. /\ thread[t].i \in Nat \ {0} /\ thread[t].start \in Nat \ {0}
      /\ thread[t].arg \in Nat \ {0}
  BY <1>1 DEF FrameType
<1>4. Format(t) \in Seq(CharSet) /\ Args(t) \in Seq(CharSet) /\ Text(t) \in Seq(CharSet)
  BY <1>1, FormatTypes
<1>5. Len(Format(t)) \in Nat /\ Len(Args(t)) \in Nat /\ Len(Text(t)) \in Nat
  BY <1>4
<1> QED BY <1>1, <1>2, <1>3, <1>4, <1>5 DEF Format, Args, Frame

LEMMA ParsesOn ==
  ASSUME NEW g, NEW id, NEW st, NEW fl, NEW br,
         g.pc = "parse", g.kind = "fmt", Parsed(g, id, st)
  PROVE  Good(g, id, st, fl, br)
BY DEF Good

(* Parsing stops, and the call knows why. *)
LEMMA ParserStops ==
  ASSUME LInv, RInv, NEW t \in Threads, thread[t].pc = "parse",
         GotoWith(t, "finish", FALSE), Cause(thread[t], Id(t), broken')
  PROVE  Good(thread'[t], Id(t), stream', flushed', broken')
<1> DEFINE g == thread[t]
           h == [g EXCEPT !.pc = "finish", !.success = FALSE]
<1>1. g \in FrameType /\ g.kind = "fmt" /\ g.call \in FmtCalls
  BY ParserFacts
<1>2. thread'[t] = h
  BY DEF GotoWith, LInv, Types
<1>3. h.pc = "finish" /\ h.kind = "fmt" /\ h.call = g.call /\ h.success = FALSE
  BY <1>1 DEF FrameType
<1>4. Cause(h, Id(t), broken')
  BY <1>1, <1>3 DEF Cause
<1> HIDE DEF h
<1>5. Good(h, Id(t), stream', flushed', broken')
  BY <1>1, <1>3, <1>4, Zenon DEF Good
<1> QED BY <1>2, <1>5

LEMMA plainCharGood ==
  ASSUME LInv, RInv, NEW t \in Threads, plainChar(t)
  PROVE  Good(thread'[t], Id(t), stream', flushed', broken')
<1> DEFINE g == thread[t]
           h == [g EXCEPT !.i = @ + 1]
           f == Format(t)
           i == g.i
<1>1. g.pc = "parse" /\ i <= Len(f) /\ f[i] # "#" /\ f[i] # Escape
      /\ stream' = stream /\ thread' = [thread EXCEPT ![t].i = @ + 1]
  BY DEF plainChar, InFormat, Char, Frame
<1>2. /\ g \in FrameType /\ g.kind = "fmt" /\ f = g.call.format /\ Len(f) \in Nat
      /\ i \in Nat \ {0} /\ g.start \in Nat \ {0} /\ g.arg \in Nat \ {0}
      /\ Parsed(g, Id(t), stream)
  BY <1>1, ParserFacts
<1>3. thread'[t] = h
  BY <1>1 DEF LInv, Types
<1>4. h.pc = "parse" /\ h.kind = "fmt" /\ h.call = g.call /\ h.i = i + 1
      /\ h.start = g.start /\ h.arg = g.arg
  BY <1>1, <1>2 DEF FrameType
<1>5. i \in Kept(f) /\ i \notin Holes(f) /\ i \notin Escapes(f)
  <2>1. i \in 1..Len(f)
    BY <1>1, <1>2
  <2> QED BY <1>1, <2>1 DEF Kept, Holes, Escapes
<1>6. Count(Holes(f), i) = Count(Holes(f), i - 1)
  <2>1. Holes(f) \in SUBSET (1..Len(f))
    BY <1>2, FormatPlaces
  <2> QED BY <1>2, <1>5, <2>1, CountNext
<1> HIDE DEF h
<1>7. Parsed(h, Id(t), stream)
  <2>1. h.i - 1 = i
    BY <1>2, <1>4
  <2>2. /\ Count(Holes(f), i - 1) = g.arg - 1 /\ g.start <= i
        /\ \A k \in g.start..(i - 1) : k \in Kept(f) /\ k \notin Holes(f)
        /\ g.arg - 1 <= Len(g.call.args)
        /\ Prefix(stream, Id(t), Expansion(f, g.call.args), Count(Kept(f), g.start - 1))
    BY <1>2 DEF Parsed
  <2>3. g.start <= i + 1 /\ \A k \in g.start..i : k = i \/ k \in g.start..(i - 1)
    BY <1>2, <2>2
  <2> HIDE DEF i
  <2>4. \A k \in g.start..i : k \in Kept(f) /\ k \notin Holes(f)
    BY <1>5, <2>2, <2>3
  <2> QED BY <1>2, <1>4, <1>5, <1>6, <2>1, <2>2, <2>3, <2>4 DEF Parsed
<1> QED BY <1>1, <1>3, <1>4, <1>7, ParsesOn

LEMMA textFailsGood ==
  ASSUME LInv, RInv, NEW t \in Threads, textFails(t)
  PROVE  Good(thread'[t], Id(t), stream', flushed', broken')
<1>1. thread[t].pc = "parse" /\ GotoWith(t, "finish", FALSE) /\ Id(t) \in broken'
  BY DEF textFails, Fails, Frame
<1> QED BY <1>1, ParserStops DEF Cause

(* Where the parser meets "#", the next argument belongs. *)
LEMMA AtHole ==
  ASSUME LInv, RInv, NEW t \in Threads, InFormat(t), Char(t) = "#"
  PROVE  LET f == Format(t)
             i == thread[t].i
         IN  /\ i \notin Escapes(f)
             /\ Count(Holes(f), i) = thread[t].arg
             /\ Count(Kept(f), i) = Count(Kept(f), i - 1) + 1
             /\ Expansion(f, Args(t))[Count(Kept(f), i)] = Args(t)[thread[t].arg]
             /\ thread[t].arg <= Cardinality(Holes(f))
<1> DEFINE f == Format(t)
           i == thread[t].i
           arg == thread[t].arg
<1>1. thread[t].pc = "parse" /\ i <= Len(f) /\ f[i] = "#"
  BY DEF InFormat, Char, Frame
<1>2. /\ f = thread[t].call.format /\ Len(f) \in Nat
      /\ i \in Nat \ {0} /\ i \in 1..Len(f) /\ arg \in Nat \ {0} /\ Parsed(thread[t], Id(t), stream)
  BY <1>1, ParserFacts
<1>3. /\ Escapes(f) \in SUBSET (1..Len(f)) /\ Holes(f) \in SUBSET (1..Len(f))
      /\ Kept(f) \in SUBSET (1..Len(f))
  BY <1>2, FormatPlaces
<1>4. i - 1 \notin Escapes(f) /\ Count(Holes(f), i - 1) = arg - 1
  BY <1>2 DEF Parsed
<1>5. i \in Holes(f) /\ i \notin Escapes(f) /\ i \in Kept(f)
  BY <1>1, <1>2, <1>4 DEF Holes, Escapes, Kept, Escape
<1>6. Count(Holes(f), i) = Count(Holes(f), i - 1) + 1
  BY <1>2, <1>3, <1>5, CountNext
<1>7. Count(Kept(f), i) = Count(Kept(f), i - 1) + 1
  BY <1>2, <1>3, <1>5, CountNext
<1>8. Count(Holes(f), i) = arg
  BY <1>2, <1>4, <1>6
<1>9. Expansion(f, Args(t))[Count(Kept(f), i)] = Args(t)[Count(Holes(f), i)]
  BY <1>2, <1>5, ExpansionAt
<1>10. Count(Holes(f), i) <= Cardinality(Holes(f))
  BY <1>2, <1>3, PlaceFacts, CountType
<1> HIDE DEF f, i, arg
<1>11. /\ i \notin Escapes(f)
       /\ Count(Holes(f), i) = arg
       /\ Count(Kept(f), i) = Count(Kept(f), i - 1) + 1
       /\ Expansion(f, Args(t))[Count(Kept(f), i)] = Args(t)[arg]
       /\ arg <= Cardinality(Holes(f))
  BY <1>5, <1>7, <1>8, <1>9, <1>10
<1> QED BY <1>11 DEF f, i, arg

LEMMA placeholderGood ==
  ASSUME LInv, RInv, NEW t \in Threads, placeholder(t)
  PROVE  Good(thread'[t], Id(t), stream', flushed', broken')
<1> DEFINE g == thread[t]
           f == Format(t)
           i == g.i
           a == g.arg
           id == Id(t)
<1>1. g.pc = "parse" /\ InFormat(t) /\ Char(t) = "#"
  BY DEF placeholder, InFormat, Frame
<1>2. /\ g \in FrameType /\ g.kind = "fmt" /\ f = g.call.format /\ Args(t) = g.call.args
      /\ f \in Seq(CharSet) /\ Args(t) \in Seq(CharSet) /\ Text(t) \in Seq(CharSet)
      /\ Len(f) \in Nat /\ Len(Args(t)) \in Nat /\ Len(Text(t)) \in Nat
      /\ i \in Nat \ {0} /\ g.start \in Nat \ {0} /\ a \in Nat \ {0}
      /\ owner = t /\ Parsed(g, id, stream)
  BY <1>1, ParserFacts
<1>3. /\ i \notin Escapes(f)
      /\ Count(Holes(f), i) = a
      /\ Count(Kept(f), i) = Count(Kept(f), i - 1) + 1
      /\ Expansion(f, Args(t))[Count(Kept(f), i)] = Args(t)[a]
      /\ a <= Cardinality(Holes(f))
  BY <1>1, AtHole
<1>4. CASE a > Len(Args(t)) /\ GotoWith(t, "finish", FALSE)
  <2>1. Cardinality(Holes(f)) # Len(Args(t))
    <3>1. Cardinality(Holes(f)) \in Nat
      BY <1>2, FormatPlaces, PlaceFacts, FS_CardinalityType
    <3> QED BY <1>2, <1>3, <1>4, <3>1
  <2>2. Cause(g, id, broken')
    BY <1>2, <2>1 DEF Cause, WellFormed
  <2> QED BY <1>1, <1>4, <2>2, ParserStops
<1>5. CASE broken' = broken \cup {id} /\ GotoWith(t, "finish", FALSE)
  BY <1>1, <1>5, ParserStops DEF Cause
<1>6. CASE thread' = [thread EXCEPT ![t].pc = "unlock", ![t].result = "threw"]
  <2> DEFINE h == [g EXCEPT !.pc = "unlock", !.result = "threw"]
  <2>1. thread'[t] = h
    BY <1>6 DEF LInv, Types
  <2>2. h.pc = "unlock" /\ h.result = "threw"
    BY <1>2 DEF FrameType
  <2> HIDE DEF h
  <2>3. Good(h, id, stream', flushed', broken')
    BY <2>2 DEF Good
  <2> QED BY <2>1, <2>3
<1>7. CASE /\ a <= Len(Args(t)) /\ Accepts(t, Text(t) \o <<Args(t)[a]>>)
           /\ thread' = [thread EXCEPT ![t].i = @ + 1, ![t].start = Frame(t).i + 1,
                                       ![t].arg = @ + 1]
  <2> DEFINE h == [g EXCEPT !.i = @ + 1, !.start = i + 1, !.arg = @ + 1]
             x == Text(t) \o <<Args(t)[a]>>
             m == Count(Kept(f), g.start - 1)
             E == Expansion(f, Args(t))
  <2>1. thread'[t] = h
    BY <1>7 DEF LInv, Types, Frame
  <2>2. h.pc = "parse" /\ h.kind = "fmt" /\ h.call = g.call /\ h.i = i + 1
        /\ h.start = i + 1 /\ h.arg = a + 1
    BY <1>1, <1>2 DEF FrameType
  <2>3. x \in Seq(CharSet) /\ Len(x) = Len(Text(t)) + 1
        /\ (\A j \in 1..Len(Text(t)) : x[j] = Text(t)[j]) /\ x[Len(Text(t)) + 1] = Args(t)[a]
    <3>1. Args(t)[a] \in CharSet
      BY <1>2, <1>7
    <3> QED BY <1>2, <3>1
  <2>4. /\ Count(Kept(f), i - 1) = m + Len(Text(t))
        /\ \A j \in 1..Len(Text(t)) : Text(t)[j] = E[m + j]
    BY <1>1, <1>2, TextParsed DEF LInv
  <2>5. m \in Nat /\ Prefix(stream, id, E, m)
    BY <1>2 DEF Parsed, Prefix
  <2> HIDE DEF h, x, m, E
  <2>6. Count(Kept(f), i) = m + Len(x)
    BY <1>2, <1>3, <2>3, <2>4, <2>5
  <2>7. \A j \in 1..Len(x) : x[j] = E[m + j]
    <3>1. ASSUME NEW j \in 1..Len(x) PROVE x[j] = E[m + j]
      <4>1. CASE j \in 1..Len(Text(t))
        BY <2>3, <2>4, <4>1
      <4>2. CASE j = Len(x)
        BY <1>3, <2>3, <2>6, <4>2 DEF E
      <4> QED BY <1>2, <2>3, <4>1, <4>2
    <3> QED BY <3>1
  <2>8. Prefix(stream', id, E, m + Len(x))
    BY <1>2, <1>7, <2>3, <2>5, <2>7, OwnWrite DEF x
  <2>9. Parsed(h, id, stream')
    <3>1. h.i - 1 = i /\ h.start - 1 = i /\ h.arg - 1 = a /\ h.start <= h.i
          /\ h.start..i = {}
      BY <1>2, <2>2
    <3> HIDE DEF i, a
    <3> QED BY <1>2, <1>3, <1>7, <2>2, <2>6, <2>8, <3>1 DEF Parsed, E
  <2> QED BY <2>1, <2>2, <2>9, ParsesOn
<1> QED BY <1>4, <1>5, <1>6, <1>7 DEF placeholder, Frame

LEMMA escapeGood ==
  ASSUME LInv, RInv, NEW t \in Threads, escape(t)
  PROVE  Good(thread'[t], Id(t), stream', flushed', broken')
<1> DEFINE g == thread[t]
           f == Format(t)
           i == g.i
           id == Id(t)
           m == Count(Kept(f), g.start - 1)
           E == Expansion(f, Args(t))
<1>1. g.pc = "parse" /\ i <= Len(f) /\ f[i] = Escape /\ Accepts(t, Text(t))
  BY DEF escape, InFormat, Char, Frame
<1>2. /\ g \in FrameType /\ g.kind = "fmt" /\ f = g.call.format /\ Args(t) = g.call.args
      /\ f \in Seq(CharSet) /\ Args(t) \in Seq(CharSet) /\ Text(t) \in Seq(CharSet)
      /\ Len(f) \in Nat /\ Len(Args(t)) \in Nat /\ Len(Text(t)) \in Nat
      /\ i \in Nat \ {0} /\ g.start \in Nat \ {0} /\ g.arg \in Nat \ {0}
      /\ owner = t /\ Parsed(g, id, stream)
  BY <1>1, ParserFacts
<1>3. /\ i - 1 \notin Escapes(f) /\ Count(Holes(f), i - 1) = g.arg - 1
      /\ g.arg - 1 <= Len(g.call.args) /\ m \in Nat /\ Prefix(stream, id, E, m)
  BY <1>2 DEF Parsed, Prefix
<1>4. i \in 1..Len(f) /\ i \in Escapes(f) /\ i \notin Holes(f) /\ i \notin Kept(f)
  <2>1. i \in 1..Len(f)
    BY <1>1, <1>2
  <2>2. i \in Escapes(f)
    BY <1>1, <1>2, <1>3, <2>1, EscapeNext
  <2> QED BY <1>1, <2>1, <2>2 DEF Holes, Kept, Escape
<1>5. CASE i = Len(f) /\ GotoWith(t, "finish", FALSE)
  <2>1. Cause(g, id, broken')
    BY <1>2, <1>4, <1>5 DEF Cause, WellFormed
  <2> QED BY <1>1, <1>5, <2>1, ParserStops
<1>6. CASE i # Len(f) /\ thread' = [thread EXCEPT ![t].i = @ + 2, ![t].start = Frame(t).i + 1]
  <2> DEFINE h == [g EXCEPT !.i = @ + 2, !.start = i + 1]
  <2>1. thread'[t] = h
    BY <1>6 DEF LInv, Types, Frame
  <2>2. h.pc = "parse" /\ h.kind = "fmt" /\ h.call = g.call /\ h.i = i + 2
        /\ h.start = i + 1 /\ h.arg = g.arg
    BY <1>1, <1>2 DEF FrameType
  <2>3. /\ Count(Kept(f), i - 1) = m + Len(Text(t))
        /\ \A j \in 1..Len(Text(t)) : Text(t)[j] = E[m + j]
    BY <1>1, <1>2, TextParsed DEF LInv
  <2>4. /\ Holes(f) \in SUBSET (1..Len(f)) /\ Kept(f) \in SUBSET (1..Len(f))
    BY <1>2, FormatPlaces
  <2>5. i + 1 \in 1..Len(f) /\ (i + 1) - 1 = i /\ i + 1 \in Nat \ {0}
    BY <1>2, <1>4, <1>6
  <2>6. i + 1 \notin Escapes(f) /\ i + 1 \notin Holes(f) /\ i + 1 \in Kept(f)
    <3>1. i + 1 \notin Escapes(f)
      BY <1>2, <1>4, <2>5, EscapeNext
    <3>2. i + 1 \notin Holes(f)
      BY <1>4, <2>5 DEF Holes
    <3> QED BY <2>5, <3>1, <3>2 DEF Kept
  <2>7. Count(Kept(f), i) = Count(Kept(f), i - 1)
    BY <1>2, <1>4, <2>4, CountNext
  <2>8. Count(Holes(f), i + 1) = g.arg - 1
    <3>1. Count(Holes(f), i) = Count(Holes(f), i - 1)
      BY <1>2, <1>4, <2>4, CountNext
    <3>2. Count(Holes(f), i + 1) = Count(Holes(f), (i + 1) - 1)
      BY <1>2, <2>4, <2>5, <2>6, CountNext
    <3> QED BY <1>3, <2>5, <3>1, <3>2
  <2>9. Prefix(stream', id, E, m + Len(Text(t)))
    <3> HIDE DEF m, E
    <3> QED BY <1>1, <1>2, <1>3, <2>3, OwnWrite
  <2> HIDE DEF h, m
  <2>10. Parsed(h, id, stream')
    <3>1. h.i - 1 = i + 1 /\ h.start - 1 = i /\ h.start <= h.i
          /\ \A k \in h.start..(i + 1) : k = i + 1
      BY <1>2, <2>2
    <3> HIDE DEF i
    <3> QED BY <1>2, <1>3, <2>2, <2>3, <2>6, <2>7, <2>8, <2>9, <3>1 DEF Parsed
  <2> QED BY <2>1, <2>2, <2>10, ParsesOn
<1> QED BY <1>5, <1>6 DEF escape, Frame

(* The frame after a step that only moves on. *)
LEMMA MovedOn ==
  ASSUME Types, NEW t \in Threads, NEW pc \in Region,
         \/ Goto(t, pc)
         \/ GotoWith(t, pc, TRUE)
         \/ GotoWith(t, pc, FALSE)
  PROVE  LET g == thread[t]
             h == thread'[t]
         IN  /\ h.pc = pc /\ h.kind = g.kind /\ h.call = g.call /\ h.result = g.result
             /\ Goto(t, pc) => h.success = g.success
             /\ GotoWith(t, pc, TRUE) => h.success = TRUE
             /\ GotoWith(t, pc, FALSE) => h.success = FALSE
<1> DEFINE g == thread[t]
<1>1. g \in FrameType /\ thread \in [Threads -> FrameType]
  BY DEF Types
<1>2. ASSUME Goto(t, pc)
      PROVE  thread'[t] = [g EXCEPT !.pc = pc]
  BY <1>1, <1>2 DEF Goto
<1>3. ASSUME NEW b \in BOOLEAN, GotoWith(t, pc, b)
      PROVE  thread'[t] = [g EXCEPT !.pc = pc, !.success = b]
  BY <1>1, <1>3 DEF GotoWith
<1>4. LET x == [g EXCEPT !.pc = pc] IN
        /\ x.pc = pc /\ x.kind = g.kind /\ x.call = g.call /\ x.result = g.result
        /\ x.success = g.success
  BY <1>1 DEF FrameType
<1>5. ASSUME NEW b \in BOOLEAN
      PROVE  LET x == [g EXCEPT !.pc = pc, !.success = b] IN
               /\ x.pc = pc /\ x.kind = g.kind /\ x.call = g.call /\ x.result = g.result
               /\ x.success = b
  BY <1>1, Zenon DEF FrameType
<1> DEFINE h == thread'[t]
           Same == /\ h.pc = pc /\ h.kind = g.kind /\ h.call = g.call
                   /\ h.result = g.result
<1>6. ASSUME Goto(t, pc) PROVE Same /\ h.success = g.success
  BY <1>2, <1>4, <1>6
<1>7. ASSUME GotoWith(t, pc, TRUE) PROVE Same /\ h.success = TRUE
  BY <1>3, <1>5, <1>7
<1>8. ASSUME GotoWith(t, pc, FALSE) PROVE Same /\ h.success = FALSE
  BY <1>3, <1>5, <1>8
<1> HIDE DEF g, h
<1>9. /\ Same
      /\ Goto(t, pc) => h.success = g.success
      /\ GotoWith(t, pc, TRUE) => h.success = TRUE
      /\ GotoWith(t, pc, FALSE) => h.success = FALSE
  BY <1>6, <1>7, <1>8, Zenon
<1> QED BY <1>9, Zenon DEF g, h

(* At the end of the format every hole and every kept character is passed. *)
LEMMA AtEnd ==
  ASSUME LInv, RInv, NEW t \in Threads, endOfFormat(t)
  PROVE  LET f == thread[t].call.format
             args == thread[t].call.args
         IN  /\ WellFormed(f, args) <=> thread[t].arg = Len(args) + 1
             /\ Prefix(stream', Id(t), Expansion(f, args), Cardinality(Kept(f)))
<1> DEFINE g == thread[t]
           f == Format(t)
           i == g.i
           id == Id(t)
           m == Count(Kept(f), g.start - 1)
           E == Expansion(f, Args(t))
<1>1. g.pc = "parse" /\ i > Len(f) /\ Accepts(t, Text(t))
  BY DEF endOfFormat, Frame
<1>2. /\ f = g.call.format /\ Args(t) = g.call.args
      /\ f \in Seq(CharSet) /\ Args(t) \in Seq(CharSet) /\ Text(t) \in Seq(CharSet)
      /\ Len(f) \in Nat /\ Len(Args(t)) \in Nat /\ Len(Text(t)) \in Nat
      /\ i \in Nat \ {0} /\ g.arg \in Nat \ {0} /\ i <= Len(f) + 1
      /\ owner = t /\ Parsed(g, id, stream)
  BY <1>1, ParserFacts
<1>3. i - 1 = Len(f)
  <2> HIDE DEF f, i
  <2> QED BY <1>1, <1>2
<1>4. /\ Len(f) \notin Escapes(f) /\ Count(Holes(f), Len(f)) = g.arg - 1
      /\ m \in Nat /\ Prefix(stream, id, E, m)
  BY <1>2, <1>3 DEF Parsed, Prefix
<1>5. /\ Holes(f) \in SUBSET (1..Len(f)) /\ Kept(f) \in SUBSET (1..Len(f))
  BY <1>2, FormatPlaces
<1>6. /\ Count(Holes(f), Len(f)) = Cardinality(Holes(f))
      /\ Count(Kept(f), Len(f)) = Cardinality(Kept(f))
  <2>1. Len(f) \in Int /\ Len(f) >= Len(f)
    BY <1>2
  <2> HIDE DEF f
  <2> QED BY <1>2, <1>5, <2>1, CountEnds
<1>7. /\ Count(Kept(f), i - 1) = m + Len(Text(t))
      /\ \A j \in 1..Len(Text(t)) : Text(t)[j] = E[m + j]
  BY <1>1, <1>2, TextParsed DEF LInv
<1>8. m + Len(Text(t)) = Cardinality(Kept(f))
  BY <1>3, <1>6, <1>7
<1>9. Prefix(stream', id, E, m + Len(Text(t)))
  <2> HIDE DEF m, E
  <2> QED BY <1>1, <1>2, <1>4, <1>7, OwnWrite
<1>10. WellFormed(f, Args(t)) <=> g.arg = Len(Args(t)) + 1
  <2> HIDE DEF f
  <2>1. WellFormed(f, Args(t)) <=> Cardinality(Holes(f)) = Len(Args(t))
    BY <1>4 DEF WellFormed
  <2>2. Cardinality(Holes(f)) = g.arg - 1
    BY <1>4, <1>6
  <2> QED BY <1>2, <2>1, <2>2
<1> QED BY <1>2, <1>8, <1>9, <1>10

LEMMA endOfFormatGood ==
  ASSUME LInv, RInv, NEW t \in Threads, endOfFormat(t)
  PROVE  Good(thread'[t], Id(t), stream', flushed', broken')
<1> DEFINE g == thread[t]
           h == thread'[t]
<1>1. Types /\ g.pc = "parse" /\ "finish" \in Region
  BY DEF LInv, endOfFormat, Frame, Region
<1>2. g.kind = "fmt" /\ g.call \in FmtCalls /\ Args(t) = g.call.args
  BY <1>1, ParserFacts
<1>3. /\ WellFormed(g.call.format, g.call.args) <=> g.arg = Len(g.call.args) + 1
      /\ Printed(g, Id(t), stream') <=> WellFormed(g.call.format, g.call.args)
  BY AtEnd DEF Printed
<1>4. CASE g.arg = Len(g.call.args) + 1
  <2>1. GotoWith(t, "finish", TRUE)
    BY <1>2, <1>4 DEF endOfFormat, Frame
  <2>2. h.pc = "finish" /\ h.kind = "fmt" /\ h.call = g.call /\ h.success = TRUE
    BY <1>1, <1>2, <2>1, MovedOn, Zenon
  <2>3. Printed(h, Id(t), stream')
    BY <1>3, <1>4, <2>2 DEF Printed
  <2> HIDE DEF h
  <2>4. Good(h, Id(t), stream', flushed', broken')
    BY <1>2, <2>2, <2>3, Zenon DEF Good
  <2> QED BY <2>4 DEF h
<1>5. CASE g.arg # Len(g.call.args) + 1
  <2>1. GotoWith(t, "finish", FALSE)
    BY <1>2, <1>5 DEF endOfFormat, Frame
  <2>2. Cause(g, Id(t), broken')
    BY <1>2, <1>3, <1>5 DEF Cause
  <2> QED BY <1>1, <2>1, <2>2, ParserStops
<1> QED BY <1>4, <1>5

LEMMA CallTypes ==
  ASSUME NEW c
  PROVE  /\ c \in FmtCalls => c.format \in Seq(CharSet) /\ c.args \in Seq(CharSet)
         /\ c \in PlainCalls => c.args \in Seq(CharSet)
<1>1. \A x \in Seq(STRING) : x \in Seq(CharSet)
  <2>1. STRING \subseteq CharSet
    BY DEF CharSet
  <2> QED BY <2>1, TextOfStrings
<1> QED BY <1>1, LoggerAssumption

(* The newline completes the record. *)
LEMMA LineWritten ==
  ASSUME LInv, NEW t \in Threads, owner = t, NEW text \in Seq(CharSet),
         Prefix(stream, Id(t), text, Len(text)), Accepts(t, <<NL>>)
  PROVE  /\ Prefix(stream', Id(t), text \o <<NL>>, Len(text \o <<NL>>))
         /\ LineEnd(stream', Id(t))
<1> DEFINE all == text \o <<NL>>
           m == Len(text)
           x == <<NL>>
<1>1. NL \in CharSet /\ x \in Seq(CharSet) /\ Len(x) = 1 /\ x[1] = NL
  <2>1. NL \in CharSet
    BY DEF CharSet
  <2> QED BY <2>1, SingletonText
<1>2. /\ m \in Nat /\ Len(all) = m + 1
      /\ (\A k \in 1..m : all[k] = text[k]) /\ all[m + 1] = NL
  BY <1>1
<1>3. Prefix(stream, Id(t), all, m)
  <2> HIDE DEF all, m
  <2> QED BY <1>2 DEF Prefix, m
<1>4. \A j \in 1..Len(x) : x[j] = all[m + j]
  <2> HIDE DEF all, x
  <2> QED BY <1>1, <1>2
<1> HIDE DEF all, m, x
<1>5. Accepts(t, x)
  BY DEF x
<1>6. Prefix(stream', Id(t), all, m + Len(x))
  BY <1>1, <1>3, <1>4, <1>5, OwnWrite
<1>7. LineEnd(stream', Id(t))
  <2>1. Len(x) > 0 /\ x[Len(x)] = NL
    BY <1>1
  <2> QED BY <1>1, <1>5, <2>1, OwnWrite
<1> QED BY <1>1, <1>2, <1>6, <1>7 DEF all

(* A call that is told how its writing ended. *)
LEMMA ToldGood ==
  ASSUME NEW g, NEW id, NEW st, NEW fl, NEW br, NEW success \in BOOLEAN,
         g.pc \in {"flush", "unlock"}, g.success = success,
         success => Complete(g, id, st),
         ~success => Cause(g, id, br),
         g.kind = "fmt" => id \in br \/ LineEnd(st, id),
         g.pc = "unlock" => ~g.call.flush
  PROVE  Good(g, id, st, fl, br)
<1>1. Told(g, id, st, fl, br)
  BY Zenon DEF Told
<1> QED BY <1>1, Zenon DEF Good

(* A failure of stdio explains everything. *)
LEMMA FailedGood ==
  ASSUME NEW g, NEW id, NEW st, NEW fl, NEW br,
         g.pc \in {"flush", "unlock"}, ~g.success, id \in br
  PROVE  Good(g, id, st, fl, br)
<1>1. Cause(g, id, br)
  BY DEF Cause
<1>2. Told(g, id, st, fl, br)
  BY <1>1, Zenon DEF Told
<1> QED BY <1>2, Zenon DEF Good

LEMMA AfterNewlineFacts ==
  ASSUME NEW t
  PROVE  /\ AfterNewline(t) \in {"flush", "unlock"}
         /\ AfterNewline(t) = "unlock" => ~thread[t].call.flush
BY Zenon DEF AfterNewline, Frame

LEMMA finishGood ==
  ASSUME LInv, RInv, NEW t \in Threads, finish(t)
  PROVE  Good(thread'[t], Id(t), stream', flushed', broken')
<1> DEFINE g == thread[t]
           h == thread'[t]
           id == Id(t)
           pc == AfterNewline(t)
<1>1. /\ Types /\ g.pc = "finish" /\ g \in FrameType /\ owner = t
      /\ pc \in {"flush", "unlock"} /\ pc \in Region /\ (pc = "unlock" => ~g.call.flush)
  BY AfterNewlineFacts DEF LInv, Types, Exclusive, finish, Frame, Region
<1>2. /\ g.kind = "fmt" /\ g.call \in FmtCalls
      /\ g.success => Printed(g, id, stream)
      /\ ~g.success => Cause(g, id, broken)
  BY <1>1, Zenon DEF RInv, Good
<1>3. CASE Accepts(t, <<NL>>) /\ Goto(t, pc)
  <2>1. h.pc = pc /\ h.kind = g.kind /\ h.call = g.call /\ h.success = g.success
    BY <1>1, <1>3, MovedOn, Zenon
  <2>2. ASSUME g.success PROVE Complete(h, id, stream')
    <3> DEFINE E == Expansion(g.call.format, g.call.args)
    <3>1. E \in Seq(CharSet) /\ Prefix(stream, id, E, Len(E))
      BY <1>2, <2>2, CallTypes, ExpansionText DEF Printed
    <3>2. Record(h) = E \o <<NL>>
      BY <1>2, <2>1 DEF Record
    <3> HIDE DEF E
    <3> QED BY <1>1, <1>3, <3>1, <3>2, LineWritten DEF Complete
  <2>3. LineEnd(stream', id)
    <3> DEFINE x == <<NL>>
    <3>1. x \in Seq(CharSet) /\ Len(x) > 0 /\ x[Len(x)] = NL
      BY DEF CharSet
    <3>2. Accepts(t, x)
      BY <1>3
    <3> HIDE DEF x
    <3> QED BY <1>1, <3>1, <3>2, OwnWrite
  <2>4. broken' = broken /\ g.success \in BOOLEAN
    BY <1>1, <1>3 DEF Accepts, FrameType
  <2>5. ~g.success => Cause(h, id, broken')
    BY <1>2, <2>1, <2>4, Zenon DEF Cause
  <2> HIDE DEF h, pc, id
  <2> QED BY <1>1, <2>1, <2>2, <2>3, <2>4, <2>5, ToldGood, Zenon DEF h, id
<1>4. CASE Fails(t, <<NL>>) /\ GotoWith(t, pc, FALSE)
  <2>1. h.pc = pc /\ h.success = FALSE
    BY <1>1, <1>4, MovedOn, Zenon
  <2>2. id \in broken'
    BY <1>4 DEF Fails
  <2> HIDE DEF h, id, pc
  <2>4. h.pc \in {"flush", "unlock"} /\ ~h.success
    BY <1>1, <2>1, <2>2
  <2>5. Good(h, id, stream', flushed', broken')
    BY <1>1, <2>1, <2>2, <2>4, FailedGood
  <2> QED BY <2>5 DEF h, id
<1> QED BY <1>3, <1>4 DEF finish

LEMMA newlineGood ==
  ASSUME LInv, RInv, NEW t \in Threads, newline(t)
  PROVE  Good(thread'[t], Id(t), stream', flushed', broken')
<1> DEFINE g == thread[t]
           h == thread'[t]
           id == Id(t)
           pc == AfterNewline(t)
<1>1. /\ Types /\ g.pc = "print" /\ g \in FrameType /\ owner = t /\ g.call \in PlainCalls
      /\ pc \in {"flush", "unlock"} /\ pc \in Region /\ (pc = "unlock" => ~g.call.flush)
  BY AfterNewlineFacts DEF LInv, Types, CallOK, Exclusive, newline, Frame, Region
<1>2. /\ g.kind = "plain" /\ g.arg - 1 <= Len(g.call.args)
      /\ Prefix(stream, id, g.call.args, g.arg - 1)
  BY <1>1 DEF RInv, Good
<1>3. /\ g.arg \in Nat /\ g.arg > Len(g.call.args)
      /\ g.call.args \in Seq(CharSet) /\ Len(g.call.args) \in Nat
  BY <1>1, CallTypes DEF newline, FrameType, Args, Frame
<1>4. g.arg - 1 = Len(g.call.args)
  BY <1>2, <1>3
<1>5. CASE Accepts(t, <<NL>>) /\ GotoWith(t, pc, TRUE)
  <2>1. h.pc = pc /\ h.kind = g.kind /\ h.call = g.call /\ h.success = TRUE
    BY <1>1, <1>5, MovedOn, Zenon
  <2>2. Complete(h, id, stream')
    <3>1. Record(h) = g.call.args \o <<NL>>
      BY <1>2, <2>1 DEF Record
    <3> QED BY <1>1, <1>2, <1>3, <1>4, <1>5, <3>1, LineWritten DEF Complete
  <2> HIDE DEF h, pc, id
  <2> QED BY <1>1, <1>2, <2>1, <2>2, ToldGood, Zenon DEF h, id
<1>6. CASE Fails(t, <<NL>>) /\ GotoWith(t, pc, FALSE)
  <2>1. h.pc = pc /\ h.success = FALSE
    BY <1>1, <1>6, MovedOn, Zenon
  <2>2. id \in broken'
    BY <1>6 DEF Fails
  <2> HIDE DEF h, id, pc
  <2>4. h.pc \in {"flush", "unlock"} /\ ~h.success
    BY <1>1, <2>1, <2>2
  <2>5. Good(h, id, stream', flushed', broken')
    BY <1>1, <2>1, <2>2, <2>4, FailedGood
  <2> QED BY <2>5 DEF h, id
<1> QED BY <1>5, <1>6 DEF newline

LEMMA printGood ==
  ASSUME LInv, RInv, NEW t \in Threads, print(t)
  PROVE  Good(thread'[t], Id(t), stream', flushed', broken')
<1> DEFINE g == thread[t]
           h == thread'[t]
           id == Id(t)
           a == g.arg
           args == g.call.args
<1>1. /\ Types /\ g.pc = "print" /\ g \in FrameType /\ owner = t /\ g.call \in PlainCalls
      /\ Args(t) = args
  BY DEF LInv, Types, CallOK, Exclusive, print, Args, Frame, Region
<1>2. g.kind = "plain" /\ Prefix(stream, id, args, a - 1)
  BY <1>1 DEF RInv, Good
<1>3. /\ a \in Nat \ {0} /\ a <= Len(args) /\ args \in Seq(CharSet) /\ Len(args) \in Nat
  BY <1>1, CallTypes DEF print, FrameType, Frame
<1>4. CASE Accepts(t, <<Args(t)[a]>>) /\ thread' = [thread EXCEPT ![t].arg = @ + 1]
  <2> DEFINE x == <<args[a]>>
  <2>1. /\ h.pc = "print" /\ h.kind = "plain" /\ h.call = g.call /\ h.arg = a + 1
    <3>1. h = [g EXCEPT !.arg = @ + 1]
      BY <1>1, <1>4 DEF Types
    <3> HIDE DEF h
    <3> QED BY <1>1, <1>2, <3>1 DEF FrameType
  <2>2. args[a] \in CharSet /\ x \in Seq(CharSet) /\ Len(x) = 1 /\ x[1] = args[a]
    <3>1. args[a] \in CharSet
      BY <1>3
    <3> QED BY <3>1, SingletonText
  <2>3. Accepts(t, x)
    BY <1>1, <1>4
  <2> HIDE DEF x, args, a
  <2>4. \A j \in 1..Len(x) : x[j] = args[(a - 1) + j]
    <3>1. (a - 1) + 1 = a
      BY <1>3
    <3> QED BY <2>2, <3>1
  <2>5. Prefix(stream', id, args, (a - 1) + Len(x))
    BY <1>1, <1>2, <2>2, <2>3, <2>4, OwnWrite
  <2>6. h.arg - 1 = a /\ (a - 1) + Len(x) = a
    BY <1>3, <2>1, <2>2
  <2>7. Prefix(stream', id, h.call.args, h.arg - 1) /\ h.arg - 1 <= Len(h.call.args)
    BY <1>3, <2>1, <2>5, <2>6 DEF args
  <2> HIDE DEF h
  <2>8. Good(h, id, stream', flushed', broken')
    BY <2>1, <2>7 DEF Good
  <2> QED BY <2>8 DEF h
<1>5. CASE Fails(t, <<Args(t)[a]>>) /\ GotoWith(t, AfterNewline(t), FALSE)
  <2> DEFINE pc == AfterNewline(t)
  <2>1. pc \in {"flush", "unlock"} /\ pc \in Region
    BY AfterNewlineFacts DEF Region
  <2>2. h.pc = pc /\ h.success = FALSE
    BY <1>1, <1>5, <2>1, MovedOn, Zenon
  <2>3. id \in broken'
    BY <1>5 DEF Fails
  <2> HIDE DEF h, id, pc
  <2>4. h.pc \in {"flush", "unlock"} /\ ~h.success
    BY <2>1, <2>2, <2>3
  <2>5. Good(h, id, stream', flushed', broken')
    BY <2>1, <2>2, <2>3, <2>4, FailedGood
  <2> QED BY <2>5 DEF h, id
<1>6. CASE thread' = [thread EXCEPT ![t].pc = "unlock", ![t].result = "threw"]
  <2>1. h = [g EXCEPT !.pc = "unlock", !.result = "threw"]
    BY <1>1, <1>6 DEF Types
  <2> HIDE DEF h
  <2>2. h.pc = "unlock" /\ h.result = "threw"
    BY <1>1, <2>1 DEF FrameType
  <2>3. Good(h, id, stream', flushed', broken')
    BY <2>2 DEF Good
  <2> QED BY <2>3 DEF h
<1> QED BY <1>4, <1>5, <1>6 DEF print, Frame

LEMMA fflushGood ==
  ASSUME LInv, RInv, NEW t \in Threads, fflush(t)
  PROVE  Good(thread'[t], Id(t), stream', flushed', broken')
<1> DEFINE g == thread[t]
           h == thread'[t]
           id == Id(t)
<1>1. /\ Types /\ g.pc = "flush" /\ g \in FrameType /\ "unlock" \in Region /\ stream' = stream
  BY DEF LInv, Types, fflush, Frame, Region
<1>2. g.result # "threw" => Told(g, id, stream, flushed, broken)
  BY <1>1, Zenon DEF RInv, Good
<1>3. CASE flushed' = Len(stream) /\ Goto(t, "unlock") /\ UNCHANGED broken
  <2>1. /\ h.pc = "unlock" /\ h.kind = g.kind /\ h.call = g.call
        /\ h.result = g.result /\ h.success = g.success
    BY <1>1, <1>3, MovedOn, Zenon
  <2>2. InFile(stream, id, flushed')
    <3>1. Len(stream) \in Nat
      BY DEF LInv, Types
    <3> QED BY <1>3, <3>1 DEF InFile, By
  <2>3. Complete(g, id, stream) => Complete(h, id, stream)
    BY <2>1 DEF Complete, Record
  <2>4. Cause(g, id, broken) => Cause(h, id, broken)
    BY <2>1 DEF Cause
  <2>5. h.result # "threw" => Told(h, id, stream, flushed', broken)
    <3> HIDE DEF g, h
    <3> QED BY <1>2, <2>1, <2>2, <2>3, <2>4, Zenon DEF Told
  <2>6. Good(h, id, stream, flushed', broken)
    <3> HIDE DEF g, h
    <3> QED BY <2>1, <2>5, Zenon DEF Good
  <2> QED BY <1>1, <1>3, <2>6
<1>4. CASE GotoWith(t, "unlock", FALSE) /\ broken' = broken \cup {Id(t)}
  <2>1. h.pc = "unlock" /\ h.success = FALSE
    BY <1>1, <1>4, MovedOn, Zenon
  <2>2. id \in broken'
    BY <1>4
  <2> HIDE DEF h, id
  <2>3. h.pc \in {"flush", "unlock"} /\ ~h.success
    BY <2>1
  <2>4. Good(h, id, stream', flushed', broken')
    BY <2>2, <2>3, FailedGood
  <2> QED BY <2>4 DEF h, id
<1> QED BY <1>3, <1>4 DEF fflush

LEMMA funlockfileGood ==
  ASSUME LInv, RInv, NEW t \in Threads, funlockfile(t)
  PROVE  Good(thread'[t], Id(t), stream', flushed', broken')
<1> DEFINE g == thread[t]
           h == [g EXCEPT !.pc = "idle", !.result = Outcome(t)]
           id == Id(t)
<1>1. /\ g.pc = "unlock" /\ g \in FrameType /\ thread'[t] = h
      /\ stream' = stream /\ flushed' = flushed /\ broken' = broken
  BY DEF LInv, Types, funlockfile, Frame
<1>2. g.result # "threw" => Told(g, id, stream, flushed, broken)
  BY <1>1, Zenon DEF RInv, Good
<1>3. h.pc = "idle" /\ h.kind = g.kind /\ h.call = g.call /\ h.result = Outcome(t)
  BY <1>1 DEF FrameType
<1>4. Outcome(t) = IF g.result = "threw" THEN "threw" ELSE IF g.success THEN "true" ELSE "false"
  BY DEF Outcome, Frame
<1> HIDE DEF h
<1>5. Complete(g, id, stream) => Complete(h, id, stream)
  BY <1>3 DEF Complete, Record
<1>6. Cause(g, id, broken) => Cause(h, id, broken)
  BY <1>3 DEF Cause
<1>7. Answered(h, id, stream, flushed, broken)
  <2>1. CASE g.result = "threw"
    <3>1. h.result = "threw"
      BY <1>3, <1>4, <2>1
    <3>2. h.result # "true" /\ h.result # "false"
      BY <3>1
    <3> QED BY <3>1, <3>2, Zenon DEF Answered
  <2>2. CASE g.result # "threw" /\ g.success
    <3>1. h.result = "true" /\ h.result # "false"
      BY <1>3, <1>4, <2>2
    <3>2. Complete(h, id, stream) /\ (g.call.flush => InFile(stream, id, flushed))
      BY <1>1, <1>2, <1>5, <2>2, Zenon DEF Told
    <3>3. g.kind = "fmt" => id \in broken \/ LineEnd(stream, id)
      BY <1>2, <2>2, Zenon DEF Told
    <3> HIDE DEF g
    <3> QED BY <1>3, <3>1, <3>2, <3>3, Zenon DEF Answered
  <2>3. CASE g.result # "threw" /\ ~g.success
    <3>1. h.result = "false" /\ h.result # "true"
      BY <1>3, <1>4, <2>3
    <3>2. Cause(h, id, broken)
      BY <1>2, <1>6, <2>3, Zenon DEF Told
    <3>3. g.kind = "fmt" => id \in broken \/ LineEnd(stream, id)
      BY <1>2, <2>3, Zenon DEF Told
    <3> HIDE DEF g
    <3> QED BY <1>3, <3>1, <3>2, <3>3, Zenon DEF Answered
  <2> QED BY <2>1, <2>2, <2>3
<1>8. Good(h, id, stream, flushed, broken)
  BY <1>3, <1>7 DEF Good
<1> QED BY <1>1, <1>8

(* A call that has the lock begins with nothing written. *)
LEMMA flockfileGood ==
  ASSUME LInv, RInv, NEW t \in Threads, flockfile(t)
  PROVE  Good(thread'[t], Id(t), stream', flushed', broken')
<1> DEFINE g == thread[t]
           pc == IF g.kind = "fmt" THEN "parse" ELSE "print"
           h == thread'[t]
           id == Id(t)
<1>1. /\ Types /\ g.pc = "lock" /\ g \in FrameType /\ Goto(t, pc) /\ stream' = stream
      /\ pc \in Region
  BY DEF LInv, Types, flockfile, Frame, Region
<1>2. g.start = 1 /\ g.arg = 1
  BY <1>1 DEF RInv, Good
<1>3. /\ h.pc = pc /\ h.kind = g.kind /\ h.call = g.call
      /\ h.i = g.i /\ h.start = 1 /\ h.arg = 1
  <2>1. h = [g EXCEPT !.pc = pc]
    BY <1>1 DEF Goto, Types
  <2> HIDE DEF h, pc
  <2> QED BY <1>1, <1>2, <2>1 DEF FrameType
<1>4. /\ \/ g.kind = "fmt" /\ g.call \in FmtCalls /\ g.i = 1
         \/ g.kind = "plain" /\ g.call \in PlainCalls
  BY <1>1 DEF Types, CallOK
<1>5. ASSUME NEW text PROVE Prefix(stream, id, text, 0)
  <2>1. By(stream, id) = {}
    <3>1. id[1] = t
      BY DEF Id
    <3> QED BY <1>1, <3>1 DEF By, LInv, FromStarted
  <2>2. 0 \in 0..Len(stream) /\ (0 + 1)..(0 + 0) = {} /\ 1..0 = {}
    BY DEF LInv, Types
  <2> QED BY <2>1, <2>2 DEF Prefix
<1> HIDE DEF id, h
<1>6. CASE g.kind = "fmt"
  <2> DEFINE f == g.call.format
             args == g.call.args
  <2>1. f \in Seq(CharSet) /\ Len(f) \in Nat /\ args \in Seq(CharSet) /\ Len(args) \in Nat
    BY <1>4, <1>6, CallTypes
  <2>2. /\ Escapes(f) \in SUBSET (1..Len(f)) /\ Holes(f) \in SUBSET (1..Len(f))
        /\ Kept(f) \in SUBSET (1..Len(f))
    BY <2>1, FormatPlaces
  <2>3. Count(Holes(f), 0) = 0 /\ Count(Kept(f), 0) = 0 /\ 0 \notin Escapes(f)
    <3>1. Count(Holes(f), 0) = 0
      BY <2>1, <2>2, CountEnds
    <3>2. Count(Kept(f), 0) = 0
      BY <2>1, <2>2, CountEnds
    <3> QED BY <2>1, <2>2, <3>1, <3>2
  <2>4. h.pc = "parse" /\ h.kind = "fmt" /\ h.i - 1 = 0 /\ h.start - 1 = 0 /\ h.arg - 1 = 0
        /\ h.start <= h.i /\ h.start..(h.i - 1) = {} /\ h.call.format = f /\ h.call.args = args
    BY <1>3, <1>4, <1>6
  <2> HIDE DEF f, args
  <2>5. Parsed(h, id, stream)
    BY <1>5, <2>1, <2>3, <2>4 DEF Parsed
  <2> QED BY <1>1, <2>4, <2>5, ParsesOn DEF id, h
<1>7. CASE g.kind = "plain"
  <2>1. h.pc = "print" /\ h.kind = "plain" /\ h.arg - 1 = 0 /\ h.call = g.call
    BY <1>3, <1>7
  <2>2. Len(g.call.args) \in Nat
    BY <1>4, <1>7, CallTypes
  <2>3. Good(h, id, stream, flushed', broken')
    BY <1>5, <2>1, <2>2 DEF Good
  <2> QED BY <1>1, <2>3 DEF id, h
<1> QED BY <1>4, <1>6, <1>7

(* The other calls keep what they know. *)
LEMMA OthersGood ==
  ASSUME LInv, RInv, NEW t \in Threads, NEW o \in Threads, o # t,
         thread'[o] = thread[o],
         NEW s, OwnTokens(t, s), stream' = stream \o s,
         flushed' \in Int, flushed <= flushed', broken \subseteq broken'
  PROVE  Good(thread'[o], Id(o)', stream', flushed', broken')
<1> DEFINE id == Id(o)
<1>1. /\ thread[o] \in FrameType /\ stream \in Seq(TokenType) /\ s \in Seq(TokenType)
      /\ flushed \in Int /\ Good(thread[o], id, stream, flushed, broken)
  BY DEF LInv, Types, RInv, OwnTokens
<1>2. Id(o)' = id
  BY DEF Id, Frame
<1>3. \A k \in 1..Len(s) : s[k].by # id
  BY DEF OwnTokens, Id
<1> HIDE DEF id
<1>4. Good(thread[o], id, stream \o s, flushed', broken')
  BY <1>1, <1>3, GoodKeeps
<1> QED BY <1>2, <1>4

LEMMA FlushedGrows ==
  ASSUME LInv, RInv, NEW t \in Threads, call(t) \/ Step(t)
  PROVE  flushed' \in Int /\ flushed <= flushed' /\ broken \subseteq broken'
         /\ (flushed' = flushed \/ (stream' = stream /\ flushed' \in 0..Len(stream)))
<1> DEFINE F == \/ flushed' = flushed
                \/ stream' = stream /\ flushed' \in flushed..Len(stream)
           B == broken' = broken \/ broken' = broken \cup {Id(t)}
<1>1. flushed \in 0..Len(stream) /\ Len(stream) \in Nat
  BY DEF LInv, Types, RInv
<1>2. CASE fflush(t)
  <2>1. F
    <3>1. /\ stream' = stream
          /\ flushed' = Len(stream) \/ flushed' \in flushed..Len(stream)
      BY <1>2 DEF fflush
    <3>2. Len(stream) \in flushed..Len(stream)
      BY <1>1
    <3> QED BY <3>1, <3>2
  <2>2. B
    BY <1>2 DEF fflush
  <2> QED BY <1>1, <2>1, <2>2
<1>3. CASE textFails(t) \/ placeholder(t) \/ escape(t) \/ endOfFormat(t)
  <2>1. flushed' = flushed /\ B
    BY <1>3 DEF textFails, placeholder, escape, endOfFormat, Accepts, Fails
  <2> QED BY <1>1, <2>1
<1>4. CASE finish(t) \/ print(t) \/ newline(t)
  <2>1. flushed' = flushed /\ B
    BY <1>4 DEF finish, print, newline, Accepts, Fails
  <2> QED BY <1>1, <2>1
<1>5. CASE call(t) \/ flockfile(t) \/ plainChar(t) \/ funlockfile(t)
  <2>1. flushed' = flushed /\ broken' = broken
    BY <1>5 DEF call, flockfile, plainChar, funlockfile
  <2> QED BY <1>1, <2>1
<1> QED BY <1>2, <1>3, <1>4, <1>5 DEF Step

LEMMA RInvStep ==
  ASSUME LInv, RInv, [Next]_vars
  PROVE  RInv'
<1>1. /\ Types /\ thread \in [Threads -> FrameType] /\ stream \in Seq(TokenType)
      /\ flushed \in 0..Len(stream) /\ Len(stream) \in Nat
      /\ \A t \in Threads : Good(thread[t], Id(t), stream, flushed, broken)
  BY DEF LInv, Types, RInv
<1>2. CASE UNCHANGED vars
  BY <1>1, <1>2 DEF RInv, vars, Id, Frame
<1>3. CASE drain
  <2>1. /\ thread' = thread /\ stream' = stream /\ broken' = broken
        /\ flushed' = Len(stream) /\ \A t \in Threads : Id(t)' = Id(t)
    BY <1>3 DEF drain, Id, Frame
  <2>2. ASSUME NEW t \in Threads PROVE Good(thread[t], Id(t), stream, Len(stream), broken)
    <3> DEFINE s == <<>>
    <3>1. s \in Seq(TokenType) /\ Len(s) = 0 /\ stream \o s = stream
      BY <1>1
    <3> HIDE DEF s
    <3>2. /\ \A k \in 1..Len(s) : s[k].by # Id(t)
          /\ flushed \in Int /\ Len(stream) \in Int /\ flushed <= Len(stream)
          /\ thread[t] \in FrameType
      BY <1>1, <3>1
    <3>3. Good(thread[t], Id(t), stream \o s, Len(stream), broken)
      BY <1>1, <3>1, <3>2, GoodKeeps
    <3> QED BY <3>1, <3>3
  <2> QED BY <1>1, <2>1, <2>2 DEF RInv
<1>4. ASSUME NEW t \in Threads, call(t) \/ Step(t) PROVE RInv'
  <2>1. /\ flushed' \in Int /\ flushed <= flushed' /\ broken \subseteq broken'
        /\ flushed' = flushed \/ (stream' = stream /\ flushed' \in 0..Len(stream))
    BY <1>4, FlushedGrows
  <2>2. PICK s : OwnTokens(t, s) /\ stream' = stream \o s
    <3>1. CASE call(t) \/ flockfile(t) \/ funlockfile(t)
      BY <1>1, <3>1, NothingOwn DEF call, flockfile, funlockfile
    <3>2. CASE ~(call(t) \/ flockfile(t) \/ funlockfile(t))
      <4>1. Inside(t)
        BY <1>1, <1>4, <3>2, InsideSteps DEF Step
      <4> QED BY <4>1 DEF Inside
    <3> QED BY <3>1, <3>2
  <2>3. flushed' \in 0..Len(stream')
    <3>1. s \in Seq(TokenType) /\ Len(stream') = Len(stream) + Len(s)
      BY <1>1, <2>2 DEF OwnTokens
    <3> QED BY <1>1, <2>1, <3>1
  <2>4. \A o \in Threads : o # t => thread'[o] = thread[o]
    <3>1. CASE call(t)
      BY <1>1, <3>1 DEF call
    <3>2. CASE flockfile(t) \/ funlockfile(t)
      BY <1>1, <3>2 DEF flockfile, funlockfile, Goto
    <3>3. CASE ~(call(t) \/ flockfile(t) \/ funlockfile(t))
      <4>1. Inside(t)
        BY <1>1, <1>4, <3>3, InsideSteps DEF Step
      <4> QED BY <1>1, <4>1 DEF Inside
    <3> QED BY <3>1, <3>2, <3>3
  <2>5. ASSUME NEW o \in Threads, o # t
        PROVE  Good(thread'[o], Id(o)', stream', flushed', broken')
    BY <2>1, <2>2, <2>4, <2>5, OthersGood
  <2>6. Good(thread'[t], Id(t)', stream', flushed', broken')
    <3>1. CASE call(t)
      <4>1. PICK c \in Kinds :
              thread' = [thread EXCEPT ![t] =
                [Idle(@.n + 1, "none") EXCEPT !.pc = "lock", !.kind = c.kind, !.call = c.call]]
        BY <3>1 DEF call
      <4>2. thread'[t].pc = "lock" /\ thread'[t].start = 1 /\ thread'[t].arg = 1
        BY <1>1, <4>1 DEF Idle
      <4> QED BY <4>2 DEF Good
    <3>2. CASE Step(t)
      <4>1. Id(t)' = Id(t)
        <5>1. CASE flockfile(t) \/ funlockfile(t)
          BY <1>1, <5>1 DEF flockfile, funlockfile, Goto, Id, Frame, Types, FrameType
        <5>2. CASE ~(flockfile(t) \/ funlockfile(t))
          <6>1. Inside(t)
            BY <1>1, <3>2, <5>2, InsideSteps DEF Step
          <6> QED BY <1>1, <6>1 DEF Inside, Id, Frame
        <5> QED BY <5>1, <5>2
      <4>2. Good(thread'[t], Id(t), stream', flushed', broken')
        BY <3>2, flockfileGood, plainCharGood, textFailsGood, placeholderGood, escapeGood,
           endOfFormatGood, finishGood, printGood, newlineGood, fflushGood, funlockfileGood, Zenon
        DEF Step
      <4> QED BY <4>1, <4>2
    <3> QED BY <1>4, <3>1, <3>2
  <2> QED BY <2>3, <2>5, <2>6 DEF RInv
<1> QED BY <1>2, <1>3, <1>4 DEF Next

LEMMA RInvInit ==
  ASSUME Init
  PROVE  RInv
<1>1. stream = <<>> /\ Len(stream) = 0 /\ flushed = 0
  BY DEF Init
<1>2. ASSUME NEW t \in Threads PROVE Good(thread[t], Id(t), stream, flushed, broken)
  <2>1. thread[t].pc = "idle" /\ thread[t].n = 0
    BY DEF Init, Idle
  <2> QED BY <2>1 DEF Good
<1> QED BY <1>1, <1>2 DEF RInv

LEMMA AnswersAreTrue ==
  ASSUME LInv, RInv
  PROVE  TrueMeansWritten /\ FalseHasACause
<1>1. ASSUME NEW t \in Threads, Returned(t)
      PROVE  Answered(thread[t], Id(t), stream, flushed, broken)
  BY <1>1 DEF RInv, Good, Returned, Frame
<1>2. \A id : WrittenBy(id) = By(stream, id)
  BY DEF WrittenBy, By
<1>3. ASSUME NEW t \in Threads, Returned(t), thread[t].result = "true"
      PROVE  /\ Wrote(Id(t), Record(thread[t]))
             /\ thread[t].call.flush => \A k \in WrittenBy(Id(t)) : k <= flushed
  <2>1. /\ Complete(thread[t], Id(t), stream)
        /\ thread[t].call.flush => InFile(stream, Id(t), flushed)
    BY <1>1, <1>3, Zenon DEF Answered
  <2> QED BY <1>2, <2>1 DEF Wrote, Complete, Prefix, InFile
<1>4. ASSUME NEW t \in Threads, Returned(t)
      PROVE  /\ thread[t].result = "false" => Cause(thread[t], Id(t), broken)
             /\ thread[t].kind = "fmt" /\ thread[t].result # "threw" /\ Id(t) \notin broken =>
                  EndsLine(Id(t))
  <2>1. /\ thread[t].result = "false" => Cause(thread[t], Id(t), broken)
        /\ thread[t].kind = "fmt" /\ thread[t].result # "threw" =>
             Id(t) \in broken \/ LineEnd(stream, Id(t))
    BY <1>1, <1>4, Zenon DEF Answered
  <2> QED BY <1>2, <2>1 DEF EndsLine, LineEnd
<1>5. TrueMeansWritten
  BY <1>3 DEF TrueMeansWritten, Frame
<1>6. FalseHasACause
  BY <1>4 DEF FalseHasACause, Cause, Frame, Format, Args
<1> QED BY <1>5, <1>6

(***************************************************************************)
(* A call that returned true wrote exactly the record its format and       *)
(* arguments stand for, newline included, and a flushing call's record is  *)
(* in the file: for every number of threads and calls, every format, every *)
(* interleaving and every pattern of stdio failures and exceptions         *)
(* (logInternalFmt, logToFileInternal).                                    *)
(***************************************************************************)
THEOREM TrueMeansWrittenAlways == Spec => []TrueMeansWritten
<1>1. Init => LInv /\ RInv
  BY LInvInit, RInvInit
<1>2. LInv /\ RInv /\ [Next]_vars => LInv' /\ RInv'
  BY LInvStep, RInvStep
<1>3. LInv /\ RInv => TrueMeansWritten
  BY AnswersAreTrue
<1> QED BY <1>1, <1>2, <1>3, PTL DEF Spec

(***************************************************************************)
(* A call returns false only when stdio failed during it or its format     *)
(* does not fit its arguments, and what it wrote of such a record ends in  *)
(* a newline unless stdio failed.                                          *)
(***************************************************************************)
THEOREM FalseHasACauseAlways == Spec => []FalseHasACause
<1>1. Init => LInv /\ RInv
  BY LInvInit, RInvInit
<1>2. LInv /\ RInv /\ [Next]_vars => LInv' /\ RInv'
  BY LInvStep, RInvStep
<1>3. LInv /\ RInv => FalseHasACause
  BY AnswersAreTrue
<1> QED BY <1>1, <1>2, <1>3, PTL DEF Spec
=============================================================================
