-------------------------------- MODULE Json --------------------------------
(***************************************************************************)
(* The parsers of src/src/afc/json.hpp.  They are templates that call each *)
(* other and callbacks of the caller; a frame of the stack is a call that  *)
(* has not returned.  A step is what a parser does between two calls.      *)
(*                                                                         *)
(* The caller reads a text of a known structure (Documents): its callbacks *)
(* are body, which parses the properties of an object in a fixed order, and*)
(* digits, which reads a number.  The ErrorHandler becomes invalid for good*)
(* when it is told of an error, as the handlers of the tests do.           *)
(*                                                                         *)
(* As in FastStringBuffer, X_Y is X with a mistake and part of no          *)
(* specification.                                                          *)
(***************************************************************************)
EXTENDS Integers, Sequences

CONSTANTS
  Documents,     (* Texts, each with the structure the caller expects:     *)
                 (* [schema, forward, text]; forward if it can be read     *)
                 (* through other iterators than pointers, which strings   *)
                 (* and names cannot.                                      *)
  SpacePolicies  (* Template arguments of the call.                        *)

ASSUME JsonAssumption == \A d \in Documents : d.text \in Seq(STRING)

Space == " "
Quote == "\""
Backslash == "\\"
Digits == {"1", "2"}

(* What the character behind a backslash stands for; not all are known. *)
escapes == [x \in {Quote, Backslash, "/", "b", "f", "n", "r", "t"} |->
              CASE x = "b" -> "backspace" [] x = "f" -> "form feed" [] x = "n" -> "newline"
                [] x = "r" -> "return"    [] x = "t" -> "tab"       [] OTHER -> x]

VARIABLES
  text, schema, spacePolicy,
  randomAccess,  (* Which parseBoolean the iterators select.               *)
  stack,         (* Calls, the latest first.                               *)
  i,             (* The iterator passed to the callee or returned by it.   *)
  propName,      (* realPropNameBegin and the end of the name.             *)
  errors,        (* What the ErrorHandler has been told.                   *)
  dest           (* What the destinations have been given.                 *)

jsonInput == <<text, schema, spacePolicy, randomAccess>>
jsonVars == <<jsonInput, stack, i, propName, errors, dest>>

(* A call: of which parser, where it goes on when its callee returns, the  *)
(* structure it expects, properties a body has parsed.                     *)
Frame(parser, expected, policy) ==
  [parser |-> parser, pc |-> "begin", expected |-> expected, policy |-> policy, done |-> 0]
Parser(expected) == Frame(expected.kind, expected, spacePolicy)

JsonInputs ==
  {in \in [document : Documents, policy : SpacePolicies, randomAccess : BOOLEAN] :
     in.randomAccess \/ in.document.forward}

JsonStart(in) ==
  /\ text = in.document.text /\ schema = in.document.schema
  /\ spacePolicy = in.policy /\ randomAccess = in.randomAccess
  /\ stack = <<Parser(schema)>>
  /\ i = 1 /\ propName = <<1, 1>> /\ errors = <<>> /\ dest = <<>>

End == Len(text) + 1
Top == Head(stack)
At(parser, pc) == stack # <<>> /\ Top.parser = parser /\ Top.pc = pc
valid == errors = <<>>

(* The first position from j on whose character is not in chars. *)
Behind(chars, j) ==
  CHOOSE k \in j..End :
    /\ \A m \in j..(k - 1) : text[m] \in chars
    /\ k = End \/ text[k] \notin chars
skipSpaces(j) == Behind({Space}, j)
skipLeadingSpaces(j) ==
  IF Top.policy \in {"spaces", "leadingSpaces"} THEN skipSpaces(j) ELSE j
skipTrailingSpaces(j) ==
  IF Top.policy \in {"spaces", "trailingSpaces"} THEN skipSpaces(j) ELSE j

(***************************************************************************)
(* Calls, returns and errors.                                              *)
(***************************************************************************)
Call(callee, frame, j) ==
  /\ stack' = <<callee, frame>> \o Tail(stack)
  /\ i' = j
  /\ UNCHANGED <<jsonInput, propName, errors, dest>>
GoOn(pc) == [Top EXCEPT !.pc = pc]

Return(j) ==
  /\ stack' = Tail(stack)
  /\ i' = j
  /\ UNCHANGED <<jsonInput, propName, errors, dest>>

Report(kind, at, j) ==
  /\ errors' = Append(errors, [kind |-> kind, at |-> at])
  /\ stack' = Tail(stack)
  /\ i' = j
  /\ UNCHANGED <<jsonInput, propName, dest>>
prematureEnd == Report("prematureEnd", End, End)
malformedJson(j) == Report("malformedJson", j, End)

(* To a destination, then on to j, which is reached or is the end. *)
Give(what, j, returns) ==
  /\ dest' = Append(dest, what)
  /\ stack' = IF returns THEN Tail(stack) ELSE stack
  /\ i' = j
  /\ UNCHANGED <<jsonInput, propName, errors>>

(***************************************************************************)
(* Objects and strings: a character, what the callee reads, a character.   *)
(***************************************************************************)
Open(char, callee, pc) ==
  LET j == skipLeadingSpaces(i)
  IN  IF j = End THEN prematureEnd
      ELSE IF text[j] # char THEN malformedJson(j)
      ELSE Call(callee, GoOn(pc), j + 1)

Close_Unchecked(char) ==
  IF i = End THEN prematureEnd
  ELSE IF text[i] # char THEN malformedJson(i)
  ELSE Return(skipTrailingSpaces(i + 1))

Close(char) ==
  IF ~valid THEN Return(End)
  ELSE IF i = End THEN prematureEnd
  ELSE IF text[i] # char THEN malformedJson(i)
  ELSE Return(skipTrailingSpaces(i + 1))

parseObject ==
  \/ At("object", "begin") /\ Open("{", Frame("body", Top.expected, spacePolicy), "body")
  \/ At("object", "body") /\ Close("}")

(* Of a value, with parseCharsToUTF8; of a property's name. *)
parseString ==
  \/ At("string", "begin") /\ Open(Quote, Frame("chars", Top.expected, spacePolicy), "chars")
  \/ At("string", "chars") /\ Close(Quote)
  \/ At("name", "begin") /\ Open(Quote, Frame("propNameParser", Top.expected, "noSpaces"), "chars")
  \/ At("name", "chars") /\ Close(Quote)

(* A step for each character. *)
parseCharsToUTF8 ==
  /\ At("chars", "begin")
  /\ IF i = End THEN prematureEnd
     ELSE IF text[i] = Quote THEN Return(i)
     ELSE IF text[i] # Backslash THEN Give(text[i], i + 1, i + 1 = End)
     ELSE IF i + 1 = End THEN prematureEnd
     ELSE IF text[i + 1] \in DOMAIN escapes
          THEN Give(escapes[text[i + 1]], i + 2, i + 2 = End)
     ELSE malformedJson(i + 1)

(***************************************************************************)
(* Arrays.                                                                 *)
(***************************************************************************)
parseElement_SkipsAtComma(j) == Call(Parser(Top.expected.of), GoOn("element"), skipSpaces(j))
parseElement(j) == Call(Parser(Top.expected.of), GoOn("element"), j)

parseArray ==
  \/ /\ At("array", "begin")
     /\ LET j == skipLeadingSpaces(i)
        IN  IF j = End THEN prematureEnd
            ELSE IF text[j] # "[" THEN malformedJson(j)
            ELSE IF j + 1 = End THEN prematureEnd
            ELSE IF text[j + 1] = "]" THEN Return(skipTrailingSpaces(j + 2))
            ELSE parseElement(j + 1)
  \/ /\ At("array", "element")
     /\ IF ~valid THEN Return(End)
        ELSE IF i = End THEN prematureEnd
        ELSE IF text[i] = "]" THEN Return(skipTrailingSpaces(i + 1))
        ELSE IF text[i] = "," THEN parseElement(i + 1)
        ELSE malformedJson(i)

(***************************************************************************)
(* Numbers and booleans.                                                   *)
(***************************************************************************)
parseNumber ==
  \/ At("number", "begin") /\ Call(Frame("digits", Top.expected, spacePolicy),
                                   GoOn("digits"), skipLeadingSpaces(i))
  \/ At("number", "digits") /\ Return(skipTrailingSpaces(i))

(* The number parser of the caller. *)
digits ==
  /\ At("digits", "begin")
  /\ LET j == Behind(Digits, i)
     IN  IF i = End THEN prematureEnd
         ELSE IF j = i THEN malformedJson(i)
         ELSE Give(SubSeq(text, i, j - 1), j, TRUE)

TrueWord == <<"t", "r", "u", "e">>
FalseWord == <<"f", "a", "l", "s", "e">>
wordAt(j) == IF text[j] = "t" THEN TrueWord ELSE FalseWord

(* The first position where text has another character than the word, or  *)
(* ends, or is behind the word.                                            *)
Differs(word, j) ==
  CHOOSE k \in {n \in j..End : n <= j + Len(word)} :
    /\ \A m \in j..(k - 1) : text[m] = word[m - j + 1]
    /\ k = j + Len(word) \/ k = End \/ text[k] # word[k - j + 1]

Match_ReportsWord(j) ==
  LET word == wordAt(j)
      k == Differs(word, j)
  IN  IF k = j + Len(word) THEN Give(word = TrueWord, skipTrailingSpaces(k), TRUE)
      ELSE IF k = End THEN prematureEnd
      ELSE malformedJson(j)

Match(j) ==
  LET word == wordAt(j)
      k == Differs(word, j)
  IN  IF k = j + Len(word) THEN Give(word = TrueWord, skipTrailingSpaces(k), TRUE)
      ELSE IF k = End THEN prematureEnd
      ELSE malformedJson(k)

parseBooleanForward ==
  /\ At("boolean", "begin") /\ ~randomAccess
  /\ LET j == skipLeadingSpaces(i)
     IN  IF j = End THEN prematureEnd
         ELSE IF text[j] \notin {"t", "f"} THEN malformedJson(j)
         ELSE Match(j)

(* Counts the characters that are left before it looks at them. *)
parseBooleanRandomAccess ==
  /\ At("boolean", "begin") /\ randomAccess
  /\ LET j == skipLeadingSpaces(i)
         n == End - j
     IN  IF n < 4 THEN prematureEnd
         ELSE IF text[j] \notin {"t", "f"} THEN malformedJson(j)
         ELSE IF text[j] = "f" /\ n < 5 THEN prematureEnd
         ELSE Match(j)

(***************************************************************************)
(* Properties of objects.                                                  *)
(***************************************************************************)
(* On an error these return where it is, not the end. *)
parseSeparator(parser, char) ==
  /\ At(parser, "begin")
  /\ LET j == skipLeadingSpaces(i)
     IN  IF j = End THEN prematureEnd
         ELSE IF text[j] # char THEN Report("malformedJson", j, j)
         ELSE Return(skipTrailingSpaces(j + 1))
parseColon == parseSeparator("colon", ":")
parseComma == parseSeparator("comma", ",")

(* The lambda in parsePropertyValue: up to the next quotation mark. *)
propNameParser ==
  /\ At("propNameParser", "begin")
  /\ LET j == CHOOSE k \in i..End : /\ \A m \in i..(k - 1) : text[m] # Quote
                                    /\ k = End \/ text[k] = Quote
     IN  /\ propName' = <<i, j>>
         /\ stack' = Tail(stack)
         /\ i' = j
  /\ UNCHANGED <<jsonInput, errors, dest>>

realPropName == SubSeq(text, propName[1], propName[2] - 1)
equal(r1, r2) == Len(r1) = Len(r2) /\ \A k \in 1..Len(r1) : r1[k] = r2[k]

parsePropertyValue ==
  \/ /\ At("property", "begin")
     /\ Call(Frame("name", Top.expected, "noSpaces"), GoOn("name"), skipLeadingSpaces(i))
  \/ /\ At("property", "name")
     /\ IF ~valid THEN Return(End)
        ELSE IF ~equal(Top.expected.name, realPropName) THEN malformedJson(i)
        ELSE Call(Frame("colon", Top.expected, Top.policy), GoOn("colon"), i)
  \/ /\ At("property", "colon")
     /\ IF ~valid THEN Return(End)
        ELSE Call(Parser(Top.expected.value), GoOn("value"), i)
  \/ /\ At("property", "value")
     /\ IF ~valid THEN Return(End) ELSE Return(skipTrailingSpaces(i))

(***************************************************************************)
(* The ObjectBodyParser of the caller: property, comma, property, ...      *)
(***************************************************************************)
parseNext ==
  Call(Frame("property", Top.expected.properties[Top.done + 1], spacePolicy),
       [Top EXCEPT !.pc = "property", !.done = @ + 1], i)

body ==
  \/ /\ At("body", "begin")
     /\ IF Top.expected.properties = <<>> THEN Return(i) ELSE parseNext
  \/ /\ At("body", "property")
     /\ IF ~valid \/ Top.done = Len(Top.expected.properties) THEN Return(i)
        ELSE Call(Frame("comma", Top.expected, spacePolicy), GoOn("comma"), i)
  \/ /\ At("body", "comma")
     /\ IF ~valid THEN Return(i) ELSE parseNext

JsonNext ==
  \/ parseObject \/ body
  \/ parseArray
  \/ parseString \/ parseCharsToUTF8
  \/ parseNumber \/ digits
  \/ parseBooleanForward \/ parseBooleanRandomAccess
  \/ parsePropertyValue \/ propNameParser
  \/ parseColon \/ parseComma

(***************************************************************************)
(* Properties; those that need the grammar are in JsonReading.             *)
(***************************************************************************)
JsonSpec == (\E in \in JsonInputs : JsonStart(in)) /\ [][JsonNext]_jsonVars

(* The callers up the stack ask errorHandler.valid() before they look at   *)
(* what a callee returned: after an error nothing more is reported and     *)
(* nothing more delivered, however deep it happened (json.hpp:84, 125,     *)
(* 164, 346, 358, 363).                                                    *)
StopsAtError == [][~valid => UNCHANGED <<errors, dest>>]_jsonVars

(* No iterator leaves the text, although the parsers advance it in more    *)
(* than one place and by more than one; the name of a property is a piece  *)
(* of the text; and the ErrorHandler hears of one error at most, at a place*)
(* of the text or its end (json.hpp, every parser).                        *)
StaysInText ==
  /\ i \in 1..End
  /\ propName[1] \in 1..propName[2] /\ propName[2] \in 1..End
  /\ Len(errors) <= 1 /\ \A n \in 1..Len(errors) : errors[n].at \in 1..End

(* No parser goes back: what a callee has read is read once.               *)
NeverGoesBack == [][i' >= i]_jsonVars
=============================================================================
