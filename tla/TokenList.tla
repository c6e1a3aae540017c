----------------------------- MODULE TokenList -----------------------------
(***************************************************************************)
(* What a tokeniser promises: it hands out the parts of its source between *)
(* the delimiters, each once and in order, and then refuses.               *)
(***************************************************************************)
EXTENDS Texts

CONSTANTS Delimiter, NoSource

VARIABLES
  source, (* What is read, NoSource when nothing is.                       *)
  rest,   (* The tokens that were not handed out yet.                      *)
  last    (* <<token>> after a call that returned it, else <<>>.           *)

Init == source = NoSource /\ rest = <<>> /\ last = <<>>

Open == /\ source = NoSource /\ source' # NoSource
        /\ rest' = Tokens(source', Delimiter)
        /\ last' = <<>>

Close == source # NoSource /\ source' = NoSource /\ rest' = <<>> /\ last' = <<>>

Take == /\ rest # <<>>
        /\ last' = <<Head(rest)>>
        /\ rest' = Tail(rest)
        /\ UNCHANGED source

Skip == /\ rest # <<>>
        /\ last' = <<>>
        /\ rest' = Tail(rest)
        /\ UNCHANGED source

Refuse == /\ source # NoSource /\ rest = <<>>
          /\ last' = <<>>
          /\ UNCHANGED <<source, rest>>

Next == Open \/ Close \/ Take \/ Skip \/ Refuse

Spec == Init /\ [][Next]_<<source, rest, last>>
=============================================================================
