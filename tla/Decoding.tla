------------------------------ MODULE Decoding ------------------------------
(***************************************************************************)
(* Reading a model's answer (internal/strictdecode): one JSON object, alone *)
(* or alone in one code fence.                                             *)
(*                                                                         *)
(* An answer is a sequence of tokens: blanks and newlines, fences (three   *)
(* backquotes), words (anything that starts no JSON value), JSON values     *)
(* that are no object, and objects.  An object is what decoding makes of   *)
(* it: the fault it is refused for, if any, and the payload; it is written  *)
(* on one line.                                                            *)
(***************************************************************************)
EXTENDS Naturals, SequencesExt

Blanks == {"space", "newline"}
Marks == Blanks \cup {"fence", "word", "value"}
Faults == {"no_json_object", "unknown_field", "decode", "trailing_data"}

\* list: the statements of an extract answer, 0 being a blank one, or the claim
\* numbers of a support answer's verdicts; sound: aggregation and Seal accept it.
Payload == [list : Seq(Nat), sound : BOOLEAN]
Token == [is : Marks] \cup [is : {"object"}, flaw : {"", "unknown_field", "decode"}, payload : Payload]
Text == Seq(Token)

Visible(text) == {i \in DOMAIN text : text[i].is \notin Blanks}

TrimLeft(text) == IF Visible(text) = {} THEN << >> ELSE SubSeq(text, Min(Visible(text)), Len(text))
TrimRight(text) == IF Visible(text) = {} THEN << >> ELSE SubSeq(text, 1, Max(Visible(text)))

Newlines(text) == {i \in DOMAIN text : text[i].is = "newline"}

Body(text) == TrimRight(SubSeq(text, Min(Newlines(text)) + 1, Len(text)))

\* The fence's own line, its language tag, is dropped unread.
StripSingleCodeFence(raw) ==
    LET text == TrimLeft(raw)
    IN  IF /\ text # << >> /\ Head(text).is = "fence" /\ Newlines(text) # {}
           /\ Body(text) # << >> /\ Last(Body(text)).is = "fence"
        THEN Front(Body(text))
        ELSE raw

Structural(fault) == [fault |-> fault, list |-> << >>, sound |-> FALSE]

DecodeJSONObjectStrict(raw) ==
    LET text == TrimRight(TrimLeft(StripSingleCodeFence(raw)))
    IN  IF text = << >> \/ Head(text).is # "object" THEN Structural("no_json_object")
        ELSE IF Head(text).flaw # "" THEN Structural(Head(text).flaw)
        ELSE IF Len(text) > 1 THEN Structural("trailing_data")
        ELSE [fault |-> "", list |-> Head(text).payload.list, sound |-> Head(text).payload.sound]

-----------------------------------------------------------------------------
(* What is promised: the answer is one object, up to blanks and one fence *)

Blank(text) == Visible(text) = {}

OpensFence(text) ==
    \E k, n \in DOMAIN text :
        /\ k < n /\ Blank(SubSeq(text, 1, k - 1)) /\ text[k].is = "fence"
        /\ Newlines(SubSeq(text, k, n)) = {n - k + 1}
        /\ Blank(SubSeq(text, n + 1, Len(text)))

ClosesFence(text) ==
    \E k \in DOMAIN text :
        text[k].is = "fence" /\ Blank(SubSeq(text, 1, k - 1)) /\ Blank(SubSeq(text, k + 1, Len(text)))

OneObject(raw) ==
    \E i \in DOMAIN raw :
        LET before == SubSeq(raw, 1, i - 1)
            after == SubSeq(raw, i + 1, Len(raw))
        IN  /\ raw[i].is = "object" /\ raw[i].flaw = ""
            /\ \/ Blank(before) /\ Blank(after)
               \/ OpensFence(before) /\ ClosesFence(after)

=============================================================================
