------------------------------ MODULE Template ------------------------------
(***************************************************************************)
(* Template: a text in which setVariable, setCondition and loop replace    *)
(* what stands between the tags of one name.  Each turn of their loops     *)
(* replaces one section of the text; a section without end tag is warned   *)
(* about in every turn, for ever.                                          *)
(*                                                                         *)
(* A text is a sequence of tokens: the tags "if", "ifnot", "loop", "else"  *)
(* and "end" of the name, "sub" for a variable {name.v}, and "x".          *)
(***************************************************************************)
EXTENDS Naturals, Sequences, FiniteSets, SequencesExt, Ordering

CONSTANTS Templates,   \* texts
          Operations   \* calls, [call, value, repetitions, text]

(* Texts are sequences of tokens; a numbered sub-name is not the start of a loop. *)
ASSUME TemplatesAssumption ==
  /\ \A t \in Templates : t \in Seq(ToSet(t))
  /\ \A op \in Operations :
       /\ op.call \in {"setVariable", "setCondition", "loop"} /\ op.value \in BOOLEAN
       /\ op.repetitions \in Nat /\ op.text \in Seq(ToSet(op.text))
       /\ \A n \in 0 .. op.repetitions : <<"sub", n>> # "loop"

VARIABLES
  original,   \* the text before the call
  operation,  \* the call
  text,       \* the text
  from,       \* where the search goes on
  tag,        \* the start tag that is searched for
  progress    \* "turning", "spinning" for ever, "done"

engineVars == <<original, operation, text, from, tag, progress>>

FirstTag(call) ==
  [setVariable |-> "sub", setCondition |-> "if", loop |-> "loop"][call]

EngineInit ==
  /\ original \in Templates /\ text = original
  /\ operation \in Operations
  /\ from = 1 /\ tag = FirstTag(operation.call)
  /\ progress = "turning"

(* indexOf: the first place of a token, from a place on, or 0. *)
IndexOf(seq, token, first) ==
  LET places == {i \in first .. Len(seq) : seq[i] = token}
  IN  IF places = {} THEN 0 ELSE CHOOSE i \in places : \A j \in places : i <= j

(* The text with the tokens from start to end replaced. *)
Replaced(seq, start, end, by) ==
  SubSeq(seq, 1, start - 1) \o by \o SubSeq(seq, end + 1, Len(seq))

(* One turn of the loop of setVariable: what it inserts is not searched. *)
SetVariable ==
  LET start == IndexOf(text, "sub", from) IN
  /\ progress = "turning" /\ operation.call = "setVariable"
  /\ IF start = 0 THEN progress' = "done" /\ UNCHANGED <<text, from>>
     ELSE /\ text' = Replaced(text, start, start, operation.text)
          /\ from' = start + Len(operation.text)
          /\ UNCHANGED progress
  /\ UNCHANGED <<original, operation, tag>>

(* The sub-names in one repetition of a loop get its number. *)
Numbered(part, n) == [i \in DOMAIN part |-> IF part[i] = "sub" THEN <<"sub", n>> ELSE part[i]]

\* Mutant: a section without else part is kept if the condition is false.
ReplacementKeeping(start, truePart, falsePart, op) ==
  IF start = "loop"
  THEN IF op.repetitions = 0 THEN falsePart
       ELSE FlattenSeq([n \in 1 .. op.repetitions |-> Numbered(truePart, n - 1)])
  ELSE IF op.value = (start = "if") \/ falsePart = << >> THEN truePart ELSE falsePart

(* What takes the place of a section. *)
Replacement(start, truePart, falsePart, op) ==
  IF start = "loop"
  THEN IF op.repetitions = 0 THEN falsePart
       ELSE FlattenSeq([n \in 1 .. op.repetitions |-> Numbered(truePart, n - 1)])
  ELSE IF op.value = (start = "if") THEN truePart ELSE falsePart

(* One turn of the loops of setCondition and loop. *)
ReplaceSection ==
  LET start == IndexOf(text, tag, from)
      end == IndexOf(text, "end", start + 1)
      ellse == IndexOf(text, "else", start + 1)
      hasElse == ellse > start /\ ellse < end
      truePart == SubSeq(text, start + 1, (IF hasElse THEN ellse ELSE end) - 1)
      falsePart == IF hasElse THEN SubSeq(text, ellse + 1, end - 1) ELSE << >>
  IN
  /\ progress = "turning" /\ operation.call # "setVariable"
  /\ start # 0 /\ end # 0
  /\ text' = Replaced(text, start, end, Replacement(tag, truePart, falsePart, operation))
  /\ from' = start
  /\ UNCHANGED <<original, operation, tag, progress>>

EndTagMissing ==
  LET start == IndexOf(text, tag, from) IN
  /\ progress = "turning" /\ operation.call # "setVariable"
  /\ start # 0 /\ IndexOf(text, "end", start + 1) = 0
  /\ progress' = "spinning"
  /\ UNCHANGED <<original, operation, text, from, tag>>

(* setCondition searches for "ifnot" after "if". *)
NoMoreSections ==
  /\ progress = "turning" /\ operation.call # "setVariable"
  /\ IndexOf(text, tag, from) = 0
  /\ IF tag = "if" THEN tag' = "ifnot" /\ from' = 1 /\ UNCHANGED progress
     ELSE progress' = "done" /\ UNCHANGED <<tag, from>>
  /\ UNCHANGED <<original, operation, text>>

EngineNext == SetVariable \/ ReplaceSection \/ EndTagMissing \/ NoMoreSections

EngineSpec == EngineInit /\ [][EngineNext]_engineVars
-----------------------------------------------------------------------------
(***************************************************************************)
(* The reference reads the original once.  A section goes from a start tag *)
(* to the next end tag; its first else parts it.  It is defined for flat   *)
(* texts o, in which each section ends before the next one begins.         *)
(***************************************************************************)
Starts(op) == IF op.call = "loop" THEN {"loop"} ELSE {"if", "ifnot"}

IsFlat(o, op) ==
  \A i \in DOMAIN o : o[i] \in Starts(op) =>
    \E j \in i + 1 .. Len(o) :
      o[j] = "end" /\ \A k \in i + 1 .. j : o[k] \notin Starts(op)

(* The place of the start tag of the section around i, or 0. *)
SectionOf(o, op, i) ==
  LET starts == {s \in 1 .. i : /\ o[s] \in Starts(op)
                                /\ \A k \in s .. i - 1 : o[k] # "end"}
  IN  IF starts = {} THEN 0 ELSE CHOOSE s \in starts : \A r \in starts : r <= s

InFalsePart(o, op, i) == \E k \in SectionOf(o, op, i) + 1 .. i - 1 : o[k] = "else"

IsDivider(o, op, i) == o[i] = "else" /\ ~ InFalsePart(o, op, i)

(* Is the part of a condition around i kept? *)
Wanted(o, op, i) == op.value = ((o[SectionOf(o, op, i)] = "if") = ~ InFalsePart(o, op, i))

(* The tokens of one part of the section that begins at s. *)
Body(o, op, s, falsePart) ==
  AtPlaces(o, {k \in DOMAIN o :
                  /\ k > s /\ SectionOf(o, op, k) = s /\ o[k] # "end"
                  /\ ~ IsDivider(o, op, k) /\ InFalsePart(o, op, k) = falsePart})

(* What stands in the place of token i after the call. *)
Result(o, op, i) ==
  IF op.call = "setVariable"
  THEN IF o[i] = "sub" THEN op.text ELSE <<o[i]>>
  ELSE IF SectionOf(o, op, i) = 0 THEN <<o[i]>>
  ELSE IF op.call = "loop"
  THEN IF SectionOf(o, op, i) # i THEN << >>
       ELSE IF op.repetitions = 0 THEN Body(o, op, i, TRUE)
       ELSE FlattenSeq([n \in 1 .. op.repetitions |-> Numbered(Body(o, op, i, FALSE), n - 1)])
  ELSE IF SectionOf(o, op, i) = i \/ o[i] = "end" \/ IsDivider(o, op, i) \/ ~ Wanted(o, op, i)
  THEN << >>
  ELSE <<o[i]>>

(***************************************************************************)
(* Each call does with a flat text what the reference says, whatever stray *)
(* tags there are, also when the value of a variable contains the variable *)
(* itself; and it never waits for ever on an end tag.                      *)
(***************************************************************************)
FlatTextsExpanded ==
  operation.call = "setVariable" \/ IsFlat(original, operation) =>
    /\ progress # "spinning"
    /\ progress = "done" =>
         text = FlattenSeq([i \in DOMAIN original |-> Result(original, operation, i)])
=============================================================================
