------------------------------ MODULE Templates ------------------------------
(***************************************************************************)
(* Template resolution.  A string is a sequence of tokens: the braces, a   *)
(* blank, a variable's name, and text.  resolve_string rewrites the string *)
(* in place, one variable per turn of its loop.                            *)
(***************************************************************************)
EXTENDS Naturals, Sequences, SequencesExt

CONSTANT MaxSegments    \* bound: pieces a template is made of

ASSUME TemplatesAssumption == MaxSegments \in Nat

VARIABLE tpl    \* the template, its values, and the loop's position

Open == "{{"
Close == "}}"
Blank == " "
Text(s) == [kind |-> "string", text |-> s]
Number == [kind |-> "number", text |-> <<"1">>]
Missing == [kind |-> "missing", text |-> <<>>]
Error == [kind |-> "error", text |-> <<>>]
Opened(v) == <<Open, v, Close>>
Spaced(v) == <<Open, Blank, v, Blank, Close>>

\* The pieces: well-formed ones, and braces that match nothing.
Wellformed == {<<"x">>, Opened("input.a"), Spaced("input.a"), Opened("secret.s"), Opened("other")}
Segments == Wellformed \cup {<<Open>>, <<Close>>, Spaced("secret.s")}

\* What the caller supplies: the input, which may look like a template, and
\* the stored secret.
Inputs == {Missing, Text(<<"y">>), Number, Text(Opened("secret.s"))}
Secrets == {Missing, Text(<<"key">>)}

\* The first position of the token at or after the given one, or 0.
find(s, token, from) ==
  LET hits == {i \in from .. Len(s) : s[i] = token}
  IN  IF hits = {} THEN 0 ELSE Min(hits)

trim(s) ==
  LET ink == {i \in 1 .. Len(s) : s[i] # Blank}
  IN  IF ink = {} THEN <<>> ELSE SubSeq(s, Min(ink), Max(ink))

\* load_secrets looks for "{{secret." in the spec and takes the name up to the
\* next braces, blanks included.
Names(s) ==
  {SubSeq(s, i + 1, find(s, Close, i) - 1) :
     i \in {k \in 1 .. Len(s) - 1 : s[k] = Open /\ s[k + 1] = "secret.s"
                                    /\ find(s, Close, k) > 0}}
load_secrets(s, stored) ==
  IF Names(s) = {} THEN Missing
  ELSE IF Names(s) = {<<"secret.s">>} /\ stored # Missing THEN stored ELSE Error

resolve_variable(var, values) ==
  LET value == CASE var = <<"input.a">>  -> values.input
                 [] var = <<"secret.s">> -> values.secrets
                 [] OTHER                -> Missing
  IN  IF value = Missing THEN Error ELSE value

is_single_template(s) ==
  LET t == trim(s) IN
  /\ Len(t) > 1 /\ t[1] = Open /\ t[Len(t)] = Close
  /\ find(SubSeq(t, 2, Len(t) - 1), Open, 1) = 0

-----------------------------------------------------------------------------
\* The pipeline loads the secrets of the template, then resolves it.
TemplatesInit ==
  \E n \in 0 .. MaxSegments : \E segments \in [1 .. n -> Segments] :
  \E input \in Inputs, stored \in Secrets :
    LET s == FlattenSeq(segments)
        secrets == load_secrets(s, stored)
    IN  tpl = [segments |-> segments, input |-> input, stored |-> stored,
               secrets |-> secrets, text |-> s, start |-> 1,
               value |-> IF secrets = Error THEN Error ELSE Missing]

Values == [input |-> tpl.input, secrets |-> tpl.secrets]
Finish(value) == tpl' = [tpl EXCEPT !.value = value]

resolve_single ==
  LET t == trim(tpl.text) IN
  /\ tpl.start = 1 /\ is_single_template(tpl.text)
  /\ Finish(resolve_variable(trim(SubSeq(t, 2, Len(t) - 1)), Values))

\* Mutant: the search goes on at the replacement instead of after it.
resolve_string_rescan ==
  LET open == find(tpl.text, Open, tpl.start)
      close == find(tpl.text, Close, open)
      value == resolve_variable(trim(SubSeq(tpl.text, open + 1, close - 1)), Values)
  IN  IF open = 0 \/ close = 0 THEN Finish(Text(tpl.text))
      ELSE IF value = Error THEN Finish(Error)
      ELSE tpl' = [tpl EXCEPT
             !.text = SubSeq(@, 1, open - 1) \o value.text \o SubSeq(@, close + 1, Len(@)),
             !.start = open]

\* One turn of the loop: the next variable is replaced, and the search goes on
\* after the replacement.
resolve_string ==
  LET open == find(tpl.text, Open, tpl.start)
      close == find(tpl.text, Close, open)
      value == resolve_variable(trim(SubSeq(tpl.text, open + 1, close - 1)), Values)
  IN  IF open = 0 \/ close = 0 THEN Finish(Text(tpl.text))
      ELSE IF value = Error THEN Finish(Error)
      ELSE tpl' = [tpl EXCEPT
             !.text = SubSeq(@, 1, open - 1) \o value.text \o SubSeq(@, close + 1, Len(@)),
             !.start = open + Len(value.text)]

TemplatesNext ==
  /\ tpl.value = Missing
  /\ \/ resolve_single
     \/ /\ tpl.start = 1 => ~is_single_template(tpl.text)
        /\ resolve_string

-----------------------------------------------------------------------------
(* What the template means, piece by piece.                                *)

Variable(segment) == IF segment = <<"x">> THEN <<>> ELSE trim(SubSeq(segment, 2, Len(segment) - 1))
Image(segment) ==
  CASE segment = <<"x">>                -> segment
    [] Variable(segment) = <<"input.a">> -> tpl.input.text
    [] OTHER                             -> tpl.stored.text
Unresolved(segment) ==
  CASE segment = <<"x">>                  -> FALSE
    [] Variable(segment) = <<"input.a">>  -> tpl.input = Missing
    [] Variable(segment) = <<"secret.s">> -> tpl.stored = Missing
    [] OTHER                              -> TRUE

Meaning ==
  LET used == ToSet(tpl.segments)
  IN  IF \E s \in used : Unresolved(s) THEN Error
      ELSE IF Len(tpl.segments) = 1 /\ tpl.segments[1] # <<"x">>
      THEN IF Variable(tpl.segments[1]) = <<"input.a">> THEN tpl.input ELSE tpl.stored
      ELSE Text(FlattenSeq([i \in 1 .. Len(tpl.segments) |-> Image(tpl.segments[i])]))

\* A template of text and variables resolves to what its pieces mean, a value
\* is never itself taken for a template, and a secret only shows up where the
\* template, not the input, names it.
ResolvesAsWritten ==
  tpl.value # Missing =>
    /\ ToSet(tpl.segments) \subseteq Wellformed => tpl.value = Meaning
    /\ "key" \in ToSet(tpl.value.text) => Opened("secret.s") \in ToSet(tpl.segments)
=============================================================================
