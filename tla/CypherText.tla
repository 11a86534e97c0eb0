----------------------------- MODULE CypherText -----------------------------
(***************************************************************************)
(* How the workspace reads Cypher without parsing it                       *)
(* (query-workspace/internal/workspace): validateReadQuery and its         *)
(* cypherTokens decide what may run (workspace.go), formatCypher breaks    *)
(* the text into lines for display (format.go), and inlineParameters puts  *)
(* the values of parameters into what is displayed and copied (params.go). *)
(* Each of them has a scanner of its own, and what a person sees is the    *)
(* query that runs only as long as the three agree.                        *)
(*                                                                         *)
(* A text is a sequence of symbols.  The letters of a word are one symbol, *)
(* whatever their case: "RETURN" is the keyword, "x" a word that is none,  *)
(* and two of them in a row are another word that is none.  Digits outside *)
(* words and letters that are not ASCII are left out, and "tick" stands    *)
(* for the backtick.                                                       *)
(***************************************************************************)
EXTENDS Integers, SequencesExt

CONSTANTS
  Piece,     \* what a person can type at a time: sequences of symbols
  MaxPieces, \* bound of the pieces in a text
  Value      \* the value, a string, of the one parameter, x

ASSUME PieceAssumption == Piece \subseteq Seq(STRING)
ASSUME ValueAssumption == Value \in Seq(STRING)

VARIABLES text, pieces

vars == <<text, pieces>>

Space == {" ", "\n"}
Quote == {"'", "\"", "tick"}
Clause == {"MATCH", "WHERE", "AND", "WITH", "RETURN", "LIMIT", "SKIP", "UNWIND", "UNION"}
Forbidden == {"CREATE", "MERGE", "SET", "REMOVE", "DELETE", "DETACH", "FOREACH", "CALL", "DROP",
              "ALTER", "RENAME", "GRANT", "DENY", "REVOKE", "TERMINATE", "START", "STOP", "LOAD", "USE"}
Word == Clause \cup Forbidden \cup {"OPTIONAL", "ORDER", "BY", "x", "n"}

-----------------------------------------------------------------------------
(***************************************************************************)
(* Scanning.                                                               *)
(***************************************************************************)

\* s stands in t at i.
At(t, i, s) == i + Len(s) - 1 <= Len(t) /\ SubSeq(t, i, i + Len(s) - 1) = s

\* The first position of t from i on with a symbol of S, or the position past the end.
First(t, i, S) == Min({j \in i .. Len(t) : t[j] \in S} \cup {Len(t) + 1})

WordEnd(t, i) == Min({j \in i .. Len(t) : t[j] \notin Word} \cup {Len(t) + 1})

SpaceEnd(t, i) == Min({j \in i .. Len(t) : t[j] \notin Space} \cup {Len(t) + 1})

\* A scanner goes through t piece by piece, and this is what it yields of them: the piece from i on
\* ends before End(t, i).  An End of 0 is an error and the last piece.
Scan(t, End(_, _), Yield(_, _, _)) ==
  LET From[i \in 1 .. Len(t) + 1] ==
        IF i > Len(t) THEN <<>>
        ELSE LET to == End(t, i) IN Yield(t, i, to) \o (IF to = 0 THEN <<>> ELSE From[to])
  IN  From[1]

\* The piece itself, as <<from, to>>.
Span(t, i, to) == <<<<i, to>>>>

\* Where the string or the escaped identifier that opens at i ends, or unclosed.
QuotedEnd(t, i, unclosed) ==
  LET From[j \in i .. Len(t) + 2] ==
        CASE j > Len(t) -> unclosed
          [] At(t, j, <<"\\">>) /\ t[i] # "tick" -> From[j + 2]
          [] At(t, j, <<t[i], t[i]>>) -> From[j + 2]
          [] At(t, j, <<t[i]>>) /\ ~ At(t, j, <<t[i], t[i]>>) -> j + 1
          [] OTHER -> From[j + 1]
  IN  From[i + 1]

\* The scanner of inlineParameters has a loop of its own for this, and so has that of formatCypher.
SkipQuoted(t, i) == QuotedEnd(t, i, Len(t) + 1)

-----------------------------------------------------------------------------
(***************************************************************************)
(* What may run.                                                           *)
(***************************************************************************)

TokenEnd(t, i) ==
  CASE At(t, i, <<"/", "*">>) \/ t[i] = ";" -> 0
    [] At(t, i, <<"/", "/">>) -> First(t, i, {"\n"})
    [] t[i] \in Quote -> QuotedEnd(t, i, 0)
    [] t[i] \in Word \cup {"$"} -> WordEnd(t, i + 1)
    [] OTHER -> i + 1

\* What cypherTokens goes through, without spaces and comments; it returns the words of it.
Lexeme(t, i, to) ==
  IF t[i] \in Space \/ At(t, i, <<"/", "/">>) THEN <<>> ELSE <<SubSeq(t, i, to - 1)>>

Code(t) == Scan(t, TokenEnd, Lexeme)

\* The pieces of it all, each as <<from, to>>.
Spans(t) == Scan(t, TokenEnd, Span)

Readable(t) ==
  LET spans == Spans(t)
  IN  \A k \in DOMAIN spans : spans[k][2] # 0

\* validateReadQuery
Accepted(t) ==
  LET IsWord(lexeme) == lexeme[1] \in Word
      tokens == SelectSeq(Code(t), IsWord)
  IN  /\ Readable(t)
      /\ tokens # <<>>
      /\ \/ tokens[1] \in {<<"MATCH">>, <<"UNWIND">>, <<"WITH">>, <<"RETURN">>}
         \/ IsPrefix(<<<<"OPTIONAL">>, <<"MATCH">>>>, tokens)
      /\ \A k \in DOMAIN tokens : \A w \in Forbidden : tokens[k] # <<w>>

-----------------------------------------------------------------------------
(***************************************************************************)
(* What is displayed.                                                      *)
(***************************************************************************)

\* Mutant: a comment is not skipped.
FormatEndNoComment(t, i) ==
  CASE t[i] \in Quote -> SkipQuoted(t, i)
    [] t[i] \in Word -> WordEnd(t, i)
    [] OTHER -> i + 1

FormatEnd(t, i) ==
  CASE t[i] \in Quote -> SkipQuoted(t, i)
    [] At(t, i, <<"/", "/">>) -> First(t, i, {"\n"})
    [] t[i] \in Word -> WordEnd(t, i)
    [] OTHER -> i + 1

\* Where the clause ends whose keyword is the word between i and to, or 0.
ClauseEnd(t, i, to) ==
  LET word == SubSeq(t, i, to - 1)
      next == SpaceEnd(t, to)
      second == SubSeq(t, next, WordEnd(t, next) - 1)
  IN  CASE word = <<"OPTIONAL">> /\ second = <<"MATCH">> -> WordEnd(t, next)
        [] word = <<"ORDER">> /\ second = <<"BY">> -> WordEnd(t, next)
        [] \E w \in Clause : word = <<w>> -> to
        [] OTHER -> 0

TrimRight(t) == SubSeq(t, 1, Max({j \in 1 .. Len(t) : t[j] \notin Space} \cup {0}))

\* lineBreak: what is pending up to at is written without the spaces at its end, and a new line begun.
LineBreak(t, s, at, next, indent) ==
  LET out == s.out \o TrimRight(SubSeq(t, s.last, at - 1))
  IN  [s EXCEPT !.out = IF out = <<>> THEN out ELSE out \o <<"\n">> \o indent, !.last = next]

\* The word at i is a property or a parameter.
Name(t, i) == i > 1 /\ t[i - 1] \in {".", "$"}

\* What formatCypher does with the piece of a span: out is what is written, the text from last on is
\* pending, past is where the words of a clause end that are done already.
FormatStep(t, s, span) ==
  LET i == span[1]
      to == span[2]
      next == SpaceEnd(t, to)
  IN  IF i < s.past THEN s
      ELSE CASE t[i] \in {"(", "[", "{"} -> [s EXCEPT !.depth = @ + 1]
             [] t[i] \in {")", "]", "}"} -> [s EXCEPT !.depth = @ - 1]
             [] t[i] = "," /\ s.depth = 0 /\ s.inReturn /\ ~ At(t, next, <<"/", "/">>) ->
                  LineBreak(t, s, to, next, <<" ">>)
             [] t[i] \in Word /\ s.depth = 0 /\ ~ Name(t, i) /\ ClauseEnd(t, i, to) # 0 ->
                  [LineBreak(t, s, i, i, <<>>) EXCEPT
                     !.past = ClauseEnd(t, i, to),
                     !.inReturn = IF t[i] = "AND" THEN @ ELSE t[i] = "RETURN"]
             [] OTHER -> s

Unformatted == [out |-> <<>>, last |-> 1, depth |-> 0, inReturn |-> FALSE, past |-> 1]

\* formatCypher; an indent is one space here.
Formatted(t) ==
  LET Step(s, span) == FormatStep(t, s, span)
      end == FoldLeft(Step, Unformatted, Scan(t, FormatEnd, Span))
  IN  end.out \o SubSeq(t, end.last, Len(t))

-----------------------------------------------------------------------------
(***************************************************************************)
(* What is copied, and, formatted, displayed.                              *)
(***************************************************************************)

\* Mutant: wherever the parameter's name stands, it is replaced.
InlineAnywhere(t, i) == IF At(t, i, <<"$", "x">>) THEN i + 2 ELSE i + 1

InlineEnd(t, i) ==
  CASE t[i] \in Quote -> SkipQuoted(t, i)
    [] At(t, i, <<"/", "/">>) -> First(t, i, {"\n"})
    [] At(t, i, <<"/", "*">>) ->
         Min({j + 2 : j \in {j \in i + 2 .. Len(t) : At(t, j, <<"*", "/">>)}} \cup {Len(t) + 1})
    [] t[i] = "$" /\ i < Len(t) /\ t[i + 1] \in Word -> WordEnd(t, i + 1)
    [] OTHER -> i + 1

\* Mutant: a backslash is not escaped.
EscapeQuotes(c) ==
  CASE c = "\"" -> <<"\\", "\"">>
    [] c = "\n" -> <<"\\", "n">>
    [] OTHER -> <<c>>

\* A character of a value as quoteCypherString writes it.
Escape(c) ==
  CASE c = "\"" -> <<"\\", "\"">>
    [] c = "\\" -> <<"\\", "\\">>
    [] c = "\n" -> <<"\\", "n">>
    [] OTHER -> <<c>>

Escaped(value) == FlattenSeq([k \in DOMAIN value |-> Escape(value[k])])

Quoted(value) == <<"\"">> \o Escaped(value) \o <<"\"">>

\* inlineParameters and joinSegments: the parameter that has a value is replaced, the rest is kept.
Segment(t, i, to) ==
  LET s == SubSeq(t, i, to - 1)
  IN  IF s = <<"$", "x">> THEN Quoted(Value) ELSE s

Inlined(t) == Scan(t, InlineEnd, Segment)

-----------------------------------------------------------------------------
Init == text = <<>> /\ pieces = 0

\* The text comes from the model or from a person: it can be any.
Type(piece) == pieces < MaxPieces /\ text' = text \o piece /\ pieces' = pieces + 1

Clear == pieces = MaxPieces /\ text' = <<>> /\ pieces' = 0

Next == (\E piece \in Piece : Type(piece)) \/ Clear

Spec == Init /\ [][Next]_vars

-----------------------------------------------------------------------------
(***************************************************************************)
(* Properties.                                                             *)
(***************************************************************************)

\* formatCypher "changes presentation only": the query on display says what the query says that
\* runs, with every string, comment and name in it whole.
FormattingKeepsCode == Accepted(text) => Code(Formatted(text)) = Code(text)

\* A parameter stands directly next to another or to a string in double quotes, which is not Cypher.
Touching(t) ==
  LET spans == Spans(t)
  IN  \E k \in 1 .. Len(spans) - 1 :
        {t[spans[k][1]], t[spans[k + 1][1]]} \in {{"$"}, {"$", "\""}}

\* The copied query is the one that runs, with the value in the place of each use of the parameter
\* and nowhere else, not within a string, a comment or a name that begins like it.
InliningKeepsCode ==
  Accepted(text) /\ ~ Touching(text) =>
    Code(Inlined(text)) =
      [k \in DOMAIN Code(text) |-> IF Code(text)[k] = <<"$", "x">> THEN Quoted(Value) ELSE Code(text)[k]]

\* What Cypher reads between the quotes of a literal.
Meaning(literal) ==
  LET From[j \in 1 .. Len(literal) + 1] ==
        CASE j > Len(literal) -> <<>>
          [] At(literal, j, <<"\\", "\"">>) -> <<"\"">> \o From[j + 2]
          [] At(literal, j, <<"\\", "\\">>) -> <<"\\">> \o From[j + 2]
          [] At(literal, j, <<"\\", "n">>) -> <<"\n">> \o From[j + 2]
          [] OTHER -> <<literal[j]>> \o From[j + 1]
  IN  From[1]

\* Any string whatever, written as a literal, is one literal to each scanner and means the string.
LiteralMeansValue ==
  /\ QuotedEnd(Quoted(text), 1, 0) = Len(Quoted(text)) + 1
  /\ Meaning(Escaped(text)) = text

=============================================================================
