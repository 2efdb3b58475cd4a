------------------------------ MODULE TextLayout ------------------------------
(***************************************************************************)
(* How the PDF engine breaks text into lines: _wrap_text, _clip and        *)
(* _wrap_2_lines of signature_pdf_service.py.                              *)
(*                                                                         *)
(* A text is a sequence of paragraphs, a paragraph the sequence of its     *)
(* words, and a word is its length: 0 stands between two adjacent spaces,  *)
(* and the paragraph <<0>> is the empty one.  Every character, a space and *)
(* a dot included, is one unit wide.  A piece is the part of a word that a *)
(* line shows; a line is a sequence of pieces with a space between them.   *)
(***************************************************************************)
EXTENDS FiniteSets, Integers, Sequences, SequencesExt

Piece(par, word, from, to) == [par |-> par, word |-> word, from |-> from, to |-> to]
PieceWidth(piece) == piece.to - piece.from + 1

\* stringWidth of a line, a space before every piece but the first.
LineWidth(line) ==
  LET upTo[i \in 0 .. Len(line)] ==
        IF i = 0 THEN 0 ELSE upTo[i - 1] + (IF i = 1 THEN 0 ELSE 1) + PieceWidth(line[i])
  IN  upTo[Len(line)]

-----------------------------------------------------------------------------
(* _wrap_text *)

\* The pieces of k characters each that a word too long for a line breaks into;
\* a line narrower than a character takes one nevertheless.
HardBreak(piece, max) ==
  LET k == IF max < 1 THEN 1 ELSE max
      n == PieceWidth(piece)
  IN  [i \in 1 .. (n + k - 1) \div k |->
         [piece EXCEPT !.from = (i - 1) * k + 1, !.to = IF i * k < n THEN i * k ELSE n]]

Fits(line, max) == LineWidth(line) <= max

\* The loop tests the string "current", so a line of width 0 counts as no line.
IsLine(line) == LineWidth(line) > 0

Joined(line, word) == IF IsLine(line) THEN Append(line, word) ELSE <<word>>
Closed(soFar) == IF IsLine(soFar.current) THEN Append(soFar.lines, soFar.current) ELSE soFar.lines

\* The parts of a word on lines of their own; the last one may be continued.
OnLines(closed, parts) ==
  [lines   |-> closed \o [i \in 1 .. Len(parts) - 1 |-> <<parts[i]>>],
   current |-> <<Last(parts)>>]

\* One turn of the loop over the words of a paragraph.
PlaceWord(soFar, word, max) ==
  IF Fits(Joined(soFar.current, word), max)
  THEN [soFar EXCEPT !.current = Joined(@, word)]
  ELSE IF Fits(<<word>>, max) THEN [lines |-> Closed(soFar), current |-> <<word>>]
  ELSE OnLines(Closed(soFar), HardBreak(word, max))

ParagraphLines(par, words, max) ==
  LET placed[i \in 0 .. Len(words)] ==
        IF i = 0 THEN [lines |-> <<>>, current |-> <<>>]
        ELSE PlaceWord(placed[i - 1], Piece(par, i, 1, words[i]), max)
  IN  IF words = <<0>> THEN << <<Piece(par, 1, 1, 0)>> >> ELSE Closed(placed[Len(words)])

WrapText(text, max) ==
  FlattenSeq([p \in DOMAIN text |-> ParagraphLines(p, text[p], max)])

-----------------------------------------------------------------------------
(* _clip and _wrap_2_lines: what is drawn is pieces, followed by "..." if  *)
(* something was cut.                                                      *)

Ellipsis == 3

Begins(line, i) == IF i = 1 THEN 0 ELSE LineWidth(SubSeq(line, 1, i - 1)) + 1

\* The first n characters of a line.
FirstChars(line, n) ==
  LET kept == {i \in DOMAIN line : Begins(line, i) < n}
  IN  [i \in 1 .. Cardinality(kept) |->
         LET room == n - Begins(line, i)
         IN  IF PieceWidth(line[i]) <= room THEN line[i] ELSE [line[i] EXCEPT !.to = @ - PieceWidth(line[i]) + room]]

Whole(line) == [pieces |-> line, dots |-> FALSE]

Clip(line, max) ==
  IF Fits(line, max) THEN Whole(line)
  ELSE [pieces |-> FirstChars(line, IF max > Ellipsis THEN max - Ellipsis ELSE 0), dots |-> TRUE]

\* Mutant of FirstTwo: the second line is drawn as it is, without an ellipsis.
FirstTwoSilently(lines, max) ==
  [i \in 1 .. (IF Len(lines) < 2 THEN Len(lines) ELSE 2) |-> Whole(lines[i])]

FirstTwo(lines, max) ==
  IF Len(lines) <= 2 THEN [i \in DOMAIN lines |-> Whole(lines[i])]
  ELSE <<Whole(lines[1]), Clip(FlattenSeq(Tail(lines)), max)>>

Wrap2Lines(text, max) == FirstTwo(WrapText(text, max), max)

-----------------------------------------------------------------------------
(* What the lines of a text should be.                                     *)

\* The characters that a piece shows, those of pieces, and those of a text,
\* without spaces.
Shown(piece) == [i \in 1 .. PieceWidth(piece) |-> <<piece.par, piece.word, piece.from + i - 1>>]
Letters(pieces) == FlattenSeq([k \in DOMAIN pieces |-> Shown(pieces[k])])

TextLetters(text) ==
  FlattenSeq([p \in DOMAIN text |->
    Letters([w \in DOMAIN text[p] |-> Piece(p, w, 1, text[p][w])])])

\* No line is wider than max, unless one character is.
NoLineTooWide(lines, max) ==
  \A i \in DOMAIN lines : LineWidth(lines[i]) <= max \/ LineWidth(lines[i]) = 1

\* A line ends only where the next word of its paragraph would not have fit.
NoLineEndsEarly(lines, text, max) ==
  \A i \in 1 .. Len(lines) - 1 :
    LET next == lines[i + 1][1]
    IN  lines[i][1].par = next.par =>
          LineWidth(lines[i]) + 1 + text[next.par][next.word] > max

\* Every character once and in order, in lines filled as far as they can be.
FilledWell(lines, text, max) ==
  /\ Letters(FlattenSeq(lines)) = TextLetters(text)
  /\ NoLineTooWide(lines, max)
  /\ NoLineEndsEarly(lines, text, max)

WrappedWell(text, max) == FilledWell(WrapText(text, max), text, max)

\* Lines show the text from its beginning, and dots if a letter of it is missing;
\* there are dots only on a text of more than two lines (the rest may be blank).
ShowsBeginning(lines, text, max) ==
  LET shown == Letters(FlattenSeq([i \in DOMAIN lines |-> lines[i].pieces]))
      dots  == \E i \in DOMAIN lines : lines[i].dots
  IN  /\ IsPrefix(shown, TextLetters(text))
      /\ shown # TextLetters(text) => dots
      /\ dots => Len(WrapText(text, max)) > 2
=============================================================================
