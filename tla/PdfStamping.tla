------------------------------ MODULE PdfStamping ------------------------------
(***************************************************************************)
(* One call of apply_signatures or render_region_boxes: what is drawn on   *)
(* which page, where and in which order.                                   *)
(*                                                                         *)
(* Boxes are stored as fractions of the page from its top left corner; the *)
(* PDF counts from the bottom left.  Here a fraction is a multiple of      *)
(* 1/Grid, lengths are quarter points, and the sides of pages are          *)
(* multiples of Grid.  The engine takes every page to begin at 0,0.        *)
(***************************************************************************)
EXTENDS FiniteSets, Integers, Sequences, TextLayout

CONSTANTS
  Grid,
  Pages,        \* sizes of pages: [w, h]
  Boxes,        \* boxes a client may send: [page, x, y, w, h]
  Captions,     \* captions by their number of characters, or NoCaption
  Notes,        \* annotations: [kind, box, text]
  Placements,   \* lists of signatures: sequences of [box, caption]
  Drawings,     \* lists of annotations: sequences of Notes
  MaxPages, NoCaption

\* SignatureBox.validate, and the check against total_pages in create_regions.
Valid(box, pages) ==
  /\ 1 <= box.page /\ box.page <= pages
  /\ box.w > 0 /\ box.h > 0
  /\ 0 <= box.x /\ box.x <= Grid /\ 0 <= box.y /\ box.y <= Grid
  /\ box.x + box.w <= Grid /\ box.y + box.h <= Grid

Box == [page: Int, x: Int, y: Int, w: Int, h: Int]

ASSUME PdfStampingAssumption ==
  /\ Grid \in Nat \ {0} /\ MaxPages \in Nat
  /\ \A size \in Pages : size.w % Grid = 0 /\ size.h % Grid = 0
  /\ Pages \subseteq [w: Nat, h: Nat]
  /\ NoCaption \notin Nat /\ Captions \subseteq Nat \cup {NoCaption}
  /\ Boxes \subseteq Box
  /\ Notes \subseteq [kind: {"highlight", "drawing", "text"}, box: Box, text: Seq(Seq(Nat))]
  /\ Placements \subseteq Seq([box: Boxes, caption: Captions]) /\ Drawings \subseteq Seq(Notes)

VARIABLES
  call,    \* [method, pages, signatures, annotations]
  turn,    \* the next signature, page of annotations, or page of boxes
  stage,   \* which loop of the method is running
  marks    \* what was drawn, in order

stampVars == <<call, turn, stage, marks>>

Mark == [page: Nat, kind: {"stamp", "rule", "caption", "box", "highlight", "drawing", "text"},
         from: Nat, x: Int, y: Int, w: Int, h: Int, size: Int]

StampTypeOK ==
  /\ call \in [method: {"apply_signatures", "render_region_boxes"},
               pages: Seq(Pages), signatures: Seq([box: Boxes, caption: Captions]),
               annotations: Seq(Notes)]
  /\ turn \in Nat
  /\ stage \in {"idle", "signatures", "annotations", "boxes", "written"}
  /\ marks \in Seq(Mark)

-----------------------------------------------------------------------------
(* Placement                                                               *)

\* Mutant of OnPage: the box is hung by its upper edge.
OnPageByTop(box, page) ==
  [x |-> (box.x * page.w) \div Grid, w |-> (box.w * page.w) \div Grid,
   h |-> (box.h * page.h) \div Grid, y |-> page.h - (box.y * page.h) \div Grid]

\* A stored box on a page, from the bottom left corner.
OnPage(box, page) ==
  [x |-> (box.x * page.w) \div Grid, w |-> (box.w * page.w) \div Grid,
   h |-> (box.h * page.h) \div Grid, y |-> page.h - ((box.y + box.h) * page.h) \div Grid]

MarkAt(kind, page, from, r, size) ==
  [page |-> page, kind |-> kind, from |-> from,
   x |-> r.x, y |-> r.y, w |-> r.w, h |-> r.h, size |-> size]

\* stringWidth of a caption: a character is half as wide as its font is high.
CaptionWidth(caption, size) == (caption * size) \div 2

\* From 6.5 points down to 4 by quarters, until the caption fits.
CaptionSize(caption, width) ==
  LET fits == {s \in 16 .. 26 : CaptionWidth(caption, s) <= width}
  IN  IF fits = {} THEN 16 ELSE CHOOSE s \in fits : \A t \in fits : t <= s

\* _draw_signature_caption: a rule under the box and the text below it, which is
\* left out where the page ends below; in 4 points it may run past the box, and
\* the page, to the right.
CaptionMarks(caption, page, from, r) ==
  LET size == CaptionSize(caption, r.w)
      text == [x |-> r.x, w |-> CaptionWidth(caption, size), y |-> r.y - size - 6, h |-> size]
  IN  <<MarkAt("rule", page, from, [r EXCEPT !.h = 0], 3)>>
        \o IF text.y >= 0 THEN <<MarkAt("caption", page, from, text, size)>> ELSE <<>>

\* The lines of a text note are 11 points apart in 9 point type; the margin is 4
\* points on every side.
NoteRoom(r)  == LET inner == IF r.w - 32 < 4 THEN 4 ELSE r.w - 32 IN inner \div 18
NoteLines(note, r) == WrapText(note.text, NoteRoom(r))
LineY(r, i)  == r.y + r.h - 36 - 16 - 44 * (i - 1)

\* _draw_annotations, one annotation: the note's paper, then the lines that stay
\* above its lower margin.
NoteMarks(note, page, from, r) ==
  LET lines == NoteLines(note, r)
      shown == {i \in DOMAIN lines : LineY(r, i) >= r.y + 16}
  IN  IF note.kind # "text" THEN <<MarkAt(note.kind, page, from, r, 0)>>
      ELSE <<MarkAt("text", page, from, r, 0)>>
             \o [i \in 1 .. Cardinality(shown) |->
                   MarkAt("text", page, from, [x |-> r.x + 16, y |-> LineY(r, i), h |-> 36,
                                               w |-> 18 * LineWidth(lines[i])], i)]

-----------------------------------------------------------------------------
(* The call                                                                *)

StampIdle ==
  /\ call = [method |-> "apply_signatures", pages |-> <<>>, signatures |-> <<>>, annotations |-> <<>>]
  /\ turn = 1 /\ stage = "idle" /\ marks = <<>>

\* The regions are valid for the file: create_regions has seen to it.  The
\* annotations may come from the annotate page, which checks nothing.
StampInit ==
  /\ \E pages \in UNION {[1 .. n -> Pages] : n \in 1 .. MaxPages},
        signatures \in Placements, annotations \in Drawings :
       /\ \A i \in DOMAIN signatures : Valid(signatures[i].box, Len(pages))
       /\ \/ /\ call = [method |-> "apply_signatures", pages |-> pages,
                        signatures |-> signatures, annotations |-> annotations]
             /\ stage = "signatures"
          \/ /\ call = [method |-> "render_region_boxes", pages |-> pages,
                        signatures |-> signatures, annotations |-> <<>>]
             /\ annotations = <<>> /\ stage = "boxes"
  /\ turn = 1 /\ marks = <<>>

\* Signature i of the call and its caption.
SignatureMarks(i) ==
  LET s    == call.signatures[i]
      page == s.box.page
      r    == OnPage(s.box, call.pages[page])
  IN  <<MarkAt("stamp", page, i, r, 0)>>
        \o IF s.caption = NoCaption THEN <<>> ELSE CaptionMarks(s.caption, page, i, r)

\* A signature with its caption is merged into its page.
StampSignature ==
  /\ stage = "signatures" /\ turn <= Len(call.signatures)
  /\ marks' = marks \o SignatureMarks(turn)
  /\ turn' = turn + 1
  /\ UNCHANGED <<call, stage>>

EndSignatures ==
  /\ stage = "signatures" /\ turn > Len(call.signatures)
  /\ stage' = IF call.annotations = <<>> THEN "written" ELSE "annotations"
  /\ turn' = 1
  /\ UNCHANGED <<call, marks>>

\* The marks, and those that the items of a list on one page add, in the order of
\* the list; new[i] are the marks of item i.
Merged(list, page, new) ==
  LET upTo[i \in 0 .. Len(list)] ==
        IF i = 0 THEN marks
        ELSE IF list[i].box.page = page THEN upTo[i - 1] \o new[i] ELSE upTo[i - 1]
  IN  upTo[Len(list)]

\* annotations_by_page: the annotations of a page are merged over it.
BurnPage ==
  /\ stage = "annotations" /\ turn <= Len(call.pages)
  /\ LET notes == call.annotations
     IN  marks' = Merged(notes, turn, [i \in DOMAIN notes |->
           NoteMarks(notes[i], turn, i, OnPage(notes[i].box, call.pages[turn]))])
  /\ turn' = turn + 1
  /\ UNCHANGED <<call, stage>>

\* render_region_boxes: the empty boxes of a page.
DrawBoxes ==
  /\ stage = "boxes" /\ turn <= Len(call.pages)
  /\ LET regions == call.signatures
     IN  marks' = Merged(regions, turn, [i \in DOMAIN regions |->
           <<MarkAt("box", turn, i, OnPage(regions[i].box, call.pages[turn]), 6)>>])
  /\ turn' = turn + 1
  /\ UNCHANGED <<call, stage>>

WriteFile ==
  /\ stage \in {"annotations", "boxes"} /\ turn > Len(call.pages)
  /\ stage' = "written"
  /\ UNCHANGED <<call, turn, marks>>

StampNext == StampSignature \/ EndSignatures \/ BurnPage \/ DrawBoxes \/ WriteFile

StampEnded == stage = "written"

-----------------------------------------------------------------------------
(* Properties                                                              *)

Marks(kinds) == {i \in DOMAIN marks : marks[i].kind \in kinds}

\* Every region has one stamp, or one empty box: exactly the rectangle that the
\* admin drew, counted from the upper left corner, and within the page.
StampsSitOnRegions ==
  /\ \A k \in Marks({"stamp", "box"}) :
       LET m    == marks[k]
           box  == call.signatures[m.from].box
           page == call.pages[m.page]
       IN  /\ m.page = box.page
           /\ m.x * Grid = box.x * page.w /\ (page.h - m.y - m.h) * Grid = box.y * page.h
           /\ m.w * Grid = box.w * page.w /\ m.h * Grid = box.h * page.h
           /\ 0 <= m.x /\ m.x + m.w <= page.w /\ 0 <= m.y /\ m.y + m.h <= page.h
  /\ StampEnded =>
       \A i \in DOMAIN call.signatures :
         Cardinality({k \in Marks({"stamp", "box"}) : marks[k].from = i}) = 1

\* A stamp has one caption, drawn after it, if the signature has one and there
\* are 8 points below the box; no stamp has two.  A caption begins under the left
\* edge of its own box and above the lower edge of the page, in the largest size
\* that fits the width of the box.  Only one in 4 points may be wider than that.
CaptionsFollowStamps ==
  /\ \A k \in Marks({"caption"}) :
       LET m == marks[k]
           s == call.signatures[m.from]
           r == OnPage(s.box, call.pages[m.page])
       IN  /\ s.caption # NoCaption /\ m.page = s.box.page
           /\ m.x = r.x /\ 0 <= m.y /\ m.y + m.size < r.y
           /\ m.w = CaptionWidth(s.caption, m.size) /\ (m.w <= r.w \/ m.size = 16)
           /\ m.size = 26 \/ CaptionWidth(s.caption, m.size + 1) > r.w
           /\ \E j \in Marks({"stamp"}) : j < k /\ marks[j].from = m.from
  /\ \A j, k \in Marks({"caption"}) : marks[j].from = marks[k].from => j = k
  /\ \A k \in Marks({"stamp"}) :
       call.signatures[marks[k].from].caption # NoCaption /\ marks[k].y >= 32 =>
         \E j \in Marks({"caption"}) : marks[j].from = marks[k].from

\* "Burn admin annotations onto each page they belong to": those of a page of the
\* file are drawn once, in their order and over every stamp; others nowhere.
AnnotationsLieOnTop ==
  LET Papers == {k \in Marks({"highlight", "drawing", "text"}) : marks[k].size = 0}
  IN  /\ \A k \in Papers :
           /\ marks[k].page = call.annotations[marks[k].from].box.page
           /\ \A j \in Marks({"stamp", "caption"}) : j < k
           /\ \A j \in Papers : j < k /\ marks[j].page = marks[k].page => marks[j].from < marks[k].from
      /\ StampEnded => \A i \in DOMAIN call.annotations :
           Cardinality({k \in Papers : marks[k].from = i}) =
             IF call.annotations[i].box.page \in DOMAIN call.pages THEN 1 ELSE 0

\* The lines of a text note lie within its paper and show the beginning of a text
\* that is wrapped well; a note that is too small ends without a sign of it.
NotesStayInside ==
  \A k \in Marks({"text"}) :
    LET m     == marks[k]
        note  == call.annotations[m.from]
        paper == OnPage(note.box, call.pages[m.page])
        lines == NoteLines(note, paper)
    IN  /\ WrappedWell(note.text, NoteRoom(paper))
        /\ m.size > 0 =>
             /\ m.w = 18 * LineWidth(lines[m.size])
             /\ m.size > 1 => marks[k - 1].size = m.size - 1
             /\ m.y >= paper.y + 16 /\ m.y + m.h <= paper.y + paper.h
             /\ m.x + m.w <= paper.x + paper.w - 16 \/ LineWidth(lines[m.size]) <= 1

\* What a stamped file shows: every mark once, at its place and in its order.
MarksAreInPlace ==
  StampTypeOK /\ StampsSitOnRegions /\ CaptionsFollowStamps /\ AnnotationsLieOnTop
=============================================================================
