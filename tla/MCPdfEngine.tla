------------------------------ MODULE MCPdfEngine ------------------------------
(* A grid of tenths on small pages; History lists of every length up to three pages. *)
EXTENDS PdfEngine

CONSTANTS Ann, Bob

MCPages == {[w |-> 400, h |-> 600], [w |-> 900, h |-> 500]}

MCBoxes == [page: 1 .. 2, x: {0, 6}, y: {1, 9}, w: {4, 5}, h: {1, 5}]
MCCaptions == {8, 30, NoCaption}
MCPlacements ==
  LET Region(box) == {[box |-> box, caption |-> c] : c \in MCCaptions}
      Placed      == UNION {Region(box) : box \in MCBoxes}
  IN  {<<>>} \cup {<<a>> : a \in Placed}
        \cup {<<a, b>> : a \in Region([page |-> 1, x |-> 6, y |-> 9, w |-> 4, h |-> 1]), b \in Placed}

Note(kind, p, w, h, text) ==
  [kind |-> kind, box |-> [page |-> p, x |-> 2, y |-> 3, w |-> w, h |-> h], text |-> text]
MCNotes ==
  {Note("highlight", 1, 4, 1, << <<0>> >>), Note("drawing", 2, 4, 3, << <<0>> >>),
   Note("highlight", 3, 4, 1, << <<0>> >>)}
    \cup {Note("text", n, w, h, text) : n \in 1 .. 2, w \in {2, 6}, h \in {1, 5},
            text \in {<< <<3, 2, 9>>, <<0>>, <<1, 0, 0, 7>> >>, << <<0, 0>>, <<12, 4>> >>}}
MCDrawings ==
  {<<>>} \cup {<<a>> : a \in MCNotes}
    \cup {<<Note("highlight", 1, 4, 1, << <<0>> >>), a>> : a \in MCNotes}

MCEvents ==
  {[text |-> << <<3, 2>> >>, detail |-> TRUE, signer |-> NoPerson],
   [text |-> << <<3, 9, 2>> >>, detail |-> TRUE, signer |-> Ann],
   [text |-> << <<2, 0>>, <<2>>, <<0>>, <<0>>, <<0>>, <<0>> >>, detail |-> FALSE, signer |-> Bob]}

MCFiles == {[pages |-> 2, height |-> 396], [pages |-> 1, height |-> 300],
            [pages |-> 1, height |-> 612], [pages |-> 0, height |-> 0]}
File(pages, height) == [pages |-> pages, height |-> height]
MCDocuments ==
  {[final |-> NoFile, original |-> File(1, 300)], [final |-> File(2, 396), original |-> File(1, 300)],
   [final |-> File(1, 612), original |-> File(2, 396)], [final |-> Gone, original |-> File(1, 300)],
   [final |-> NoFile, original |-> Gone], [final |-> NoFile, original |-> File(0, 0)]}

MCAsked ==
  {[history |-> h, given |-> <<>>] : h \in UNION {[1 .. n -> MCEvents] : n \in 0 .. MaxEvents}}
    \cup {[history |-> <<>>, given |-> [i \in 1 .. n |-> [who |-> w, event |-> 0]]] :
            n \in 1 .. 3, w \in People}
=============================================================================
