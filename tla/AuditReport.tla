------------------------------ MODULE AuditReport ------------------------------
(***************************************************************************)
(* One call of append_audit_page: the "Final Audit Report" is laid out     *)
(* twice, first to count its pages and then to draw them, and is appended  *)
(* to the signed file.                                                     *)
(*                                                                         *)
(* Coordinates are half points from the bottom of the page, since a row of *)
(* 47 points has its bullet at half its height.  A row of the timeline is  *)
(* one action; the header and the cards of page 1 have fixed heights and   *)
(* are operators.                                                          *)
(***************************************************************************)
EXTENDS Integers, Sequences, TextLayout

CONSTANTS
  Events,      \* what an event of History may be: its text, whether it has a
               \* detail, and who it says has signed
  People,      \* e-mail addresses in lower case
  Files,       \* PDFs: their number of pages and the height of the first
  Documents,   \* final_path and original_path of a document: files, or Gone
  Asked,       \* requests: [history, given]
  ColumnChars, \* characters of a title in the left column, and across the page
  PageChars,
  MaxEvents,   \* bound of the request
  NoPerson, NoFile, Gone, NoBullet

\* The report says who has signed; the caller's list of signers may say more.
Signer == [who: People, event: 0 .. MaxEvents]

ASSUME AuditReportAssumption ==
  /\ Documents \subseteq [final: Files \cup {Gone, NoFile}, original: Files \cup {Gone}]
  /\ Files \subseteq [pages: Nat, height: Nat]
  /\ Events \subseteq [text: Seq(Seq(Nat)), detail: BOOLEAN, signer: People \cup {NoPerson}]
  /\ Asked \subseteq [history: Seq(Events), given: Seq(Signer)]
  /\ \A r \in Asked : Len(r.history) <= MaxEvents
  /\ ColumnChars \in Nat /\ PageChars \in Nat
  /\ Ellipsis <= ColumnChars /\ ColumnChars <= PageChars
  /\ MaxEvents \in Nat
  /\ NoPerson \notin People /\ {NoFile, Gone} \cap Files = {} /\ NoBullet \notin Int

VARIABLES
  document,  \* final_path and original_path of the document
  history,   \* History and Signers of the request
  given,
  pass,      \* where the call is
  page, y, bullet, next, \* page_num, ly, prev_bullet_y and the loop over history
  wide,      \* ~on_first_page
  total,     \* total_pages, 0 while it is None
  rows,      \* the rows drawn in this pass
  footers,   \* the footers drawn in this pass: [page, of]
  answer     \* the pages of FileBytes

reportVars ==
  <<document, history, given, pass, page, y, bullet, next, wide, total, rows, footers, answer>>

Row == [event: 1 .. MaxEvents, page: Nat, top: Int, bottom: Int, bullet: Int,
        link: Int \cup {NoBullet}, wide: BOOLEAN]
Footer == [page: Nat, of: Nat]

ReportTypeOK ==
  /\ document \in [final: Files \cup {Gone, NoFile}, original: Files \cup {Gone}]
  /\ history \in Seq(Events) /\ Len(history) <= MaxEvents
  /\ given \in Seq(Signer)
  /\ pass \in {"idle", "asked", "measure", "draw", "append", "answered", "refused"}
  /\ page \in Nat /\ y \in Int /\ bullet \in Int \cup {NoBullet}
  /\ next \in 1 .. MaxEvents + 1 /\ wide \in BOOLEAN /\ total \in Nat
  /\ rows \in Seq(Row) /\ footers \in Seq(Footer)
  /\ answer \in Seq({"source", "report"} \X Nat)

\* final_path or original_path.
Source == IF document.final = NoFile THEN document.original ELSE document.final
Height == 2 * Source.height

-----------------------------------------------------------------------------
(* The fixed parts of a page.                                              *)

Floor == 110                \* floor_y
RowGap == 12

\* Under the header, the info bar and the title of the timeline.
FirstRowTop == Height - 32 - 176 - 32 - 124 - 44 - 44
\* Under the strip that continues the report.
NextRowTop == Height - 124

\* measure_timeline_row: the lines of the title, and the height of the row.
MeasureRow(event, acrossPage) ==
  LET lines  == Wrap2Lines(event.text, IF acrossPage THEN PageChars ELSE ColumnChars)
      height == 32 + 22 * Len(lines) + (IF event.detail THEN 18 ELSE 0)
  IN  [lines |-> lines, height |-> IF height < 80 THEN 80 ELSE height]

\* Mutant of DerivedSigners: who signed twice is listed twice.
RepeatedSigners(events) ==
  LET seen[n \in 0 .. Len(events)] ==
        IF n = 0 THEN <<>>
        ELSE IF events[n].signer = NoPerson THEN seen[n - 1]
        ELSE Append(seen[n - 1], [who |-> events[n].signer, event |-> n])
  IN  seen[Len(events)]

\* _derive_signers_from_history: a dict by lower-case e-mail keeps the place of
\* the first mention and the values of the last.
DerivedSigners(events) ==
  LET Noted(list, n) ==
        LET s == [who |-> events[n].signer, event |-> n]
        IN  IF \E i \in DOMAIN list : list[i].who = s.who
            THEN [i \in DOMAIN list |-> IF list[i].who = s.who THEN s ELSE list[i]]
            ELSE Append(list, s)
      seen[n \in 0 .. Len(events)] ==
        IF n = 0 THEN <<>>
        ELSE IF events[n].signer = NoPerson THEN seen[n - 1]
        ELSE Noted(seen[n - 1], n)
  IN  seen[Len(events)]

\* The signers that render_audit_report lists.
ResolvedSigners == IF given # <<>> THEN given ELSE DerivedSigners(history)

\* draw_details_card and draw_signers_card: the extent of the card and, of each
\* signer, from the top of the avatar to the base line of the status.
DetailsCard(top) == [top |-> top, bottom |-> top - 329]
SignersCard(top, n) ==
  [top |-> top, bottom |-> top - 80 * n - 68,
   lines |-> [i \in 1 .. n |-> [top |-> top - 60 - 80 * (i - 1) + 2, bottom |-> top - 124 - 80 * (i - 1)]]]
\* draw_success_note
SuccessNote(top) == [top |-> top, bottom |-> top - 88]

-----------------------------------------------------------------------------
(* The call.                                                               *)

StartPass(name) ==
  /\ pass' = name
  /\ page' = 1 /\ y' = FirstRowTop /\ bullet' = NoBullet /\ next' = 1 /\ wide' = FALSE
  /\ rows' = <<>> /\ footers' = <<>>

ReportIdle ==
  /\ document = [final |-> NoFile, original |-> Gone]
  /\ history = <<>> /\ given = <<>> /\ pass = "idle"
  /\ page = 0 /\ y = 0 /\ bullet = NoBullet /\ next = 1 /\ wide = FALSE /\ total = 0
  /\ rows = <<>> /\ footers = <<>> /\ answer = <<>>

ReportInit ==
  /\ document \in Documents
  /\ \E r \in Asked : history = r.history /\ given = r.given
  /\ pass = "asked"
  /\ page = 0 /\ y = 0 /\ bullet = NoBullet /\ next = 1 /\ wide = FALSE /\ total = 0
  /\ rows = <<>> /\ footers = <<>> /\ answer = <<>>

\* append_audit_page: 400 without a source file or a page in it.
AskForReport ==
  /\ pass = "asked"
  /\ IF Source = Gone \/ Source.pages = 0
     THEN pass' = "refused" /\ UNCHANGED <<page, y, bullet, next, wide, rows, footers>>
     ELSE StartPass("measure")
  /\ UNCHANGED <<document, history, given, total, answer>>

Drawing == pass \in {"measure", "draw"} /\ next <= Len(history)

\* The estimate before the row is drawn, in the column of the page so far.
NeedsNewPage == y - (MeasureRow(history[next], wide).height + RowGap) < Floor

\* draw_timeline_row at the top t of a page, linked to the bullet above it.
DrawRow(onPage, t, acrossPage, link) ==
  LET height == MeasureRow(history[next], acrossPage).height
      at     == t - height \div 2 + 8
  IN  /\ rows' = Append(rows, [event |-> next, page |-> onPage, top |-> t, bottom |-> t - height,
                               bullet |-> at, link |-> link, wide |-> acrossPage])
      /\ y' = t - height - RowGap
      /\ bullet' = at
      /\ next' = next + 1

\* draw_footer
DrawFooter == footers' = Append(footers, [page |-> page, of |-> total])

RowOnThisPage ==
  /\ Drawing /\ ~NeedsNewPage
  /\ DrawRow(page, y, wide, bullet)
  /\ UNCHANGED <<document, history, given, pass, page, wide, total, footers, answer>>

\* Mutant of RowOnNewPage: the footer is drawn after the page was turned.
RowOnNewPageFooterLate ==
  /\ Drawing /\ NeedsNewPage
  /\ footers' = Append(footers, [page |-> page + 1, of |-> total])
  /\ page' = page + 1
  /\ wide' = TRUE
  /\ DrawRow(page + 1, NextRowTop, TRUE, NoBullet)
  /\ UNCHANGED <<document, history, given, pass, total, answer>>

\* new_page, then the row at its top.
RowOnNewPage ==
  /\ Drawing /\ NeedsNewPage
  /\ DrawFooter
  /\ page' = page + 1
  /\ wide' = TRUE
  /\ DrawRow(page + 1, NextRowTop, TRUE, NoBullet)
  /\ UNCHANGED <<document, history, given, pass, total, answer>>

\* The measuring pass returns its page_num, and nothing else of it is kept.
EndMeasuring ==
  /\ pass = "measure" /\ next > Len(history)
  /\ total' = page
  /\ StartPass("draw")
  /\ UNCHANGED <<document, history, given, answer>>

EndDrawing ==
  /\ pass = "draw" /\ next > Len(history)
  /\ DrawFooter
  /\ pass' = "append"
  /\ UNCHANGED <<document, history, given, page, y, bullet, next, wide, total, rows, answer>>

\* The pages of the source, then those of the report.
AppendReport ==
  /\ pass = "append"
  /\ answer' = [i \in 1 .. Source.pages |-> <<"source", i>>] \o [i \in 1 .. page |-> <<"report", i>>]
  /\ pass' = "answered"
  /\ UNCHANGED <<document, history, given, page, y, bullet, next, wide, total, rows, footers>>

ReportNext ==
  \/ AskForReport \/ RowOnThisPage \/ RowOnNewPage
  \/ EndMeasuring \/ EndDrawing \/ AppendReport

ReportEnded == pass \in {"answered", "refused"}

-----------------------------------------------------------------------------
(* Properties                                                              *)

\* The timeline shows every event once, in order; rows of a page neither
\* overlap nor leave it, as long as one row fits on a page at all.
TimelineIsWhole ==
  /\ pass = "append" => Len(rows) = Len(history)
  /\ \A i \in DOMAIN rows :
       /\ rows[i].event = i
       /\ rows[i].wide <=> rows[i].page > 1
       /\ 2 * Source.height >= 124 + 94 + RowGap + Floor => rows[i].bottom >= Floor
  /\ \A i \in 1 .. Len(rows) - 1 :
       \/ rows[i + 1].page = rows[i].page + 1
       \/ rows[i + 1].page = rows[i].page /\ rows[i + 1].top < rows[i].bottom

\* The line between two bullets joins two rows of one page, downwards.
LinksStayOnPage ==
  \A i \in DOMAIN rows :
    IF i > 1 /\ rows[i - 1].page = rows[i].page
    THEN rows[i].link = rows[i - 1].bullet /\ rows[i].link - 18 > rows[i].bullet + 18
    ELSE rows[i].link = NoBullet

\* "so page counts match between the measuring and the real pass": every page of
\* the report has one footer, numbered, with the true number of pages.
FootersCount ==
  pass \in {"append", "answered"} =>
    footers = [i \in 1 .. page |-> [page |-> i, of |-> page]]

\* A title is cut to two lines, none wider than its column, that show its
\* beginning; it ends in dots if a letter of it is missing, and only if it would
\* take more lines.
TitlesAreTruthful ==
  \A i \in DOMAIN rows :
    LET text  == history[rows[i].event].text
        room  == IF rows[i].wide THEN PageChars ELSE ColumnChars
        lines == MeasureRow(history[rows[i].event], rows[i].wide).lines
    IN  /\ WrappedWell(text, room)
        /\ ShowsBeginning(lines, text, room)
        /\ \A k \in DOMAIN lines :
             LineWidth(lines[k].pieces) + (IF lines[k].dots THEN Ellipsis ELSE 0) <= room

\* Without a list from the caller, the panel lists everybody who is said to have
\* signed once, in the order of the first mention, with the last signing's time.
SignersListedOnce ==
  given = <<>> =>
    LET list == ResolvedSigners
        Signings(w) == {n \in DOMAIN history : history[n].signer = w}
        First(w) == CHOOSE n \in Signings(w) : \A m \in Signings(w) : n <= m
    IN  /\ {list[i].who : i \in DOMAIN list} = {w \in People : Signings(w) # {}}
        /\ \A i \in DOMAIN list : \A m \in Signings(list[i].who) : m <= list[i].event
        /\ \A i, j \in DOMAIN list : i < j => First(list[i].who) < First(list[j].who)

\* The cards of page 1 lie below each other, every signer inside the card, and
\* clear of the footer on a page high enough for the list.  Nothing moves a long
\* list to another page: on a Letter page nine signers run over the footer.
PanelHolds ==
  pass = "draw" /\ ResolvedSigners # <<>> =>
    LET n       == Len(ResolvedSigners)
        details == DetailsCard(FirstRowTop + 44 + 8)
        card    == SignersCard(details.bottom - 32, n)
        note    == SuccessNote(card.bottom - 32)
    IN  /\ card.top < details.bottom /\ note.top < card.bottom
        /\ \A i \in 1 .. n : card.lines[i].top < card.top /\ card.lines[i].bottom > card.bottom
        /\ \A i \in 1 .. n - 1 : card.lines[i + 1].top < card.lines[i].bottom
        /\ Source.height >= 530 + 40 * n => note.bottom >= Floor

\* The answer is the source file, page by page, and after it the report.
ReportComesLast ==
  pass = "answered" =>
    /\ Len(answer) = Source.pages + footers[Len(footers)].of
    /\ \A i, j \in DOMAIN answer :
         i < j => answer[i][1] = "source" \/ answer[j][1] = "report"
    /\ document.final \in Files => Source = document.final

\* What append_audit_page answers: the report is complete, legible and paginated
\* as its footers say, and it follows the signed file.
ReportIsWhole ==
  /\ ReportTypeOK
  /\ TimelineIsWhole /\ LinksStayOnPage /\ FootersCount /\ PanelHolds /\ ReportComesLast
=============================================================================
