------------------------------- MODULE PageText --------------------------------
(***************************************************************************)
(* The text of a document page by page: the text layer of a PDF            *)
(* (extraction/pdftext.py), or what character recognition makes of page    *)
(* images (extraction/ocr.py).                                             *)
(*                                                                         *)
(* A page is [number, marks, lined]: a mark stands for one thing that some *)
(* reader looks for (a label, a figure, a line of prose) and is what the   *)
(* budget of characters counts; lined says that each mark is a line of its *)
(* own, which recognition loses.                                           *)
(***************************************************************************)
EXTENDS Integers, Sequences, SequencesExt, FiniteSetsExt

CONSTANTS
    MaxPages, OcrMaxPages,  \* pages that are looked at
    MaxMarks                \* MAX_CHARS: the budget of a document

\* A document has a page count, and pages with a text layer, an image or both:
\* [marks |-> the text layer, image |-> what is on the image].
IsImage(page) == page.image # <<>>

Size(pages) == FoldLeft(LAMBDA n, page : n + Len(page.marks), 0, pages)

\* What is left of each page under the budget; where nothing is left reading
\* ends.
WithinBudget(pages) ==
    LET before(i) == Size(SubSeq(pages, 1, i - 1))
        cut(i) == [pages[i] EXCEPT !.marks = SubSeq(@, 1, Min({Len(@), MaxMarks - before(i)}))]
        read == {i \in DOMAIN pages : before(i) < MaxMarks}
    IN  [i \in 1..Cardinality(read) |-> cut(i)]

\* The budget cuts a page, or is used up before a page, be that page empty.
Truncated(pages) ==
    \/ Size(pages) > MaxMarks
    \/ \E i \in DOMAIN pages : Size(SubSeq(pages, 1, i - 1)) >= MaxMarks

\* extract_text: the first pages in order, within the budget.
ExtractText(document) ==
    LET pages == [i \in 1..Min({Len(document), MaxPages}) |->
                    [number |-> i, marks |-> document[i].marks, lined |-> TRUE]]
    IN  [pages |-> WithinBudget(pages),
         truncated |-> Len(document) > MaxPages \/ Truncated(pages)]

HasTextLayer(text) == \E i \in DOMAIN text.pages : text.pages[i].marks # <<>>

\* _page_images: the pages that have an image, of the first OCR_MAX_PAGES.
PageImages(document) ==
    SetToSortSeq({i \in 1..Min({Len(document), OcrMaxPages}) : IsImage(document[i])}, LAMBDA a, b : a < b)

\* ocr_document: the workers read the images in any order until the time is up;
\* pages that were not reached are missing and keep their numbers.
OcrDocument(document, reached) ==
    LET images == PageImages(document)
        done == SelectSeq(images, LAMBDA i : i \in reached)
        pages == [k \in DOMAIN done |->
                    [number |-> done[k], marks |-> document[done[k]].image, lined |-> FALSE]]
        kept == WithinBudget(pages)
    IN  [pages |-> kept,
         truncated |-> images # <<>> /\ (Truncated(pages) \/ Len(document) > Len(kept))]

\* The texts an analysis may get of a document, with recognition or without.
Texts(document, ocr) ==
    IF ocr /\ ~ HasTextLayer(ExtractText(document))
    THEN {OcrDocument(document, reached) : reached \in SUBSET Range(PageImages(document))}
    ELSE {ExtractText(document)}

=============================================================================
