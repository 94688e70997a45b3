---- MODULE MCExtraction ----
(* Small instances of Extraction for TLC: sizes are in units that make every  *)
(* limit of the converters reachable from both sides.                         *)
EXTENDS Extraction

CONSTANTS d1, d2

TwoDocs == {d1, d2}
OneDoc == {d1}

Doc(by) ==
  [declared |-> {by}, parses |-> {by}, storable |-> TRUE, tokens |-> <<>>, pages |-> <<>>,
   parts |-> <<>>, media |-> <<>>]

Page(chars, width, height) == [chars |-> chars, width |-> width, height |-> height]
Member(size, packed, pixels, readable) ==
  [size |-> size, packed |-> packed, pixels |-> pixels, readable |-> readable]

Web == [Doc("html_text") EXCEPT !.tokens =
          <<"close", "data", "open", "data", "close", "alt", "open", "close", "data", "tail">>]
Surrogates == [Doc("plain_text") EXCEPT !.storable = FALSE]
Broken == [Doc("xlsx") EXCEPT !.parses = {}]
Marks == [Doc("ods") EXCEPT !.parts = <<Member(8, 1, 0, TRUE), Member(7, 1, 0, TRUE)>>]
Unknown == [Doc("zip") EXCEPT !.declared = {}, !.parses = {}]

\* A paper with a cover that is a picture, a scan with a typed title page, a
\* drawing that has to be scaled down, and one that still is too large then.
Paper == [Doc("pdf_hybrid") EXCEPT !.pages = <<Page(0, 5, 8), Page(60, 5, 8)>>]
Scan == [Doc("pdf_hybrid") EXCEPT !.pages = <<Page(60, 5, 8), Page(0, 5, 8), Page(9, 10, 20)>>]
Drawing == [Doc("pdf_hybrid") EXCEPT !.pages = <<Page(0, 10, 10)>>]

\* Images: good, expanding too much, unreadable, beyond the total, one too many.
Letter == [Doc("docx") EXCEPT !.parts = <<Member(8, 1, 0, TRUE)>>, !.media =
             <<Member(4, 2, 40, TRUE), Member(4, 1, 40, TRUE), Member(3, 2, 99, TRUE),
               Member(5, 4, 40, TRUE), Member(1, 0, 40, TRUE)>>]
Talk == [Doc("pptx") EXCEPT !.parts =
           <<Member(6, 6, 0, TRUE), Member(4, 4, 0, FALSE), Member(5, 4, 0, TRUE)>>]
Photo == [Doc("image_ocr") EXCEPT !.media = <<Member(1, 1, 40, TRUE)>>]
Poster == [Doc("image_ocr") EXCEPT !.media = <<Member(1, 1, 99, TRUE)>>]

AllContents ==
  {Web, Surrogates, Broken, Marks, Unknown, Paper, Scan, Drawing, Letter, Talk, Photo, Poster}
Books == {Scan, Drawing, Paper}

\* A presentation whose slides and whose pictures each stay within the total.
Album == [Doc("pptx") EXCEPT !.parts = <<Member(5, 4, 0, TRUE), Member(2, 1, 0, TRUE)>>,
                             !.media = <<Member(4, 4, 40, TRUE)>>]
Shows == {Album, Talk, Paper}
====
