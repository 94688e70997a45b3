---- MODULE Readers ----
(* The converters of src/extraction/extractors.py and ocr.py as functions: a  *)
(* document is what they can tell apart, its text is the set of the parts of  *)
(* it that are read. What takes several steps is in module Extraction.        *)
EXTENDS Integers, Sequences, FiniteSets

CONSTANTS
  Contents,         \* the documents
  HasOcr,           \* an OcrEngine is configured
  MinChars,         \* MIN_NATIVE_CHARS_PER_PAGE
  MaxRenderPixels,  \* MAX_RENDER_PIXELS
  MaxImagePixels,   \* MAX_IMAGE_PIXELS
  MaxImages,        \* MAX_EMBEDDED_IMAGES_PER_DOCUMENT
  MaxMember, MaxTotal, MaxRatio  \* MAX_ZIP_MEMBER_BYTES, _TOTAL_BYTES, _COMPRESSION_RATIO

\* The extractors, by name, in the order in which they are asked.
Registered ==
  <<"plain_text", "html_text", "pdf_hybrid", "docx", "pptx", "xlsx", "xls", "odt", "ods">>
    \o IF HasOcr THEN <<"image_ocr">> ELSE <<>>

Names == {"plain_text", "html_text", "pdf_hybrid", "docx", "pptx", "xlsx", "xls", "odt", "ods",
          "image_ocr"}

\* A page of a PDF: the characters of its text layer, its size at the target
\* resolution. A member of an Office container: bytes, compressed bytes, the
\* pixels of a picture, whether it can be parsed or decoded. What an HTML parser
\* sees: script or style begins or ends, a text, an alternative text, a last
\* text that ends in an unfinished character reference.
Pages == [chars: Nat, width: Nat, height: Nat]
Members == [size: Nat, packed: Nat, pixels: Nat, readable: BOOLEAN]
Tokens == {"open", "close", "alt", "data", "tail"}

ASSUME ReadersAssumption ==
  /\ HasOcr \in BOOLEAN
  /\ {MinChars, MaxRenderPixels, MaxImagePixels, MaxImages, MaxMember, MaxTotal, MaxRatio}
       \subseteq Nat
  /\ \A c \in Contents :
       /\ c.declared \subseteq Names   \* the extractors whose supports() holds
       /\ c.parses \subseteq Names     \* those that its bytes are valid for
       /\ c.storable \in BOOLEAN       \* the database accepts its text
       /\ c.tokens \in Seq(Tokens)
       /\ c.pages \in Seq(Pages)
       /\ c.parts \in Seq(Members)    \* of a container: its slides, sheets or body
       /\ c.media \in Seq(Members)    \* and its pictures

\* html.parser, for which script and style are not markup inside: once one of
\* them begins, no tag is seen before it ends.
ASSUME TokensAssumption ==
  \A c \in Contents : \A i, j \in DOMAIN c.tokens :
    i < j /\ c.tokens[i] = "open" /\ c.tokens[j] = "open" =>
      \E k \in i + 1..j - 1 : c.tokens[k] = "close"

-----------------------------------------------------------------------------

\* The first extractor that supports the declared type or the extension.
Selected(c) ==
  LET fits == {i \in DOMAIN Registered : Registered[i] \in c.declared} IN
  IF fits = {} THEN "unsupported" ELSE Registered[CHOOSE i \in fits : \A j \in fits : i <= j]

\* The k-th of the pages' numbers of characters, in increasing order.
Ranked(pages, k) ==
  CHOOSE m \in {pages[i].chars : i \in DOMAIN pages} :
    /\ Cardinality({i \in DOMAIN pages : pages[i].chars < m}) < k
    /\ Cardinality({i \in DOMAIN pages : pages[i].chars <= m}) >= k

Sufficient_Lower(pages) ==
  pages # <<>> /\ Ranked(pages, (Len(pages) + 1) \div 2) >= MinChars

\* is_native_text_sufficient(): the median page, the upper one of two.
Sufficient(pages) ==
  pages # <<>> /\ Ranked(pages, Len(pages) \div 2 + 1) >= MinChars

SkipDepth_Unguarded(tokens) ==
  [n \in 0..Len(tokens) |-> Cardinality({i \in 1..n : tokens[i] = "open"})
                             - Cardinality({i \in 1..n : tokens[i] = "close"})]

\* _VisibleTextHTMLParser: what is open after the first n tokens.
SkipDepth(tokens) ==
  LET depth[n \in 0..Len(tokens)] ==
        IF n = 0 THEN 0
        ELSE LET before == depth[n - 1] IN
               IF tokens[n] = "open" THEN before + 1
               ELSE IF tokens[n] = "close" /\ before > 0 THEN before - 1 ELSE before
  IN depth

\* The texts outside script and style. The parser keeps an unfinished tail to
\* itself, since nobody closes it.
Visible(tokens) ==
  {i \in DOMAIN tokens : tokens[i] \in {"alt", "data"} /\ SkipDepth(tokens)[i] = 0}

Unsafe_OneByOne(member, total) ==
  \/ member.size > MaxMember
  \/ member.packed > 0 /\ member.size > MaxRatio * member.packed

\* _unsafe_zip_member(), of a member after others of so many bytes.
Unsafe(member, total) ==
  \/ member.size > MaxMember
  \/ member.packed > 0 /\ member.size > MaxRatio * member.packed
  \/ total + member.size > MaxTotal

\* The bytes of those of the first n members that were not skipped.
TotalBytes(members) ==
  LET total[n \in 0..Len(members)] ==
        IF n = 0 THEN 0
        ELSE LET before == total[n - 1] IN
               IF Unsafe(members[n], before) THEN before ELSE before + members[n].size
  IN total

Skipped(members, i) == Unsafe(members[i], TotalBytes(members)[i - 1])

\* extract_ooxml_slide_text(): the slides that may and can be read.
SlidesRead(slides) == {i \in DOMAIN slides : ~Skipped(slides, i) /\ slides[i].readable}

\* The extractors that hand the container to a library as it is. Nothing of
\* this code limits what that unpacks, which is at least the parts with the text.
Libraries == {"docx", "xlsx", "odt", "ods"}

\* _render_scale() and the rasteriser: a page over the limit is scaled to it
\* exactly, and each side of the bitmap is rounded up to whole pixels: the least
\* k with k >= side * sqrt(limit / pixels).
RenderedSide(side, other) ==
  IF side * other <= MaxRenderPixels THEN side
  ELSE CHOOSE k \in 0..side :
         /\ k * k * other >= MaxRenderPixels * side
         /\ \A j \in 0..k - 1 : j * j * other < MaxRenderPixels * side

\* The pixels of the bitmap of a page.
Rendered(page) ==
  RenderedSide(page.width, page.height) * RenderedSide(page.height, page.width)

\* deskew(): a picture over the limit is refused.
TooManyPixels(pixels) == pixels > MaxImagePixels

\* The first images of a document, no more than the limit.
Considered(media) == IF Len(media) > MaxImages THEN MaxImages ELSE Len(media)

\* ocr_embedded_images(): what becomes of the images in the order of their
\* names, while the engine fails on some; and whether the rest is left out.
Embedded(media, broken) ==
  [statuses |-> [i \in 1..Considered(media) |->
     IF Skipped(media, i) THEN "skipped"
     ELSE IF ~media[i].readable \/ TooManyPixels(media[i].pixels) \/ i \in broken THEN "failed"
     ELSE "done"],
   truncated |-> Len(media) > MaxImages]

\* What is unpacked of a container that is read by this extractor, pass by pass.
\* Each of the guarded passes, over slides and over images, counts from zero.
Unpacked(c, by) ==
  [library |-> IF by \in Libraries THEN DOMAIN c.parts ELSE {},
   slides |-> IF by = "pptx" THEN {i \in DOMAIN c.parts : ~Skipped(c.parts, i)} ELSE {},
   images |-> IF by \in {"docx", "pptx"} /\ HasOcr
              THEN {i \in 1..Considered(c.media) : ~Skipped(c.media, i)} ELSE {}]
====
