---- MODULE Extraction ----
(* The extraction job of src/extraction: it turns the latest version of every *)
(* stored document into text, a few documents per run, and keeps every        *)
(* attempt as a row of its own. A failed attempt is repeated a bounded number *)
(* of times; a stop in the middle of a scanned book records nothing. The      *)
(* ingestion adds versions between two runs, in the same thread.              *)
EXTENDS Readers

CONSTANTS
  Docs,       \* resources
  MaxFailed,  \* MAX_FAILED_ATTEMPTS
  MaxItems,   \* max_items of the budget
  Null,
  MaxVersions, MaxStops  \* bounds: versions; runs that end early

ASSUME ExtractionAssumption ==
  /\ MaxFailed \in Nat \ {0} /\ MaxItems \in Nat \ {0}
  /\ Null \notin Nat

ASSUME BoundAssumption == MaxVersions \in Nat /\ MaxStops \in Nat

VARIABLES
  versions,   \* resource_versions, by id
  rows,       \* extracted_documents of each version, oldest first
  pc,         \* where the run is; "idle" between runs
  todo,       \* pending versions of the run not yet attempted
  done,       \* attempted
  cur,        \* the version being extracted
  at,         \* the page to be recognised next
  out,        \* the row to be inserted
  stopping,   \* should_stop()
  stops       \* runs that ended early so far

run == <<todo, done, cur, at, out>>
vars == <<versions, rows, pc, run, stopping, stops>>

-----------------------------------------------------------------------------
(* Values *)

\* extractor_name and error_reason of a failed attempt.
Reasons == {"none", "storage", "unsupported", "parse", "pixels", "engine", "unstorable"}
Images == [statuses: Seq({"skipped", "failed", "done"}), truncated: BOOLEAN]
NoImages == [statuses |-> <<>>, truncated |-> FALSE]

Passes == [library: SUBSET Nat, slides: SUBSET Nat, images: SUBSET Nat]
NoPasses == [library |-> {}, slides |-> {}, images |-> {}]

Content(v) == versions[v].content
By(v) == Selected(Content(v))

\* An ExtractedDocument: its text is the set of the parts that were read. What
\* a successful attempt unpacked on the way is not stored, only observed here.
Rows == [status: {"done", "failed"}, reason: Reasons, ocr: BOOLEAN,
         read: SUBSET Nat, images: Images, unpacked: Passes]

Done(parts, ocr, images) ==
  [status |-> "done", reason |-> "none", ocr |-> ocr, read |-> parts, images |-> images,
   unpacked |-> Unpacked(Content(cur), By(cur))]

Failed(reason) ==
  [status |-> "failed", reason |-> reason, ocr |-> FALSE, read |-> {}, images |-> NoImages,
   unpacked |-> NoPasses]

-----------------------------------------------------------------------------
(* Pending work *)

Current(v) == \A w \in DOMAIN versions : versions[w].doc = versions[v].doc => w <= v

Failures(v) == Cardinality({i \in DOMAIN rows[v] : rows[v][i].status = "failed"})

\* A successful attempt, or an explicit "unsupported".
Settled(v) ==
  \E i \in DOMAIN rows[v] : rows[v][i].status = "done" \/ rows[v][i].reason = "unsupported"

Pending_AnyVersion(v) == ~Settled(v) /\ Failures(v) < MaxFailed

Pending_OneMore(v) == Current(v) /\ ~Settled(v) /\ Failures(v) <= MaxFailed

\* get_pending_version_ids()
Pending(v) == Current(v) /\ ~Settled(v) /\ Failures(v) < MaxFailed

\* list_abandoned_versions(): what --status reports as given up.
Abandoned(v) == Current(v) /\ ~Settled(v) /\ Failures(v) >= MaxFailed

\* Never attempted versions first, then by id.
Precedes(v, w) == Failures(v) < Failures(w) \/ (Failures(v) = Failures(w) /\ v < w)

-----------------------------------------------------------------------------

Init ==
  /\ versions = <<>> /\ rows = <<>>
  /\ pc = "idle"
  /\ todo = {} /\ done = 0 /\ cur = Null /\ at = 0 /\ out = Null
  /\ stopping = FALSE /\ stops = 0

\* The ingestion stores a version of a document, new or changed.
Arrive(d, c) ==
  /\ pc = "idle" /\ Len(versions) < MaxVersions
  /\ versions' = Append(versions, [doc |-> d, content |-> c])
  /\ rows' = Append(rows, <<>>)
  /\ UNCHANGED <<pc, run, stopping, stops>>

\* A run is queued once has_work() finds something pending.
BeginRun ==
  /\ pc = "idle" /\ \E v \in DOMAIN versions : Pending(v)
  /\ todo' = {v \in DOMAIN versions : Pending(v)}
  /\ pc' = "next"
  /\ UNCHANGED <<versions, rows, done, cur, at, out, stopping, stops>>

WithinBudget_OneMore == done <= MaxItems

WithinBudget == done < MaxItems

\* extract_pending(): the next version, while the budget lasts.
Take(v) ==
  /\ pc = "next" /\ WithinBudget /\ ~stopping
  /\ v \in todo /\ \A w \in todo : ~Precedes(w, v)
  /\ todo' = todo \ {v}
  /\ done' = done + 1
  /\ cur' = v
  /\ pc' = "convert"
  /\ UNCHANGED <<versions, rows, at, out, stopping, stops>>

\* The attempt is over, with this row to be inserted.
Attempted(row) == pc' = "insert" /\ out' = row /\ UNCHANGED <<todo, done, cur>>

\* The stored file cannot be read, this time.
StorageFails ==
  /\ pc = "convert"
  /\ Attempted(Failed("storage"))
  /\ UNCHANGED <<versions, rows, at, stopping, stops>>

Unsupported ==
  /\ pc = "convert" /\ By(cur) = "unsupported"
  /\ Attempted(Failed("unsupported"))
  /\ UNCHANGED <<versions, rows, at, stopping, stops>>

\* The bytes are not what the declared type says.
Unparsable ==
  /\ pc = "convert" /\ By(cur) # "unsupported" /\ By(cur) \notin Content(cur).parses
  /\ Attempted(Failed("parse"))
  /\ UNCHANGED <<versions, rows, at, stopping, stops>>

Parsed == pc = "convert" /\ By(cur) \in Content(cur).parses

\* PlainTextExtractor
ReadText ==
  /\ Parsed /\ By(cur) = "plain_text"
  /\ Attempted(Done({1}, FALSE, NoImages))
  /\ UNCHANGED <<versions, rows, at, stopping, stops>>

\* HtmlExtractor
ReadHtml ==
  /\ Parsed /\ By(cur) = "html_text"
  /\ Attempted(Done(Visible(Content(cur).tokens), FALSE, NoImages))
  /\ UNCHANGED <<versions, rows, at, stopping, stops>>

\* XlsxExtractor, XlsExtractor, OdtExtractor, OdsExtractor: all of it, by a library.
ReadSheet ==
  /\ Parsed /\ By(cur) \in {"xlsx", "xls", "odt", "ods"}
  /\ Attempted(Done({1}, FALSE, NoImages))
  /\ UNCHANGED <<versions, rows, at, stopping, stops>>

\* PdfExtractor: the text layer, or nothing when it is poor and there is no engine.
ReadNative ==
  /\ Parsed /\ By(cur) = "pdf_hybrid" /\ (Sufficient(Content(cur).pages) \/ ~HasOcr)
  /\ LET parts == IF Sufficient(Content(cur).pages) THEN DOMAIN Content(cur).pages ELSE {} IN
       Attempted(Done(parts, FALSE, NoImages))
  /\ UNCHANGED <<versions, rows, at, stopping, stops>>

BeginOcr ==
  /\ Parsed /\ By(cur) = "pdf_hybrid" /\ ~Sufficient(Content(cur).pages) /\ HasOcr
  /\ pc' = "page" /\ at' = 1
  /\ UNCHANGED <<versions, rows, todo, done, cur, out, stopping, stops>>

\* DocxExtractor, by a library, and PptxExtractor: the text, then the embedded
\* images; one that fails is passed over.
ReadOffice ==
  /\ Parsed /\ By(cur) \in {"docx", "pptx"}
  /\ LET parts == IF By(cur) = "pptx" THEN SlidesRead(Content(cur).parts) ELSE {1}
         media == Content(cur).media IN
       \E broken \in SUBSET DOMAIN media :
         Attempted(Done(parts, FALSE, IF HasOcr THEN Embedded(media, broken) ELSE NoImages))
  /\ UNCHANGED <<versions, rows, at, stopping, stops>>

\* ImageExtractor: the document is the picture.
ReadPicture ==
  /\ Parsed /\ By(cur) = "image_ocr"
  /\ LET picture == Content(cur).media[1] IN
     \/ TooManyPixels(picture.pixels) /\ Attempted(Failed("pixels"))
     \/ ~TooManyPixels(picture.pixels) /\ Attempted(Failed("engine"))
     \/ /\ ~TooManyPixels(picture.pixels) /\ picture.readable
        /\ Attempted(Done({1}, TRUE, NoImages))
  /\ UNCHANGED <<versions, rows, at, stopping, stops>>

OnPage == pc = "page" /\ at <= Len(Content(cur).pages) /\ ~stopping

\* A page is rendered, straightened and recognised.
Recognise ==
  /\ OnPage /\ ~TooManyPixels(Rendered(Content(cur).pages[at]))
  /\ at' = at + 1
  /\ UNCHANGED <<versions, rows, pc, todo, done, cur, out, stopping, stops>>

PageRefused ==
  /\ OnPage /\ TooManyPixels(Rendered(Content(cur).pages[at]))
  /\ Attempted(Failed("pixels"))
  /\ at' = 0
  /\ UNCHANGED <<versions, rows, stopping, stops>>

\* The engine, or the download of its model, fails.
EngineFails ==
  /\ OnPage /\ ~TooManyPixels(Rendered(Content(cur).pages[at]))
  /\ Attempted(Failed("engine"))
  /\ at' = 0
  /\ UNCHANGED <<versions, rows, stopping, stops>>

PagesOver ==
  /\ pc = "page" /\ at > Len(Content(cur).pages)
  /\ Attempted(Done(1..at - 1, TRUE, NoImages))
  /\ at' = 0
  /\ UNCHANGED <<versions, rows, stopping, stops>>

\* The job returns, or its process ends: a stop is only for this process.
RunOver ==
  /\ pc' = "idle" /\ todo' = {} /\ done' = 0 /\ cur' = Null /\ at' = 0 /\ out' = Null
  /\ stopping' = FALSE

PageInterrupted_KeepsPages ==
  /\ pc = "page" /\ at <= Len(Content(cur).pages) /\ stopping
  /\ Attempted(Done(1..at - 1, TRUE, NoImages))
  /\ at' = 0
  /\ UNCHANGED <<versions, rows, stopping, stops>>

\* ExtractionInterrupted: nothing is recorded, the batch ends.
PageInterrupted ==
  /\ pc = "page" /\ at <= Len(Content(cur).pages) /\ stopping
  /\ RunOver
  /\ UNCHANGED <<versions, rows, stops>>

Storable_Always == Content(cur).storable

Storable == out.status = "failed" \/ Content(cur).storable

\* insert_extracted_document()
Insert ==
  /\ pc = "insert" /\ Storable
  /\ rows' = [rows EXCEPT ![cur] = Append(@, out)]
  /\ pc' = "next" /\ cur' = Null /\ out' = Null
  /\ UNCHANGED <<versions, todo, done, at, stopping, stops>>

Unstorable_Skips ==
  /\ pc = "insert" /\ ~Storable
  /\ pc' = "next" /\ cur' = Null /\ out' = Null
  /\ UNCHANGED <<versions, rows, todo, done, at, stopping, stops>>

\* The row is refused: the attempt becomes a failed one.
Unstorable ==
  /\ pc = "insert" /\ ~Storable
  /\ Attempted(Failed("unstorable"))
  /\ UNCHANGED <<versions, rows, at, stopping, stops>>

\* All attempted, out of budget or told to stop.
EndRun ==
  /\ pc = "next" /\ (todo = {} \/ done > 0 \/ stopping)
  /\ RunOver
  /\ UNCHANGED <<versions, rows, stops>>

Stop ==
  /\ pc # "idle" /\ ~stopping /\ stops < MaxStops
  /\ stopping' = TRUE
  /\ stops' = stops + 1
  /\ UNCHANGED <<versions, rows, pc, run>>

\* The process ends, or an OperationalError of the database ends the run.
Cut ==
  /\ pc # "idle" /\ stops < MaxStops
  /\ RunOver
  /\ stops' = stops + 1
  /\ UNCHANGED <<versions, rows>>

-----------------------------------------------------------------------------

Convert ==
  \/ StorageFails \/ Unsupported \/ Unparsable
  \/ ReadText \/ ReadHtml \/ ReadSheet \/ ReadNative \/ ReadOffice \/ ReadPicture
  \/ BeginOcr \/ Recognise \/ PageRefused \/ EngineFails \/ PagesOver \/ PageInterrupted

\* What the job does on its own; cycles keep coming on the clock.
Job ==
  \/ BeginRun
  \/ \E v \in DOMAIN versions : Take(v)
  \/ Convert \/ Insert \/ Unstorable
  \/ EndRun

Next ==
  \/ \E d \in Docs, c \in Contents : Arrive(d, c)
  \/ Job
  \/ Stop
  \/ Cut

Spec == Init /\ [][Next]_vars

FairSpec == Spec /\ WF_vars(Job)
-----------------------------------------------------------------------------
(* Properties *)

\* Every variable stays in its set; in particular a run never attempts more
\* documents than its budget.
TypeOK ==
  /\ versions \in Seq([doc: Docs, content: Contents])
  /\ rows \in [DOMAIN versions -> Seq(Rows)]
  /\ pc \in {"idle", "next", "convert", "page", "insert"}
  /\ todo \subseteq DOMAIN versions /\ done \in 0..MaxItems
  /\ cur \in DOMAIN versions \cup {Null}
  /\ at \in Nat /\ out \in Rows \cup {Null}
  /\ stopping \in BOOLEAN /\ stops \in Nat

\* What is complete about a successful row of this content.
Whole(row, c) ==
  /\ Selected(c) = "pdf_hybrid" =>
       row.read = DOMAIN c.pages \/ (row.read = {} /\ ~row.ocr /\ ~HasOcr)
  /\ Selected(c) \in {"docx", "pptx"} /\ HasOcr =>
       /\ Len(row.images.statuses) = Considered(c.media)
       /\ row.images.truncated <=> Len(c.media) > Considered(c.media)

\* A document that counts as read is read to its end: every page of it, by the
\* text layer or by recognition, unless there is no engine and the row says so;
\* and a word on every embedded image. A stop or the end of the process in the
\* middle of a book never leaves a partial text "silently truncated forever".
DoneIsWhole ==
  \A v \in DOMAIN rows : \A i \in DOMAIN rows[v] :
    rows[v][i].status = "done" => Whole(rows[v][i], Content(v))

\* A PDF is recognised, rather than taken at its text layer, exactly when most
\* of its pages have too little text of their own: some typed pages do not mask
\* a scan, and some pictures do not make one.
ScansRecognised ==
  \A v \in DOMAIN rows : \A i \in DOMAIN rows[v] :
    LET pages == Content(v).pages
        typed == {k \in DOMAIN pages : pages[k].chars >= MinChars}
    IN rows[v][i].status = "done" /\ By(v) = "pdf_hybrid" /\ pages # <<>> =>
         (rows[v][i].ocr <=> HasOcr /\ 2 * Cardinality(typed) < Len(pages))

\* The text of a page is what a browser shows of it, with the descriptions of
\* its pictures: a text is left out exactly when the last script or style tag
\* before it opens. (The tail that the parser keeps to itself aside.)
VisibleTextOnly ==
  \A v \in DOMAIN rows : \A i \in DOMAIN rows[v] :
    LET t == Content(v).tokens
        Hidden(k) == \E j \in 1..k - 1 :
          t[j] = "open" /\ \A l \in j + 1..k - 1 : t[l] # "close"
    IN rows[v][i].status = "done" /\ By(v) = "html_text" =>
         rows[v][i].read = {k \in DOMAIN t : t[k] \in {"alt", "data"} /\ ~Hidden(k)}

\* The bytes of those of the first n members that are chosen.
SizesOf(members, chosen) ==
  LET sum[n \in 0..Len(members)] ==
        IF n = 0 THEN 0 ELSE sum[n - 1] + (IF n \in chosen THEN members[n].size ELSE 0)
  IN sum

\* A guarded pass over a container, over its slides or over its images, keeps
\* to the limits whatever the members declare: it unpacks none that is too large
\* or expands too much, nor too many bytes together, and what the row says was
\* read or looked at is only what it unpacked. It is a promise of each pass,
\* not of the document, and none of the libraries.
PassesBounded ==
  \A v \in DOMAIN rows : \A i \in DOMAIN rows[v] :
    LET row == rows[v][i]
        statuses == row.images.statuses
        Bounded(members, chosen) ==
          /\ SizesOf(members, chosen)[Len(members)] <= MaxTotal
          /\ \A k \in chosen : /\ members[k].size <= MaxMember
                               /\ members[k].size <= MaxRatio * members[k].packed
                                    \/ members[k].packed = 0
    IN row.status = "done" =>
         /\ Bounded(Content(v).parts, row.unpacked.slides)
         /\ Bounded(Content(v).media, row.unpacked.images)
         /\ By(v) = "pptx" => row.read \subseteq row.unpacked.slides
         /\ {k \in DOMAIN statuses : statuses[k] # "skipped"} \subseteq row.unpacked.images

\* "The running total per document": whatever is unpacked to read one document
\* stays within it, all passes together.
DocumentWithinTotal ==
  \A v \in DOMAIN rows : \A i \in DOMAIN rows[v] :
    LET parts == Content(v).parts
        media == Content(v).media
        unpacked == rows[v][i].unpacked
    IN SizesOf(parts, unpacked.library)[Len(parts)]
         + SizesOf(parts, unpacked.slides)[Len(parts)]
         + SizesOf(media, unpacked.images)[Len(media)] <= MaxTotal

\* "Bounded automatic retry": a version has at most MaxFailed failed attempts
\* and none after it was read or found unsupported, whatever fails and
\* whichever runs are cut short.
AttemptsEnd ==
  \A v \in DOMAIN rows :
    /\ Failures(v) <= MaxFailed
    /\ \A i \in DOMAIN rows[v] :
         rows[v][i].status = "done" \/ rows[v][i].reason = "unsupported" => i = Len(rows[v])

\* The audit trail only grows, by one attempt at a time, and only at a version
\* that was pending when the run began: a historical one never gets a row.
AuditTrail ==
  [][\A v \in DOMAIN rows :
       rows'[v] = rows[v] \/ (Current(v) /\ ~Settled(v) /\ rows'[v] = Append(rows[v], out))]_vars

\* How many steps the version in hand takes at most, before the next one.
Left ==
  CASE pc = "convert" -> Len(Content(cur).pages) + 4
    [] pc = "page" -> Len(Content(cur).pages) + 4 - at
    [] pc = "insert" -> IF out.status = "done" THEN 2 ELSE 1
    [] OTHER -> 0

\* A run comes to an end by itself: a step of it attempts one more version, of
\* which a budget has so many, or brings the row of the one in hand nearer. In
\* particular a row that is refused is not offered again and again.
RunAdvances ==
  [][pc # "idle" /\ pc' # "idle" /\ stopping' = stopping =>
       done' > done \/ (done' = done /\ 0 <= Left' /\ Left' < Left)]_vars

\* No version is quietly left out: it is read or found unsupported, or it is
\* reported as abandoned, unless a newer version takes its place first. Cycles
\* keep coming, and only so many runs end early.
EventuallySettled ==
  \A v \in 1..MaxVersions :
    v \in DOMAIN versions ~>
      v \in DOMAIN versions /\ (~Current(v) \/ Settled(v) \/ Abandoned(v))

\* "Above this limit the page is rendered at a lower resolution instead of
\* failing, so the document still gets processed": no attempt at a PDF fails
\* because a page has too many pixels.
BigPagesRead ==
  \A v \in DOMAIN rows : \A i \in DOMAIN rows[v] :
    By(v) = "pdf_hybrid" => rows[v][i].reason # "pixels"
====
