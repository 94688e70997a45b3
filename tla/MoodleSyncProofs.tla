---- MODULE MoodleSyncProofs ----
(* What holds of MoodleSync for any courses, items, margins and bounds: the   *)
(* types, that the checkpoint hides no change, and that Ingestion is offered  *)
(* nothing but what the last contents sync of a course returned.              *)
EXTENDS MoodleSync, TLAPS

-----------------------------------------------------------------------------
(* The inductive invariant *)

Storing == {"modules", "files"}
Fetching == {"contents", "modules", "files", "marks"}
Running == {"detect"} \cup Fetching

\* How the variables of a run hang together.
RunOK ==
  /\ step # "idle" => startedAt >= Overlap
  /\ checkpoint # Null => checkpoint >= Overlap /\ checkpoint <= clock
  /\ checkpoint # Null /\ step # "idle" => checkpoint <= startedAt
  /\ step # "idle" => since = Null \/ (checkpoint # Null /\ since = Since(checkpoint))
  /\ step \notin Running => listed = {} /\ todo = {} /\ changed = {}
  /\ step \in Fetching => todo \subseteq changed
  /\ step \in Storing => course \in changed \ todo

\* Marked and fetched rows alone are tracked.
TrackedOK == \A d \in tracked : KindOf[d] \in Contents \cup {"mark"}

\* An item that changed since the run began; its stamp is later than what the
\* next run asks for.
Late(d) == stampedAt[d] > Since(startedAt)

\* What the run has still to fetch.
Awaited(d) ==
  \/ step = "detect" /\ CourseOf[d] \in todo \cup changed
  \/ KindOf[d] = "mark" /\ step \in {"contents", "modules", "files"} /\ CourseOf[d] \in changed
  \/ KindOf[d] = "mark" /\ step = "marks" /\ CourseOf[d] \in todo
  \/ KindOf[d] \in Contents /\ step \in {"contents", "modules", "files"} /\ CourseOf[d] \in todo
  \/ KindOf[d] \in Contents /\ step = "modules" /\ CourseOf[d] = course
  \/ KindOf[d] = "file" /\ step = "files" /\ CourseOf[d] = course

\* In a run, what lags is still to be fetched or changed after the run began.
KeptOK ==
  step \in Running => \A d \in tracked :
    CourseOf[d] \in listed /\ Lagging(d) => Awaited(d) \/ Late(d)

\* The answer being stored is the site's, but for what changed since.
AnswerOK ==
  /\ step \in Storing => \A d \in Of(Contents, {course}) :
       site[d] # 0 /\ answer[d] # site[d] => Late(d)
  /\ step = "files" => \A d \in LinkRows(course) : Lagging(d) => Late(d)

OfferOK ==
  /\ fresh \subseteq returned
  /\ step \in Storing => Returned(answer, Of(Contents, {course})) \subseteq returned

IInv == TypeOK /\ RunOK /\ TrackedOK /\ NoChangeLost /\ KeptOK /\ AnswerOK

-----------------------------------------------------------------------------
(* Operators *)

\* The checkpoint less the margin is a time, and grows with the checkpoint.
LEMMA SinceIsNat == \A t \in Nat : Since(t) \in Nat
  BY MoodleSyncAssumption DEF Since

LEMMA SinceGrows == \A s, t \in Nat : s <= t => Since(s) <= Since(t)
  BY MoodleSyncAssumption DEF Since

\* A change from now on has a stamp that a run begun by now asks for.
LEMMA MarginSuffices ==
  \A s, t \in Nat, lag \in 0 .. Behind :
    Overlap <= s /\ s <= t => t - lag > Since(s)
  BY MoodleSyncAssumption DEF Since

\* An upsert keeps editions editions.
LEMMA UpsertedType ==
  ASSUME copy \in [Items -> Editions], NEW seen \in [Items -> Editions], NEW D
  PROVE  Upserted(seen, D) \in [Items -> Editions]
  BY DEF Upserted

-----------------------------------------------------------------------------
(* Types *)

LEMMA TypeStep ==
  ASSUME TypeOK, RunOK, [Next]_vars
  PROVE  TypeOK'
<1>1. CASE Tick
  BY <1>1, MoodleSyncAssumption, MoodleSyncBounds DEF Tick, TypeOK, Steps, Editions, outside,
       rows, run, storing, observers
<1>2. ASSUME NEW d \in Items, Publish(d) PROVE TypeOK'
  BY <1>2, MoodleSyncAssumption, MoodleSyncBounds DEF Publish, Change, TypeOK, Steps, Editions,
       outside, rows, run, storing, observers
<1>3. ASSUME NEW d \in Items, Withdraw(d) PROVE TypeOK'
  BY <1>3, MoodleSyncAssumption, MoodleSyncBounds DEF Withdraw, Change, TypeOK, Steps, Editions,
       outside, rows, run, storing, observers
<1>4. ASSUME NEW c \in Courses, Enroll(c) PROVE TypeOK'
  BY <1>4, MoodleSyncAssumption, MoodleSyncBounds DEF Enroll, Change, Of, TypeOK, Steps, Editions,
       outside, rows, run, storing, observers
<1>5. ASSUME NEW c \in Courses, Leave(c) PROVE TypeOK'
  BY <1>5, MoodleSyncAssumption, MoodleSyncBounds DEF Leave, Change, Of, TypeOK, Steps, Editions,
       outside, rows, run, storing, observers
<1>6. ASSUME NEW startup \in BOOLEAN, Begin(startup) PROVE TypeOK'
  BY <1>6, MoodleSyncAssumption, MoodleSyncBounds, SinceIsNat DEF Begin, TypeOK, Steps, Editions,
       outside, rows, run, storing, observers
<1>7. CASE ListCourses
  BY <1>7, MoodleSyncAssumption, MoodleSyncBounds, UpsertedType DEF ListCourses, RunOK, Running,
       Fetching, Storing, TypeOK, Steps, Editions, outside, rows, run, storing, observers
<1>8. ASSUME NEW c \in Courses, TakeWhole(c) PROVE TypeOK'
  BY <1>8, MoodleSyncAssumption, MoodleSyncBounds DEF TakeWhole, Detected, TypeOK, Steps,
       Editions, outside, rows, run, storing, observers
<1>9. ASSUME NEW c \in Courses, AskUpdates(c) PROVE TypeOK'
  BY <1>9, MoodleSyncAssumption, MoodleSyncBounds DEF AskUpdates, Detected, TypeOK, Steps,
       Editions, outside, rows, run, storing, observers
<1>10. CASE FetchChanged
  BY <1>10, MoodleSyncAssumption, MoodleSyncBounds DEF FetchChanged, TypeOK, Steps, Editions,
       outside, rows, run, storing, observers
<1>11. ASSUME NEW c \in Courses, StoreSections(c) PROVE TypeOK'
  BY <1>11, MoodleSyncAssumption, MoodleSyncBounds DEF StoreSections, RunOK, Running, Fetching,
       Storing, Returned, Of, TypeOK, Steps, Editions, outside, rows, run, storing, observers
<1>12. CASE StoreModules
  BY <1>12, MoodleSyncAssumption, MoodleSyncBounds, UpsertedType DEF StoreModules, Returned, Of,
       LinkRows, TypeOK, Steps, Editions, outside, rows, run, storing, observers
<1>13. CASE StoreFiles
  BY <1>13, MoodleSyncAssumption, MoodleSyncBounds, UpsertedType DEF StoreFiles, Nothing,
       Returned, Of, FileRows, TypeOK, Steps, Editions, outside, rows, run, storing, observers
<1>14. CASE StoreTasks
  BY <1>14, MoodleSyncAssumption, MoodleSyncBounds, UpsertedType DEF StoreTasks, RunOK, Running,
       Fetching, Storing, TypeOK, Steps, Editions, outside, rows, run, storing, observers
<1>15. ASSUME NEW c \in Courses, StoreMarks(c) PROVE TypeOK'
  BY <1>15, MoodleSyncAssumption, MoodleSyncBounds, UpsertedType DEF StoreMarks, Of, MarkRows,
       TypeOK, Steps, Editions, outside, rows, run, storing, observers
<1>16. ASSUME NEW c \in Courses, RefuseMarks(c) PROVE TypeOK'
  BY <1>16, MoodleSyncAssumption, MoodleSyncBounds DEF RefuseMarks, TypeOK, Steps, Editions,
       outside, rows, run, storing, observers
<1>17. CASE Finish
  BY <1>17, MoodleSyncAssumption, MoodleSyncBounds, UpsertedType DEF Finish, Idle, Nothing,
       TypeOK, Steps, Editions, outside, rows, run, storing, observers
<1>18. CASE Refused
  BY <1>18, MoodleSyncAssumption, MoodleSyncBounds DEF Refused, Idle, Nothing, TypeOK, Steps,
       Editions, outside, rows, run, storing, observers
<1>19. CASE Fail
  BY <1>19, MoodleSyncAssumption, MoodleSyncBounds DEF Fail, Idle, Nothing, TypeOK, Steps,
       Editions, outside, rows, run, storing, observers
<1>20. CASE Purge
  BY <1>20, MoodleSyncAssumption, MoodleSyncBounds DEF Purge, Nothing, TypeOK, Steps, Editions,
       outside, rows, run, storing, observers
<1>21. CASE UNCHANGED vars
  BY <1>21, MoodleSyncAssumption, MoodleSyncBounds DEF vars, TypeOK, Steps, Editions, outside,
       rows, run, storing, observers
<1> QED BY <1>1, <1>2, <1>3, <1>4, <1>5, <1>6, <1>7, <1>8, <1>9, <1>10, <1>11, <1>12, <1>13, <1>14, <1>15, <1>16, <1>17, <1>18, <1>19, <1>20, <1>21 DEF Next, Moodle, Advance

LEMMA RunStep ==
  ASSUME TypeOK, RunOK, [Next]_vars
  PROVE  RunOK'
<1>1. CASE Tick
  BY <1>1, MoodleSyncAssumption, MoodleSyncBounds DEF Tick, TypeOK, RunOK, Running, Fetching,
       Storing, Since, outside, rows, run, storing, observers
<1>2. ASSUME NEW d \in Items, Publish(d) PROVE RunOK'
  BY <1>2, MoodleSyncAssumption, MoodleSyncBounds DEF Publish, Change, TypeOK, RunOK, Running,
       Fetching, Storing, Since, outside, rows, run, storing, observers
<1>3. ASSUME NEW d \in Items, Withdraw(d) PROVE RunOK'
  BY <1>3, MoodleSyncAssumption, MoodleSyncBounds DEF Withdraw, Change, TypeOK, RunOK, Running,
       Fetching, Storing, Since, outside, rows, run, storing, observers
<1>4. ASSUME NEW c \in Courses, Enroll(c) PROVE RunOK'
  BY <1>4, MoodleSyncAssumption, MoodleSyncBounds DEF Enroll, Change, TypeOK, RunOK, Running,
       Fetching, Storing, Since, outside, rows, run, storing, observers
<1>5. ASSUME NEW c \in Courses, Leave(c) PROVE RunOK'
  BY <1>5, MoodleSyncAssumption, MoodleSyncBounds DEF Leave, Change, TypeOK, RunOK, Running,
       Fetching, Storing, Since, outside, rows, run, storing, observers
<1>6. ASSUME NEW startup \in BOOLEAN, Begin(startup) PROVE RunOK'
  BY <1>6, MoodleSyncAssumption, MoodleSyncBounds DEF Begin, TypeOK, RunOK, Running, Fetching,
       Storing, Since, outside, rows, run, storing, observers
<1>7. CASE ListCourses
  BY <1>7, MoodleSyncAssumption, MoodleSyncBounds DEF ListCourses, TypeOK, RunOK, Running,
       Fetching, Storing, Since, outside, rows, run, storing, observers
<1>8. ASSUME NEW c \in Courses, TakeWhole(c) PROVE RunOK'
  BY <1>8, MoodleSyncAssumption, MoodleSyncBounds DEF TakeWhole, Detected, TypeOK, RunOK, Running,
       Fetching, Storing, Since, outside, rows, run, storing, observers
<1>9. ASSUME NEW c \in Courses, AskUpdates(c) PROVE RunOK'
  BY <1>9, MoodleSyncAssumption, MoodleSyncBounds DEF AskUpdates, Detected, TypeOK, RunOK,
       Running, Fetching, Storing, Since, outside, rows, run, storing, observers
<1>10. CASE FetchChanged
  BY <1>10, MoodleSyncAssumption, MoodleSyncBounds DEF FetchChanged, TypeOK, RunOK, Running,
       Fetching, Storing, Since, outside, rows, run, storing, observers
<1>11. ASSUME NEW c \in Courses, StoreSections(c) PROVE RunOK'
  BY <1>11, MoodleSyncAssumption, MoodleSyncBounds DEF StoreSections, TypeOK, RunOK, Running,
       Fetching, Storing, Since, outside, rows, run, storing, observers
<1>12. CASE StoreModules
  BY <1>12, MoodleSyncAssumption, MoodleSyncBounds DEF StoreModules, TypeOK, RunOK, Running,
       Fetching, Storing, Since, outside, rows, run, storing, observers
<1>13. CASE StoreFiles
  BY <1>13, MoodleSyncAssumption, MoodleSyncBounds DEF StoreFiles, TypeOK, RunOK, Running,
       Fetching, Storing, Since, outside, rows, run, storing, observers
<1>14. CASE StoreTasks
  BY <1>14, MoodleSyncAssumption, MoodleSyncBounds DEF StoreTasks, TypeOK, RunOK, Running,
       Fetching, Storing, Since, outside, rows, run, storing, observers
<1>15. ASSUME NEW c \in Courses, StoreMarks(c) PROVE RunOK'
  BY <1>15, MoodleSyncAssumption, MoodleSyncBounds DEF StoreMarks, TypeOK, RunOK, Running,
       Fetching, Storing, Since, outside, rows, run, storing, observers
<1>16. ASSUME NEW c \in Courses, RefuseMarks(c) PROVE RunOK'
  BY <1>16, MoodleSyncAssumption, MoodleSyncBounds DEF RefuseMarks, TypeOK, RunOK, Running,
       Fetching, Storing, Since, outside, rows, run, storing, observers
<1>17. CASE Finish
  BY <1>17, MoodleSyncAssumption, MoodleSyncBounds DEF Finish, Idle, TypeOK, RunOK, Running,
       Fetching, Storing, Since, outside, rows, run, storing, observers
<1>18. CASE Refused
  BY <1>18, MoodleSyncAssumption, MoodleSyncBounds DEF Refused, Idle, TypeOK, RunOK, Running,
       Fetching, Storing, Since, outside, rows, run, storing, observers
<1>19. CASE Fail
  BY <1>19, MoodleSyncAssumption, MoodleSyncBounds DEF Fail, Idle, TypeOK, RunOK, Running,
       Fetching, Storing, Since, outside, rows, run, storing, observers
<1>20. CASE Purge
  BY <1>20, MoodleSyncAssumption, MoodleSyncBounds DEF Purge, TypeOK, RunOK, Running, Fetching,
       Storing, Since, outside, rows, run, storing, observers
<1>21. CASE UNCHANGED vars
  BY <1>21, MoodleSyncAssumption, MoodleSyncBounds DEF vars, TypeOK, RunOK, Running, Fetching,
       Storing, Since, outside, rows, run, storing, observers
<1> QED BY <1>1, <1>2, <1>3, <1>4, <1>5, <1>6, <1>7, <1>8, <1>9, <1>10, <1>11, <1>12, <1>13, <1>14, <1>15, <1>16, <1>17, <1>18, <1>19, <1>20, <1>21 DEF Next, Moodle, Advance

LEMMA TrackedStep ==
  ASSUME TypeOK, TrackedOK, [Next]_vars
  PROVE  TrackedOK'
<1>1. CASE Tick
  BY <1>1, MoodleSyncAssumption DEF Tick, TypeOK, TrackedOK, Of, MarkRows, outside, rows, run,
       storing, observers
<1>2. ASSUME NEW d \in Items, Publish(d) PROVE TrackedOK'
  BY <1>2, MoodleSyncAssumption DEF Publish, Change, TypeOK, TrackedOK, Of, MarkRows, outside,
       rows, run, storing, observers
<1>3. ASSUME NEW d \in Items, Withdraw(d) PROVE TrackedOK'
  BY <1>3, MoodleSyncAssumption DEF Withdraw, Change, TypeOK, TrackedOK, Of, MarkRows, outside,
       rows, run, storing, observers
<1>4. ASSUME NEW c \in Courses, Enroll(c) PROVE TrackedOK'
  BY <1>4, MoodleSyncAssumption DEF Enroll, Change, TypeOK, TrackedOK, Of, MarkRows, outside,
       rows, run, storing, observers
<1>5. ASSUME NEW c \in Courses, Leave(c) PROVE TrackedOK'
  BY <1>5, MoodleSyncAssumption DEF Leave, Change, TypeOK, TrackedOK, Of, MarkRows, outside, rows,
       run, storing, observers
<1>6. ASSUME NEW startup \in BOOLEAN, Begin(startup) PROVE TrackedOK'
  BY <1>6, MoodleSyncAssumption DEF Begin, TypeOK, TrackedOK, Of, MarkRows, outside, rows, run,
       storing, observers
<1>7. CASE ListCourses
  BY <1>7, MoodleSyncAssumption DEF ListCourses, TypeOK, TrackedOK, Of, MarkRows, outside, rows,
       run, storing, observers
<1>8. ASSUME NEW c \in Courses, TakeWhole(c) PROVE TrackedOK'
  BY <1>8, MoodleSyncAssumption DEF TakeWhole, Detected, TypeOK, TrackedOK, Of, MarkRows, outside,
       rows, run, storing, observers
<1>9. ASSUME NEW c \in Courses, AskUpdates(c) PROVE TrackedOK'
  BY <1>9, MoodleSyncAssumption DEF AskUpdates, Detected, TypeOK, TrackedOK, Of, MarkRows,
       outside, rows, run, storing, observers
<1>10. CASE FetchChanged
  BY <1>10, MoodleSyncAssumption DEF FetchChanged, TypeOK, TrackedOK, Of, MarkRows, outside, rows,
       run, storing, observers
<1>11. ASSUME NEW c \in Courses, StoreSections(c) PROVE TrackedOK'
  BY <1>11, MoodleSyncAssumption DEF StoreSections, TypeOK, TrackedOK, Of, MarkRows, outside,
       rows, run, storing, observers
<1>12. CASE StoreModules
  BY <1>12, MoodleSyncAssumption DEF StoreModules, TypeOK, TrackedOK, Of, MarkRows, outside, rows,
       run, storing, observers
<1>13. CASE StoreFiles
  BY <1>13, MoodleSyncAssumption DEF StoreFiles, TypeOK, TrackedOK, Of, MarkRows, outside, rows,
       run, storing, observers
<1>14. CASE StoreTasks
  BY <1>14, MoodleSyncAssumption DEF StoreTasks, TypeOK, TrackedOK, Of, MarkRows, outside, rows,
       run, storing, observers
<1>15. ASSUME NEW c \in Courses, StoreMarks(c) PROVE TrackedOK'
  BY <1>15, MoodleSyncAssumption DEF StoreMarks, TypeOK, TrackedOK, Of, MarkRows, outside, rows,
       run, storing, observers
<1>16. ASSUME NEW c \in Courses, RefuseMarks(c) PROVE TrackedOK'
  BY <1>16, MoodleSyncAssumption DEF RefuseMarks, TypeOK, TrackedOK, Of, MarkRows, outside, rows,
       run, storing, observers
<1>17. CASE Finish
  BY <1>17, MoodleSyncAssumption DEF Finish, Idle, TypeOK, TrackedOK, Of, MarkRows, outside, rows,
       run, storing, observers
<1>18. CASE Refused
  BY <1>18, MoodleSyncAssumption DEF Refused, Idle, TypeOK, TrackedOK, Of, MarkRows, outside,
       rows, run, storing, observers
<1>19. CASE Fail
  BY <1>19, MoodleSyncAssumption DEF Fail, Idle, TypeOK, TrackedOK, Of, MarkRows, outside, rows,
       run, storing, observers
<1>20. CASE Purge
  BY <1>20, MoodleSyncAssumption DEF Purge, TypeOK, TrackedOK, Of, MarkRows, outside, rows, run,
       storing, observers
<1>21. CASE UNCHANGED vars
  BY <1>21, MoodleSyncAssumption DEF vars, TypeOK, TrackedOK, Of, MarkRows, outside, rows, run,
       storing, observers
<1> QED BY <1>1, <1>2, <1>3, <1>4, <1>5, <1>6, <1>7, <1>8, <1>9, <1>10, <1>11, <1>12, <1>13, <1>14, <1>15, <1>16, <1>17, <1>18, <1>19, <1>20, <1>21 DEF Next, Moodle, Advance

LEMMA OfferStep ==
  ASSUME TypeOK, OfferOK, [Next]_vars
  PROVE  OfferOK'
<1>1. CASE Tick
  BY <1>1, MoodleSyncAssumption DEF Tick, TypeOK, OfferOK, Storing, Returned, Of, LinkRows,
       FileRows, Contents, outside, rows, run, storing, observers
<1>2. ASSUME NEW d \in Items, Publish(d) PROVE OfferOK'
  BY <1>2, MoodleSyncAssumption DEF Publish, Change, TypeOK, OfferOK, Storing, Returned, Of,
       LinkRows, FileRows, Contents, outside, rows, run, storing, observers
<1>3. ASSUME NEW d \in Items, Withdraw(d) PROVE OfferOK'
  BY <1>3, MoodleSyncAssumption DEF Withdraw, Change, TypeOK, OfferOK, Storing, Returned, Of,
       LinkRows, FileRows, Contents, outside, rows, run, storing, observers
<1>4. ASSUME NEW c \in Courses, Enroll(c) PROVE OfferOK'
  BY <1>4, MoodleSyncAssumption DEF Enroll, Change, TypeOK, OfferOK, Storing, Returned, Of,
       LinkRows, FileRows, Contents, outside, rows, run, storing, observers
<1>5. ASSUME NEW c \in Courses, Leave(c) PROVE OfferOK'
  BY <1>5, MoodleSyncAssumption DEF Leave, Change, TypeOK, OfferOK, Storing, Returned, Of,
       LinkRows, FileRows, Contents, outside, rows, run, storing, observers
<1>6. ASSUME NEW startup \in BOOLEAN, Begin(startup) PROVE OfferOK'
  BY <1>6, MoodleSyncAssumption DEF Begin, TypeOK, OfferOK, Storing, Returned, Of, LinkRows,
       FileRows, Contents, outside, rows, run, storing, observers
<1>7. CASE ListCourses
  BY <1>7, MoodleSyncAssumption DEF ListCourses, TypeOK, OfferOK, Storing, Returned, Of, LinkRows,
       FileRows, Contents, outside, rows, run, storing, observers
<1>8. ASSUME NEW c \in Courses, TakeWhole(c) PROVE OfferOK'
  BY <1>8, MoodleSyncAssumption DEF TakeWhole, Detected, TypeOK, OfferOK, Storing, Returned, Of,
       LinkRows, FileRows, Contents, outside, rows, run, storing, observers
<1>9. ASSUME NEW c \in Courses, AskUpdates(c) PROVE OfferOK'
  BY <1>9, MoodleSyncAssumption DEF AskUpdates, Detected, TypeOK, OfferOK, Storing, Returned, Of,
       LinkRows, FileRows, Contents, outside, rows, run, storing, observers
<1>10. CASE FetchChanged
  BY <1>10, MoodleSyncAssumption DEF FetchChanged, TypeOK, OfferOK, Storing, Returned, Of,
       LinkRows, FileRows, Contents, outside, rows, run, storing, observers
<1>11. ASSUME NEW c \in Courses, StoreSections(c) PROVE OfferOK'
  BY <1>11, MoodleSyncAssumption DEF StoreSections, TypeOK, OfferOK, Storing, Returned, Of,
       LinkRows, FileRows, Contents, outside, rows, run, storing, observers
<1>12. CASE StoreModules
  BY <1>12, MoodleSyncAssumption DEF StoreModules, TypeOK, OfferOK, Storing, Returned, Of,
       LinkRows, FileRows, Contents, outside, rows, run, storing, observers
<1>13. CASE StoreFiles
  BY <1>13, MoodleSyncAssumption DEF StoreFiles, TypeOK, OfferOK, Storing, Returned, Of, LinkRows,
       FileRows, Contents, outside, rows, run, storing, observers
<1>14. CASE StoreTasks
  BY <1>14, MoodleSyncAssumption DEF StoreTasks, TypeOK, OfferOK, Storing, Returned, Of, LinkRows,
       FileRows, Contents, outside, rows, run, storing, observers
<1>15. ASSUME NEW c \in Courses, StoreMarks(c) PROVE OfferOK'
  BY <1>15, MoodleSyncAssumption DEF StoreMarks, TypeOK, OfferOK, Storing, Returned, Of, LinkRows,
       FileRows, Contents, outside, rows, run, storing, observers
<1>16. ASSUME NEW c \in Courses, RefuseMarks(c) PROVE OfferOK'
  BY <1>16, MoodleSyncAssumption DEF RefuseMarks, TypeOK, OfferOK, Storing, Returned, Of,
       LinkRows, FileRows, Contents, outside, rows, run, storing, observers
<1>17. CASE Finish
  BY <1>17, MoodleSyncAssumption DEF Finish, Idle, TypeOK, OfferOK, Storing, Returned, Of,
       LinkRows, FileRows, Contents, outside, rows, run, storing, observers
<1>18. CASE Refused
  BY <1>18, MoodleSyncAssumption DEF Refused, Idle, TypeOK, OfferOK, Storing, Returned, Of,
       LinkRows, FileRows, Contents, outside, rows, run, storing, observers
<1>19. CASE Fail
  BY <1>19, MoodleSyncAssumption DEF Fail, Idle, TypeOK, OfferOK, Storing, Returned, Of, LinkRows,
       FileRows, Contents, outside, rows, run, storing, observers
<1>20. CASE Purge
  BY <1>20, MoodleSyncAssumption DEF Purge, TypeOK, OfferOK, Storing, Returned, Of, LinkRows,
       FileRows, Contents, outside, rows, run, storing, observers
<1>21. CASE UNCHANGED vars
  BY <1>21, MoodleSyncAssumption DEF vars, TypeOK, OfferOK, Storing, Returned, Of, LinkRows,
       FileRows, Contents, outside, rows, run, storing, observers
<1> QED BY <1>1, <1>2, <1>3, <1>4, <1>5, <1>6, <1>7, <1>8, <1>9, <1>10, <1>11, <1>12, <1>13, <1>14, <1>15, <1>16, <1>17, <1>18, <1>19, <1>20, <1>21 DEF Next, Moodle, Advance

-----------------------------------------------------------------------------
(* Nothing is lost *)

LEMMA LostStep ==
  ASSUME TypeOK, RunOK, TrackedOK, NoChangeLost, KeptOK, AnswerOK, [Next]_vars
  PROVE  NoChangeLost'
<1>1. CASE Tick
  BY <1>1, MoodleSyncAssumption DEF Tick, TypeOK, RunOK, TrackedOK, NoChangeLost, Lagging,
       HasContents, outside, rows, run, storing, observers
<1>2. ASSUME NEW d \in Items, Publish(d) PROVE NoChangeLost'
  <2>1. PICK lag \in 0 .. Behind : stampedAt' = [stampedAt EXCEPT ![d] = clock - lag]
    BY <1>2 DEF Publish
  <2>2. clock \in Nat /\ (checkpoint # Null => checkpoint \in Nat /\ Overlap <= checkpoint /\ checkpoint <= clock)
    BY MoodleSyncAssumption, MoodleSyncBounds DEF TypeOK, RunOK
  <2>3. checkpoint # Null => clock - lag > Since(checkpoint)
    BY <2>2, MarginSuffices
  <2>4. /\ site' \in [Items -> Int] /\ \A i \in Items : i # d => site'[i] = site[i]
        /\ stampedAt'[d] = clock - lag /\ \A i \in Items : i # d => stampedAt'[i] = stampedAt[i]
    BY <1>2, <2>1, MoodleSyncBounds DEF Publish, Change, TypeOK, Editions
  <2> QED BY <1>2, <2>3, <2>4, MoodleSyncAssumption DEF Publish, Change, Since, TypeOK, RunOK, TrackedOK, NoChangeLost, Lagging, HasContents, outside, rows, run, storing, observers
<1>3. ASSUME NEW d \in Items, Withdraw(d) PROVE NoChangeLost'
  BY <1>3, MoodleSyncAssumption DEF Withdraw, Change, TypeOK, RunOK, TrackedOK, NoChangeLost,
       Lagging, HasContents, outside, rows, run, storing, observers
<1>4. ASSUME NEW c \in Courses, Enroll(c) PROVE NoChangeLost'
  BY <1>4, MoodleSyncAssumption DEF Enroll, Change, TypeOK, RunOK, TrackedOK, NoChangeLost,
       Lagging, HasContents, outside, rows, run, storing, observers
<1>5. ASSUME NEW c \in Courses, Leave(c) PROVE NoChangeLost'
  BY <1>5, MoodleSyncAssumption DEF Leave, Change, TypeOK, RunOK, TrackedOK, NoChangeLost,
       Lagging, HasContents, outside, rows, run, storing, observers
<1>6. ASSUME NEW startup \in BOOLEAN, Begin(startup) PROVE NoChangeLost'
  BY <1>6, MoodleSyncAssumption DEF Begin, TypeOK, RunOK, TrackedOK, NoChangeLost, Lagging,
       HasContents, outside, rows, run, storing, observers
<1>7. CASE ListCourses
  BY <1>7, MoodleSyncAssumption DEF ListCourses, Upserted, CourseRows, Of, Contents, TypeOK,
       RunOK, TrackedOK, NoChangeLost, Lagging, HasContents, outside, rows, run, storing,
       observers
<1>8. ASSUME NEW c \in Courses, TakeWhole(c) PROVE NoChangeLost'
  BY <1>8, MoodleSyncAssumption DEF TakeWhole, Detected, TypeOK, RunOK, TrackedOK, NoChangeLost,
       Lagging, HasContents, outside, rows, run, storing, observers
<1>9. ASSUME NEW c \in Courses, AskUpdates(c) PROVE NoChangeLost'
  BY <1>9, MoodleSyncAssumption DEF AskUpdates, Detected, TypeOK, RunOK, TrackedOK, NoChangeLost,
       Lagging, HasContents, outside, rows, run, storing, observers
<1>10. CASE FetchChanged
  BY <1>10, MoodleSyncAssumption DEF FetchChanged, TypeOK, RunOK, TrackedOK, NoChangeLost,
       Lagging, HasContents, outside, rows, run, storing, observers
<1>11. ASSUME NEW c \in Courses, StoreSections(c) PROVE NoChangeLost'
  BY <1>11, MoodleSyncAssumption DEF StoreSections, Of, Kinds, TypeOK, RunOK, TrackedOK,
       NoChangeLost, Lagging, HasContents, outside, rows, run, storing, observers
<1>12. CASE StoreModules
  <2>1. checkpoint # Null => Since(checkpoint) <= Since(startedAt)
                             /\ Since(checkpoint) \in Nat /\ Since(startedAt) \in Nat
    BY <1>12, SinceGrows, SinceIsNat, MoodleSyncAssumption, MoodleSyncBounds DEF StoreModules,
         TypeOK, RunOK
  <2>2. ASSUME NEW d \in Of(Contents, {course}), Lagging(d)'
        PROVE  (Lagging(d) /\ (d \in tracked' => d \in tracked)) \/ stampedAt[d] > Since(startedAt)
    BY <1>12, <2>2 DEF StoreModules, Upserted, LinkRows, Of, Contents, AnswerOK, Late,
         Lagging, Storing, TypeOK, Editions, outside, rows, run, storing, observers
  <2>3. ASSUME NEW d \in tracked', d \notin Of(Contents, {course})
        PROVE  d \in tracked /\ copy'[d] = copy[d]
    BY <1>12, <2>3 DEF StoreModules, Upserted, LinkRows, Of, Contents, observers, TypeOK
  <2>4. /\ site' = site /\ stampedAt' = stampedAt /\ checkpoint' = checkpoint /\ sections' = sections
        /\ \A d \in Items : stampedAt[d] \in Int
    BY <1>12 DEF StoreModules, outside, TypeOK
  <2> QED BY <2>1, <2>2, <2>3, <2>4 DEF NoChangeLost, Lagging, HasContents, Since, Of, TypeOK
<1>13. CASE StoreFiles
  <2>1. checkpoint # Null => Since(checkpoint) <= Since(startedAt)
                             /\ Since(checkpoint) \in Nat /\ Since(startedAt) \in Nat
    BY <1>13, SinceGrows, SinceIsNat, MoodleSyncAssumption, MoodleSyncBounds DEF StoreFiles,
         TypeOK, RunOK
  <2>2. ASSUME NEW d \in Of(Contents, {course}), Lagging(d)'
        PROVE  (Lagging(d) /\ (d \in tracked' => d \in tracked)) \/ stampedAt[d] > Since(startedAt)
    BY <1>13, <2>2 DEF StoreFiles, Upserted, FileRows, LinkRows, Of, Contents, AnswerOK, Late,
         Lagging, Storing, TypeOK, Editions, outside, rows, run, storing, observers
  <2>3. ASSUME NEW d \in tracked', d \notin Of(Contents, {course})
        PROVE  d \in tracked /\ copy'[d] = copy[d]
    BY <1>13, <2>3 DEF StoreFiles, Upserted, FileRows, Of, Contents, observers, TypeOK
  <2>4. /\ site' = site /\ stampedAt' = stampedAt /\ checkpoint' = checkpoint /\ sections' = sections
        /\ \A d \in Items : stampedAt[d] \in Int
    BY <1>13 DEF StoreFiles, outside, TypeOK
  <2> QED BY <2>1, <2>2, <2>3, <2>4 DEF NoChangeLost, Lagging, HasContents, Since, Of, TypeOK
<1>14. CASE StoreTasks
  BY <1>14, MoodleSyncAssumption DEF StoreTasks, Upserted, TaskRows, Of, Contents, TypeOK, RunOK,
       TrackedOK, NoChangeLost, Lagging, HasContents, outside, rows, run, storing, observers
<1>15. ASSUME NEW c \in Courses, StoreMarks(c) PROVE NoChangeLost'
  BY <1>15, MoodleSyncAssumption DEF StoreMarks, Upserted, MarkRows, Of, TypeOK, RunOK, TrackedOK,
       NoChangeLost, Lagging, HasContents, outside, rows, run, storing, observers
<1>16. ASSUME NEW c \in Courses, RefuseMarks(c) PROVE NoChangeLost'
  BY <1>16, MoodleSyncAssumption DEF RefuseMarks, MarkRows, Of, TypeOK, RunOK, TrackedOK,
       NoChangeLost, Lagging, HasContents, outside, rows, run, storing, observers
<1>17. CASE Finish
  BY <1>17, MoodleSyncAssumption DEF Finish, Idle, Upserted, EventRows, Of, KeptOK, Awaited, Late,
       Contents, Editions, Running, Fetching, Storing, TypeOK, RunOK, TrackedOK, NoChangeLost,
       Lagging, HasContents, outside, rows, run, storing, observers
<1>18. CASE Refused
  BY <1>18, MoodleSyncAssumption DEF Refused, Idle, TypeOK, RunOK, TrackedOK, NoChangeLost,
       Lagging, HasContents, outside, rows, run, storing, observers
<1>19. CASE Fail
  BY <1>19, MoodleSyncAssumption DEF Fail, Idle, TypeOK, RunOK, TrackedOK, NoChangeLost, Lagging,
       HasContents, outside, rows, run, storing, observers
<1>20. CASE Purge
  BY <1>20, MoodleSyncAssumption DEF Purge, TypeOK, RunOK, TrackedOK, NoChangeLost, Lagging,
       HasContents, outside, rows, run, storing, observers
<1>21. CASE UNCHANGED vars
  BY <1>21, MoodleSyncAssumption DEF vars, TypeOK, RunOK, TrackedOK, NoChangeLost, Lagging,
       HasContents, outside, rows, run, storing, observers
<1> QED BY <1>1, <1>2, <1>3, <1>4, <1>5, <1>6, <1>7, <1>8, <1>9, <1>10, <1>11, <1>12, <1>13, <1>14, <1>15, <1>16, <1>17, <1>18, <1>19, <1>20, <1>21 DEF Next, Moodle, Advance

LEMMA KeptStep ==
  ASSUME TypeOK, RunOK, TrackedOK, NoChangeLost, KeptOK, AnswerOK, [Next]_vars
  PROVE  KeptOK'
<1>1. CASE Tick
  BY <1>1, MoodleSyncAssumption DEF Tick, KeptOK, Late, Awaited, Lagging, Contents, Running,
       Fetching, Storing, TypeOK, outside, rows, run, storing, observers
<1>2. ASSUME NEW d \in Items, Publish(d) PROVE KeptOK'
  <2>1. PICK lag \in 0 .. Behind : stampedAt' = [stampedAt EXCEPT ![d] = clock - lag]
    BY <1>2 DEF Publish
  <2>2. clock \in Nat /\ (step # "idle" => startedAt \in Nat /\ Overlap <= startedAt /\ startedAt <= clock)
    BY MoodleSyncAssumption, MoodleSyncBounds DEF TypeOK, RunOK
  <2>3. step # "idle" => clock - lag > Since(startedAt)
    BY <2>2, MarginSuffices
  <2>4. /\ site' \in [Items -> Int] /\ \A i \in Items : i # d => site'[i] = site[i]
        /\ stampedAt'[d] = clock - lag /\ \A i \in Items : i # d => stampedAt'[i] = stampedAt[i]
    BY <1>2, <2>1, MoodleSyncBounds DEF Publish, Change, TypeOK, Editions
  <2> QED BY <1>2, <2>3, <2>4, MoodleSyncAssumption DEF Publish, Change, Since, KeptOK, Late, Awaited, Lagging, Contents, Running, Fetching, Storing, TypeOK, outside, rows, run, storing, observers
<1>3. ASSUME NEW d \in Items, Withdraw(d) PROVE KeptOK'
  BY <1>3, MoodleSyncAssumption DEF Withdraw, Change, KeptOK, Late, Awaited, Lagging, Contents,
       Running, Fetching, Storing, TypeOK, outside, rows, run, storing, observers
<1>4. ASSUME NEW c \in Courses, Enroll(c) PROVE KeptOK'
  BY <1>4, MoodleSyncAssumption DEF Enroll, Change, KeptOK, Late, Awaited, Lagging, Contents,
       Running, Fetching, Storing, TypeOK, outside, rows, run, storing, observers
<1>5. ASSUME NEW c \in Courses, Leave(c) PROVE KeptOK'
  BY <1>5, MoodleSyncAssumption DEF Leave, Change, KeptOK, Late, Awaited, Lagging, Contents,
       Running, Fetching, Storing, TypeOK, outside, rows, run, storing, observers
<1>6. ASSUME NEW startup \in BOOLEAN, Begin(startup) PROVE KeptOK'
  BY <1>6, MoodleSyncAssumption DEF Begin, KeptOK, Late, Awaited, Lagging, Contents, Running,
       Fetching, Storing, TypeOK, outside, rows, run, storing, observers
<1>7. CASE ListCourses
  BY <1>7, MoodleSyncAssumption DEF ListCourses, RunOK, KeptOK, Late, Awaited, Lagging, Contents,
       Running, Fetching, Storing, TypeOK, outside, rows, run, storing, observers
<1>8. ASSUME NEW c \in Courses, TakeWhole(c) PROVE KeptOK'
  BY <1>8, MoodleSyncAssumption DEF TakeWhole, Detected, KeptOK, Late, Awaited, Lagging, Contents,
       Running, Fetching, Storing, TypeOK, outside, rows, run, storing, observers
<1>9. ASSUME NEW c \in Courses, AskUpdates(c) PROVE KeptOK'
  BY <1>9, MoodleSyncAssumption DEF AskUpdates, Detected, RunOK, NoChangeLost, TrackedOK, Updated,
       HasContents, Of, KeptOK, Late, Awaited, Lagging, Contents, Running, Fetching, Storing,
       TypeOK, outside, rows, run, storing, observers
<1>10. CASE FetchChanged
  BY <1>10, MoodleSyncAssumption DEF FetchChanged, TrackedOK, KeptOK, Late, Awaited, Lagging,
       Contents, Running, Fetching, Storing, TypeOK, outside, rows, run, storing, observers
<1>11. ASSUME NEW c \in Courses, StoreSections(c) PROVE KeptOK'
  BY <1>11, MoodleSyncAssumption DEF StoreSections, Of, KeptOK, Late, Awaited, Lagging, Contents,
       Running, Fetching, Storing, TypeOK, outside, rows, run, storing, observers
<1>12. CASE StoreModules
  BY <1>12, MoodleSyncAssumption DEF StoreModules, Upserted, LinkRows, AnswerOK, Of, KeptOK, Late,
       Awaited, Lagging, Contents, Running, Fetching, Storing, TypeOK, outside, rows, run,
       storing, observers
<1>13. CASE StoreFiles
  BY <1>13, MoodleSyncAssumption DEF StoreFiles, Upserted, FileRows, LinkRows, AnswerOK, Of,
       KeptOK, Late, Awaited, Lagging, Contents, Running, Fetching, Storing, TypeOK, outside,
       rows, run, storing, observers
<1>14. CASE StoreTasks
  BY <1>14, MoodleSyncAssumption DEF StoreTasks, Upserted, TaskRows, Of, TrackedOK, RunOK, KeptOK,
       Late, Awaited, Lagging, Contents, Running, Fetching, Storing, TypeOK, outside, rows, run,
       storing, observers
<1>15. ASSUME NEW c \in Courses, StoreMarks(c) PROVE KeptOK'
  BY <1>15, MoodleSyncAssumption DEF StoreMarks, Upserted, MarkRows, Of, TrackedOK, KeptOK, Late,
       Awaited, Lagging, Contents, Running, Fetching, Storing, TypeOK, outside, rows, run,
       storing, observers
<1>16. ASSUME NEW c \in Courses, RefuseMarks(c) PROVE KeptOK'
  BY <1>16, MoodleSyncAssumption DEF RefuseMarks, MarkRows, Of, TrackedOK, KeptOK, Late, Awaited,
       Lagging, Contents, Running, Fetching, Storing, TypeOK, outside, rows, run, storing,
       observers
<1>17. CASE Finish
  BY <1>17, MoodleSyncAssumption DEF Finish, Idle, KeptOK, Late, Awaited, Lagging, Contents,
       Running, Fetching, Storing, TypeOK, outside, rows, run, storing, observers
<1>18. CASE Refused
  BY <1>18, MoodleSyncAssumption DEF Refused, Idle, KeptOK, Late, Awaited, Lagging, Contents,
       Running, Fetching, Storing, TypeOK, outside, rows, run, storing, observers
<1>19. CASE Fail
  BY <1>19, MoodleSyncAssumption DEF Fail, Idle, KeptOK, Late, Awaited, Lagging, Contents,
       Running, Fetching, Storing, TypeOK, outside, rows, run, storing, observers
<1>20. CASE Purge
  BY <1>20, MoodleSyncAssumption DEF Purge, KeptOK, Late, Awaited, Lagging, Contents, Running,
       Fetching, Storing, TypeOK, outside, rows, run, storing, observers
<1>21. CASE UNCHANGED vars
  BY <1>21, MoodleSyncAssumption DEF vars, KeptOK, Late, Awaited, Lagging, Contents, Running,
       Fetching, Storing, TypeOK, outside, rows, run, storing, observers
<1> QED BY <1>1, <1>2, <1>3, <1>4, <1>5, <1>6, <1>7, <1>8, <1>9, <1>10, <1>11, <1>12, <1>13, <1>14, <1>15, <1>16, <1>17, <1>18, <1>19, <1>20, <1>21 DEF Next, Moodle, Advance

LEMMA AnswerStep ==
  ASSUME TypeOK, RunOK, TrackedOK, AnswerOK, [Next]_vars
  PROVE  AnswerOK'
<1>1. CASE Tick
  BY <1>1, MoodleSyncAssumption DEF Tick, AnswerOK, Late, Lagging, Storing, Of, LinkRows, TypeOK,
       outside, rows, run, storing, observers
<1>2. ASSUME NEW d \in Items, Publish(d) PROVE AnswerOK'
  <2>1. PICK lag \in 0 .. Behind : stampedAt' = [stampedAt EXCEPT ![d] = clock - lag]
    BY <1>2 DEF Publish
  <2>2. clock \in Nat /\ (step # "idle" => startedAt \in Nat /\ Overlap <= startedAt /\ startedAt <= clock)
    BY MoodleSyncAssumption, MoodleSyncBounds DEF TypeOK, RunOK
  <2>3. step # "idle" => clock - lag > Since(startedAt)
    BY <2>2, MarginSuffices
  <2>4. /\ site' \in [Items -> Int] /\ \A i \in Items : i # d => site'[i] = site[i]
        /\ stampedAt'[d] = clock - lag /\ \A i \in Items : i # d => stampedAt'[i] = stampedAt[i]
    BY <1>2, <2>1, MoodleSyncBounds DEF Publish, Change, TypeOK, Editions
  <2> QED BY <1>2, <2>3, <2>4, MoodleSyncAssumption DEF Publish, Change, Since, AnswerOK, Late, Lagging, Storing, Of, LinkRows, TypeOK, outside, rows, run, storing, observers, Contents
<1>3. ASSUME NEW d \in Items, Withdraw(d) PROVE AnswerOK'
  BY <1>3, MoodleSyncAssumption DEF Withdraw, Change, AnswerOK, Late, Lagging, Storing, Of,
       LinkRows, TypeOK, outside, rows, run, storing, observers
<1>4. ASSUME NEW c \in Courses, Enroll(c) PROVE AnswerOK'
  BY <1>4, MoodleSyncAssumption DEF Enroll, Change, AnswerOK, Late, Lagging, Storing, Of,
       LinkRows, TypeOK, outside, rows, run, storing, observers
<1>5. ASSUME NEW c \in Courses, Leave(c) PROVE AnswerOK'
  BY <1>5, MoodleSyncAssumption DEF Leave, Change, AnswerOK, Late, Lagging, Storing, Of, LinkRows,
       TypeOK, outside, rows, run, storing, observers
<1>6. ASSUME NEW startup \in BOOLEAN, Begin(startup) PROVE AnswerOK'
  BY <1>6, MoodleSyncAssumption DEF Begin, AnswerOK, Late, Lagging, Storing, Of, LinkRows, TypeOK,
       outside, rows, run, storing, observers
<1>7. CASE ListCourses
  BY <1>7, MoodleSyncAssumption DEF ListCourses, AnswerOK, Late, Lagging, Storing, Of, LinkRows,
       TypeOK, outside, rows, run, storing, observers
<1>8. ASSUME NEW c \in Courses, TakeWhole(c) PROVE AnswerOK'
  BY <1>8, MoodleSyncAssumption DEF TakeWhole, Detected, AnswerOK, Late, Lagging, Storing, Of,
       LinkRows, TypeOK, outside, rows, run, storing, observers
<1>9. ASSUME NEW c \in Courses, AskUpdates(c) PROVE AnswerOK'
  BY <1>9, MoodleSyncAssumption DEF AskUpdates, Detected, AnswerOK, Late, Lagging, Storing, Of,
       LinkRows, TypeOK, outside, rows, run, storing, observers
<1>10. CASE FetchChanged
  BY <1>10, MoodleSyncAssumption DEF FetchChanged, AnswerOK, Late, Lagging, Storing, Of, LinkRows,
       TypeOK, outside, rows, run, storing, observers
<1>11. ASSUME NEW c \in Courses, StoreSections(c) PROVE AnswerOK'
  BY <1>11, MoodleSyncAssumption DEF StoreSections, Contents, AnswerOK, Late, Lagging, Storing,
       Of, LinkRows, TypeOK, outside, rows, run, storing, observers
<1>12. CASE StoreModules
  BY <1>12, MoodleSyncAssumption DEF StoreModules, Upserted, Contents, AnswerOK, Late, Lagging,
       Storing, Of, LinkRows, TypeOK, outside, rows, run, storing, observers
<1>13. CASE StoreFiles
  BY <1>13, MoodleSyncAssumption DEF StoreFiles, AnswerOK, Late, Lagging, Storing, Of, LinkRows,
       TypeOK, outside, rows, run, storing, observers
<1>14. CASE StoreTasks
  BY <1>14, MoodleSyncAssumption DEF StoreTasks, AnswerOK, Late, Lagging, Storing, Of, LinkRows,
       TypeOK, outside, rows, run, storing, observers
<1>15. ASSUME NEW c \in Courses, StoreMarks(c) PROVE AnswerOK'
  BY <1>15, MoodleSyncAssumption DEF StoreMarks, AnswerOK, Late, Lagging, Storing, Of, LinkRows,
       TypeOK, outside, rows, run, storing, observers
<1>16. ASSUME NEW c \in Courses, RefuseMarks(c) PROVE AnswerOK'
  BY <1>16, MoodleSyncAssumption DEF RefuseMarks, AnswerOK, Late, Lagging, Storing, Of, LinkRows,
       TypeOK, outside, rows, run, storing, observers
<1>17. CASE Finish
  BY <1>17, MoodleSyncAssumption DEF Finish, Idle, AnswerOK, Late, Lagging, Storing, Of, LinkRows,
       TypeOK, outside, rows, run, storing, observers
<1>18. CASE Refused
  BY <1>18, MoodleSyncAssumption DEF Refused, Idle, AnswerOK, Late, Lagging, Storing, Of,
       LinkRows, TypeOK, outside, rows, run, storing, observers
<1>19. CASE Fail
  BY <1>19, MoodleSyncAssumption DEF Fail, Idle, AnswerOK, Late, Lagging, Storing, Of, LinkRows,
       TypeOK, outside, rows, run, storing, observers
<1>20. CASE Purge
  BY <1>20, MoodleSyncAssumption DEF Purge, AnswerOK, Late, Lagging, Storing, Of, LinkRows,
       TypeOK, outside, rows, run, storing, observers
<1>21. CASE UNCHANGED vars
  BY <1>21, MoodleSyncAssumption DEF vars, AnswerOK, Late, Lagging, Storing, Of, LinkRows, TypeOK,
       outside, rows, run, storing, observers
<1> QED BY <1>1, <1>2, <1>3, <1>4, <1>5, <1>6, <1>7, <1>8, <1>9, <1>10, <1>11, <1>12, <1>13, <1>14, <1>15, <1>16, <1>17, <1>18, <1>19, <1>20, <1>21 DEF Next, Moodle, Advance

-----------------------------------------------------------------------------
(* What a done run vouches for *)

Untouched == {d \in Items \ touched : CourseOf[d] \in listed}

\* What is asked for in bulk is as on the site once its step is over.
BulkOK ==
  step \in Running => \A d \in Untouched :
    /\ CourseOf[d] \in enrolled
    /\ KindOf[d] \in {"course", "label"} => ~Lagging(d)
    /\ KindOf[d] = "task" /\ step = "marks" => ~Lagging(d)

\* What is only watched is as on the site or still to be fetched.
WatchedOK ==
  step \in Running => \A d \in Untouched \cap tracked : Lagging(d) => Awaited(d)

\* A full run takes every course.
FullOK ==
  since = Null =>
    /\ step = "detect" => listed = todo \cup changed
    /\ step \in Fetching => listed = changed

\* Of the courses that were fetched exactly what is served has a fresh row.
FetchedOK ==
  /\ step \in Fetching => \A d \in Untouched :
       KindOf[d] \in Contents /\ CourseOf[d] \in changed /\ ~Awaited(d) =>
         ~Lagging(d) /\ (d \in fresh <=> site[d] # 0)
  /\ step \in Storing => \A d \in Of(Contents, {course}) :
       /\ d \notin touched => answer[d] = site[d]
       /\ Awaited(d) => d \notin fresh

LEMMA BulkStep ==
  ASSUME TypeOK, RunOK, TrackedOK, BulkOK, [Next]_vars
  PROVE  BulkOK'
<1>1. CASE Tick
  BY <1>1, MoodleSyncAssumption DEF Tick, BulkOK, Of, Kinds, Contents, Bulk, TypeOK, Lagging,
       Untouched, Running, Fetching, Storing, outside, rows, run, storing, observers
<1>2. ASSUME NEW d \in Items, Publish(d) PROVE BulkOK'
  BY <1>2, MoodleSyncAssumption DEF Publish, Change, BulkOK, Of, Kinds, Contents, Bulk, TypeOK,
       Lagging, Untouched, Running, Fetching, Storing, outside, rows, run, storing, observers
<1>3. ASSUME NEW d \in Items, Withdraw(d) PROVE BulkOK'
  BY <1>3, MoodleSyncAssumption DEF Withdraw, Change, BulkOK, Of, Kinds, Contents, Bulk, TypeOK,
       Lagging, Untouched, Running, Fetching, Storing, outside, rows, run, storing, observers
<1>4. ASSUME NEW c \in Courses, Enroll(c) PROVE BulkOK'
  BY <1>4, MoodleSyncAssumption DEF Enroll, Change, BulkOK, Of, Kinds, Contents, Bulk, TypeOK,
       Lagging, Untouched, Running, Fetching, Storing, outside, rows, run, storing, observers
<1>5. ASSUME NEW c \in Courses, Leave(c) PROVE BulkOK'
  BY <1>5, MoodleSyncAssumption DEF Leave, Change, BulkOK, Of, Kinds, Contents, Bulk, TypeOK,
       Lagging, Untouched, Running, Fetching, Storing, outside, rows, run, storing, observers
<1>6. ASSUME NEW startup \in BOOLEAN, Begin(startup) PROVE BulkOK'
  BY <1>6, MoodleSyncAssumption DEF Begin, BulkOK, Of, Kinds, Contents, Bulk, TypeOK, Lagging,
       Untouched, Running, Fetching, Storing, outside, rows, run, storing, observers
<1>7. CASE ListCourses
  BY <1>7, MoodleSyncAssumption DEF ListCourses, Upserted, CourseRows, BulkOK, Of, Kinds,
       Contents, Bulk, TypeOK, Lagging, Untouched, Running, Fetching, Storing, outside, rows, run,
       storing, observers
<1>8. ASSUME NEW c \in Courses, TakeWhole(c) PROVE BulkOK'
  BY <1>8, MoodleSyncAssumption DEF TakeWhole, Detected, BulkOK, Of, Kinds, Contents, Bulk,
       TypeOK, Lagging, Untouched, Running, Fetching, Storing, outside, rows, run, storing,
       observers
<1>9. ASSUME NEW c \in Courses, AskUpdates(c) PROVE BulkOK'
  BY <1>9, MoodleSyncAssumption DEF AskUpdates, Detected, BulkOK, Of, Kinds, Contents, Bulk,
       TypeOK, Lagging, Untouched, Running, Fetching, Storing, outside, rows, run, storing,
       observers
<1>10. CASE FetchChanged
  BY <1>10, MoodleSyncAssumption DEF FetchChanged, BulkOK, Of, Kinds, Contents, Bulk, TypeOK,
       Lagging, Untouched, Running, Fetching, Storing, outside, rows, run, storing, observers
<1>11. ASSUME NEW c \in Courses, StoreSections(c) PROVE BulkOK'
  BY <1>11, MoodleSyncAssumption DEF StoreSections, BulkOK, Of, Kinds, Contents, Bulk, TypeOK,
       Lagging, Untouched, Running, Fetching, Storing, outside, rows, run, storing, observers
<1>12. CASE StoreModules
  BY <1>12, MoodleSyncAssumption DEF StoreModules, Upserted, LinkRows, BulkOK, Of, Kinds,
       Contents, Bulk, TypeOK, Lagging, Untouched, Running, Fetching, Storing, outside, rows, run,
       storing, observers
<1>13. CASE StoreFiles
  BY <1>13, MoodleSyncAssumption DEF StoreFiles, Upserted, FileRows, BulkOK, Of, Kinds, Contents,
       Bulk, TypeOK, Lagging, Untouched, Running, Fetching, Storing, outside, rows, run, storing,
       observers
<1>14. CASE StoreTasks
  BY <1>14, MoodleSyncAssumption DEF StoreTasks, Upserted, TaskRows, BulkOK, Of, Kinds, Contents,
       Bulk, TypeOK, Lagging, Untouched, Running, Fetching, Storing, outside, rows, run, storing,
       observers
<1>15. ASSUME NEW c \in Courses, StoreMarks(c) PROVE BulkOK'
  BY <1>15, MoodleSyncAssumption DEF StoreMarks, Upserted, MarkRows, BulkOK, Of, Kinds, Contents,
       Bulk, TypeOK, Lagging, Untouched, Running, Fetching, Storing, outside, rows, run, storing,
       observers
<1>16. ASSUME NEW c \in Courses, RefuseMarks(c) PROVE BulkOK'
  BY <1>16, MoodleSyncAssumption DEF RefuseMarks, BulkOK, Of, Kinds, Contents, Bulk, TypeOK,
       Lagging, Untouched, Running, Fetching, Storing, outside, rows, run, storing, observers
<1>17. CASE Finish
  BY <1>17, MoodleSyncAssumption DEF Finish, Idle, BulkOK, Of, Kinds, Contents, Bulk, TypeOK,
       Lagging, Untouched, Running, Fetching, Storing, outside, rows, run, storing, observers
<1>18. CASE Refused
  BY <1>18, MoodleSyncAssumption DEF Refused, Idle, BulkOK, Of, Kinds, Contents, Bulk, TypeOK,
       Lagging, Untouched, Running, Fetching, Storing, outside, rows, run, storing, observers
<1>19. CASE Fail
  BY <1>19, MoodleSyncAssumption DEF Fail, Idle, BulkOK, Of, Kinds, Contents, Bulk, TypeOK,
       Lagging, Untouched, Running, Fetching, Storing, outside, rows, run, storing, observers
<1>20. CASE Purge
  BY <1>20, MoodleSyncAssumption DEF Purge, BulkOK, Of, Kinds, Contents, Bulk, TypeOK, Lagging,
       Untouched, Running, Fetching, Storing, outside, rows, run, storing, observers
<1>21. CASE UNCHANGED vars
  BY <1>21, MoodleSyncAssumption DEF vars, BulkOK, Of, Kinds, Contents, Bulk, TypeOK, Lagging,
       Untouched, Running, Fetching, Storing, outside, rows, run, storing, observers
<1> QED BY <1>1, <1>2, <1>3, <1>4, <1>5, <1>6, <1>7, <1>8, <1>9, <1>10, <1>11, <1>12, <1>13, <1>14, <1>15, <1>16, <1>17, <1>18, <1>19, <1>20, <1>21 DEF Next, Moodle, Advance

LEMMA WatchedStep ==
  ASSUME TypeOK, RunOK, TrackedOK, NoChangeLost, WatchedOK, FetchedOK, [Next]_vars
  PROVE  WatchedOK'
<1>1. CASE Tick
  BY <1>1, MoodleSyncAssumption DEF Tick, WatchedOK, Awaited, Contents, TrackedOK, TypeOK,
       Lagging, Untouched, Running, Fetching, Storing, outside, rows, run, storing, observers
<1>2. ASSUME NEW d \in Items, Publish(d) PROVE WatchedOK'
  BY <1>2, MoodleSyncAssumption DEF Publish, Change, WatchedOK, Awaited, Contents, TrackedOK,
       TypeOK, Lagging, Untouched, Running, Fetching, Storing, outside, rows, run, storing,
       observers
<1>3. ASSUME NEW d \in Items, Withdraw(d) PROVE WatchedOK'
  BY <1>3, MoodleSyncAssumption DEF Withdraw, Change, WatchedOK, Awaited, Contents, TrackedOK,
       TypeOK, Lagging, Untouched, Running, Fetching, Storing, outside, rows, run, storing,
       observers
<1>4. ASSUME NEW c \in Courses, Enroll(c) PROVE WatchedOK'
  BY <1>4, MoodleSyncAssumption DEF Enroll, Change, WatchedOK, Awaited, Contents, TrackedOK,
       TypeOK, Lagging, Untouched, Running, Fetching, Storing, outside, rows, run, storing,
       observers
<1>5. ASSUME NEW c \in Courses, Leave(c) PROVE WatchedOK'
  BY <1>5, MoodleSyncAssumption DEF Leave, Change, WatchedOK, Awaited, Contents, TrackedOK,
       TypeOK, Lagging, Untouched, Running, Fetching, Storing, outside, rows, run, storing,
       observers
<1>6. ASSUME NEW startup \in BOOLEAN, Begin(startup) PROVE WatchedOK'
  BY <1>6, MoodleSyncAssumption DEF Begin, WatchedOK, Awaited, Contents, TrackedOK, TypeOK,
       Lagging, Untouched, Running, Fetching, Storing, outside, rows, run, storing, observers
<1>7. CASE ListCourses
  BY <1>7, MoodleSyncAssumption DEF ListCourses, RunOK, WatchedOK, Awaited, Contents, TrackedOK,
       TypeOK, Lagging, Untouched, Running, Fetching, Storing, outside, rows, run, storing,
       observers
<1>8. ASSUME NEW c \in Courses, TakeWhole(c) PROVE WatchedOK'
  BY <1>8, MoodleSyncAssumption DEF TakeWhole, Detected, WatchedOK, Awaited, Contents, TrackedOK,
       TypeOK, Lagging, Untouched, Running, Fetching, Storing, outside, rows, run, storing,
       observers
<1>9. ASSUME NEW c \in Courses, AskUpdates(c) PROVE WatchedOK'
  BY <1>9, MoodleSyncAssumption DEF AskUpdates, Detected, RunOK, NoChangeLost, Updated,
       HasContents, Of, WatchedOK, Awaited, Contents, TrackedOK, TypeOK, Lagging, Untouched,
       Running, Fetching, Storing, outside, rows, run, storing, observers
<1>10. CASE FetchChanged
  BY <1>10, MoodleSyncAssumption DEF FetchChanged, WatchedOK, Awaited, Contents, TrackedOK,
       TypeOK, Lagging, Untouched, Running, Fetching, Storing, outside, rows, run, storing,
       observers
<1>11. ASSUME NEW c \in Courses, StoreSections(c) PROVE WatchedOK'
  BY <1>11, MoodleSyncAssumption DEF StoreSections, Of, WatchedOK, Awaited, Contents, TrackedOK,
       TypeOK, Lagging, Untouched, Running, Fetching, Storing, outside, rows, run, storing,
       observers
<1>12. CASE StoreModules
  BY <1>12, MoodleSyncAssumption DEF StoreModules, Upserted, LinkRows, FetchedOK, Of, WatchedOK,
       Awaited, Contents, TrackedOK, TypeOK, Lagging, Untouched, Running, Fetching, Storing,
       outside, rows, run, storing, observers
<1>13. CASE StoreFiles
  BY <1>13, MoodleSyncAssumption DEF StoreFiles, Upserted, FileRows, FetchedOK, Of, RunOK,
       WatchedOK, Awaited, Contents, TrackedOK, TypeOK, Lagging, Untouched, Running, Fetching,
       Storing, outside, rows, run, storing, observers
<1>14. CASE StoreTasks
  BY <1>14, MoodleSyncAssumption DEF StoreTasks, Upserted, TaskRows, Of, RunOK, WatchedOK,
       Awaited, Contents, TrackedOK, TypeOK, Lagging, Untouched, Running, Fetching, Storing,
       outside, rows, run, storing, observers
<1>15. ASSUME NEW c \in Courses, StoreMarks(c) PROVE WatchedOK'
  BY <1>15, MoodleSyncAssumption DEF StoreMarks, Upserted, MarkRows, Of, WatchedOK, Awaited,
       Contents, TrackedOK, TypeOK, Lagging, Untouched, Running, Fetching, Storing, outside, rows,
       run, storing, observers
<1>16. ASSUME NEW c \in Courses, RefuseMarks(c) PROVE WatchedOK'
  BY <1>16, MoodleSyncAssumption DEF RefuseMarks, MarkRows, Of, WatchedOK, Awaited, Contents,
       TrackedOK, TypeOK, Lagging, Untouched, Running, Fetching, Storing, outside, rows, run,
       storing, observers
<1>17. CASE Finish
  BY <1>17, MoodleSyncAssumption DEF Finish, Idle, WatchedOK, Awaited, Contents, TrackedOK,
       TypeOK, Lagging, Untouched, Running, Fetching, Storing, outside, rows, run, storing,
       observers
<1>18. CASE Refused
  BY <1>18, MoodleSyncAssumption DEF Refused, Idle, WatchedOK, Awaited, Contents, TrackedOK,
       TypeOK, Lagging, Untouched, Running, Fetching, Storing, outside, rows, run, storing,
       observers
<1>19. CASE Fail
  BY <1>19, MoodleSyncAssumption DEF Fail, Idle, WatchedOK, Awaited, Contents, TrackedOK, TypeOK,
       Lagging, Untouched, Running, Fetching, Storing, outside, rows, run, storing, observers
<1>20. CASE Purge
  BY <1>20, MoodleSyncAssumption DEF Purge, WatchedOK, Awaited, Contents, TrackedOK, TypeOK,
       Lagging, Untouched, Running, Fetching, Storing, outside, rows, run, storing, observers
<1>21. CASE UNCHANGED vars
  BY <1>21, MoodleSyncAssumption DEF vars, WatchedOK, Awaited, Contents, TrackedOK, TypeOK,
       Lagging, Untouched, Running, Fetching, Storing, outside, rows, run, storing, observers
<1> QED BY <1>1, <1>2, <1>3, <1>4, <1>5, <1>6, <1>7, <1>8, <1>9, <1>10, <1>11, <1>12, <1>13, <1>14, <1>15, <1>16, <1>17, <1>18, <1>19, <1>20, <1>21 DEF Next, Moodle, Advance

LEMMA FullStep ==
  ASSUME TypeOK, RunOK, FullOK, [Next]_vars
  PROVE  FullOK'
<1>1. CASE Tick
  BY <1>1, MoodleSyncAssumption DEF Tick, FullOK, RunOK, TypeOK, Lagging, Untouched, Running,
       Fetching, Storing, outside, rows, run, storing, observers
<1>2. ASSUME NEW d \in Items, Publish(d) PROVE FullOK'
  BY <1>2, MoodleSyncAssumption DEF Publish, Change, FullOK, RunOK, TypeOK, Lagging, Untouched,
       Running, Fetching, Storing, outside, rows, run, storing, observers
<1>3. ASSUME NEW d \in Items, Withdraw(d) PROVE FullOK'
  BY <1>3, MoodleSyncAssumption DEF Withdraw, Change, FullOK, RunOK, TypeOK, Lagging, Untouched,
       Running, Fetching, Storing, outside, rows, run, storing, observers
<1>4. ASSUME NEW c \in Courses, Enroll(c) PROVE FullOK'
  BY <1>4, MoodleSyncAssumption DEF Enroll, Change, FullOK, RunOK, TypeOK, Lagging, Untouched,
       Running, Fetching, Storing, outside, rows, run, storing, observers
<1>5. ASSUME NEW c \in Courses, Leave(c) PROVE FullOK'
  BY <1>5, MoodleSyncAssumption DEF Leave, Change, FullOK, RunOK, TypeOK, Lagging, Untouched,
       Running, Fetching, Storing, outside, rows, run, storing, observers
<1>6. ASSUME NEW startup \in BOOLEAN, Begin(startup) PROVE FullOK'
  BY <1>6, MoodleSyncAssumption DEF Begin, FullOK, RunOK, TypeOK, Lagging, Untouched, Running,
       Fetching, Storing, outside, rows, run, storing, observers
<1>7. CASE ListCourses
  BY <1>7, MoodleSyncAssumption DEF ListCourses, FullOK, RunOK, TypeOK, Lagging, Untouched,
       Running, Fetching, Storing, outside, rows, run, storing, observers
<1>8. ASSUME NEW c \in Courses, TakeWhole(c) PROVE FullOK'
  BY <1>8, MoodleSyncAssumption DEF TakeWhole, Detected, FullOK, RunOK, TypeOK, Lagging,
       Untouched, Running, Fetching, Storing, outside, rows, run, storing, observers
<1>9. ASSUME NEW c \in Courses, AskUpdates(c) PROVE FullOK'
  BY <1>9, MoodleSyncAssumption DEF AskUpdates, Detected, FullOK, RunOK, TypeOK, Lagging,
       Untouched, Running, Fetching, Storing, outside, rows, run, storing, observers
<1>10. CASE FetchChanged
  BY <1>10, MoodleSyncAssumption DEF FetchChanged, FullOK, RunOK, TypeOK, Lagging, Untouched,
       Running, Fetching, Storing, outside, rows, run, storing, observers
<1>11. ASSUME NEW c \in Courses, StoreSections(c) PROVE FullOK'
  BY <1>11, MoodleSyncAssumption DEF StoreSections, FullOK, RunOK, TypeOK, Lagging, Untouched,
       Running, Fetching, Storing, outside, rows, run, storing, observers
<1>12. CASE StoreModules
  BY <1>12, MoodleSyncAssumption DEF StoreModules, FullOK, RunOK, TypeOK, Lagging, Untouched,
       Running, Fetching, Storing, outside, rows, run, storing, observers
<1>13. CASE StoreFiles
  BY <1>13, MoodleSyncAssumption DEF StoreFiles, FullOK, RunOK, TypeOK, Lagging, Untouched,
       Running, Fetching, Storing, outside, rows, run, storing, observers
<1>14. CASE StoreTasks
  BY <1>14, MoodleSyncAssumption DEF StoreTasks, FullOK, RunOK, TypeOK, Lagging, Untouched,
       Running, Fetching, Storing, outside, rows, run, storing, observers
<1>15. ASSUME NEW c \in Courses, StoreMarks(c) PROVE FullOK'
  BY <1>15, MoodleSyncAssumption DEF StoreMarks, FullOK, RunOK, TypeOK, Lagging, Untouched,
       Running, Fetching, Storing, outside, rows, run, storing, observers
<1>16. ASSUME NEW c \in Courses, RefuseMarks(c) PROVE FullOK'
  BY <1>16, MoodleSyncAssumption DEF RefuseMarks, FullOK, RunOK, TypeOK, Lagging, Untouched,
       Running, Fetching, Storing, outside, rows, run, storing, observers
<1>17. CASE Finish
  BY <1>17, MoodleSyncAssumption DEF Finish, Idle, FullOK, RunOK, TypeOK, Lagging, Untouched,
       Running, Fetching, Storing, outside, rows, run, storing, observers
<1>18. CASE Refused
  BY <1>18, MoodleSyncAssumption DEF Refused, Idle, FullOK, RunOK, TypeOK, Lagging, Untouched,
       Running, Fetching, Storing, outside, rows, run, storing, observers
<1>19. CASE Fail
  BY <1>19, MoodleSyncAssumption DEF Fail, Idle, FullOK, RunOK, TypeOK, Lagging, Untouched,
       Running, Fetching, Storing, outside, rows, run, storing, observers
<1>20. CASE Purge
  BY <1>20, MoodleSyncAssumption DEF Purge, FullOK, RunOK, TypeOK, Lagging, Untouched, Running,
       Fetching, Storing, outside, rows, run, storing, observers
<1>21. CASE UNCHANGED vars
  BY <1>21, MoodleSyncAssumption DEF vars, FullOK, RunOK, TypeOK, Lagging, Untouched, Running,
       Fetching, Storing, outside, rows, run, storing, observers
<1> QED BY <1>1, <1>2, <1>3, <1>4, <1>5, <1>6, <1>7, <1>8, <1>9, <1>10, <1>11, <1>12, <1>13, <1>14, <1>15, <1>16, <1>17, <1>18, <1>19, <1>20, <1>21 DEF Next, Moodle, Advance

LEMMA FetchedStep ==
  ASSUME TypeOK, RunOK, FetchedOK, [Next]_vars
  PROVE  FetchedOK'
<1>1. CASE Tick
  BY <1>1, MoodleSyncAssumption DEF Tick, FetchedOK, Awaited, Contents, Of, TypeOK, Lagging,
       Untouched, Running, Fetching, Storing, outside, rows, run, storing, observers
<1>2. ASSUME NEW d \in Items, Publish(d) PROVE FetchedOK'
  BY <1>2, MoodleSyncAssumption DEF Publish, Change, FetchedOK, Awaited, Contents, Of, TypeOK,
       Lagging, Untouched, Running, Fetching, Storing, outside, rows, run, storing, observers
<1>3. ASSUME NEW d \in Items, Withdraw(d) PROVE FetchedOK'
  BY <1>3, MoodleSyncAssumption DEF Withdraw, Change, FetchedOK, Awaited, Contents, Of, TypeOK,
       Lagging, Untouched, Running, Fetching, Storing, outside, rows, run, storing, observers
<1>4. ASSUME NEW c \in Courses, Enroll(c) PROVE FetchedOK'
  BY <1>4, MoodleSyncAssumption DEF Enroll, Change, FetchedOK, Awaited, Contents, Of, TypeOK,
       Lagging, Untouched, Running, Fetching, Storing, outside, rows, run, storing, observers
<1>5. ASSUME NEW c \in Courses, Leave(c) PROVE FetchedOK'
  BY <1>5, MoodleSyncAssumption DEF Leave, Change, FetchedOK, Awaited, Contents, Of, TypeOK,
       Lagging, Untouched, Running, Fetching, Storing, outside, rows, run, storing, observers
<1>6. ASSUME NEW startup \in BOOLEAN, Begin(startup) PROVE FetchedOK'
  BY <1>6, MoodleSyncAssumption DEF Begin, FetchedOK, Awaited, Contents, Of, TypeOK, Lagging,
       Untouched, Running, Fetching, Storing, outside, rows, run, storing, observers
<1>7. CASE ListCourses
  BY <1>7, MoodleSyncAssumption DEF ListCourses, RunOK, FetchedOK, Awaited, Contents, Of, TypeOK,
       Lagging, Untouched, Running, Fetching, Storing, outside, rows, run, storing, observers
<1>8. ASSUME NEW c \in Courses, TakeWhole(c) PROVE FetchedOK'
  BY <1>8, MoodleSyncAssumption DEF TakeWhole, Detected, FetchedOK, Awaited, Contents, Of, TypeOK,
       Lagging, Untouched, Running, Fetching, Storing, outside, rows, run, storing, observers
<1>9. ASSUME NEW c \in Courses, AskUpdates(c) PROVE FetchedOK'
  BY <1>9, MoodleSyncAssumption DEF AskUpdates, Detected, FetchedOK, Awaited, Contents, Of,
       TypeOK, Lagging, Untouched, Running, Fetching, Storing, outside, rows, run, storing,
       observers
<1>10. CASE FetchChanged
  BY <1>10, MoodleSyncAssumption DEF FetchChanged, FetchedOK, Awaited, Contents, Of, TypeOK,
       Lagging, Untouched, Running, Fetching, Storing, outside, rows, run, storing, observers
<1>11. ASSUME NEW c \in Courses, StoreSections(c) PROVE FetchedOK'
  BY <1>11, MoodleSyncAssumption DEF StoreSections, RunOK, FetchedOK, Awaited, Contents, Of,
       TypeOK, Lagging, Untouched, Running, Fetching, Storing, outside, rows, run, storing,
       observers
<1>12. CASE StoreModules
  <2>1. /\ step = "modules" /\ step' = "files" /\ course' = course /\ answer' = answer /\ site' = site
        /\ todo' = todo /\ changed' = changed /\ touched' = touched /\ Untouched' = Untouched
    BY <1>12 DEF StoreModules, Untouched, outside, run, storing
  <2>2. \A d \in Items : d \notin LinkRows(course) =>
          copy'[d] = copy[d] /\ (d \in fresh' <=> d \in fresh)
    BY <1>12 DEF StoreModules, Upserted, Returned
  <2>3. \A d \in LinkRows(course) :
          copy'[d] = (IF answer[d] # 0 THEN answer[d] ELSE copy[d]) /\ (d \in fresh' <=> d \in fresh \/ answer[d] # 0)
    BY <1>12 DEF StoreModules, Upserted, Returned, LinkRows, Of
  <2>4. \A d \in LinkRows(course) : d \in Of(Contents, {course}) /\ d \notin fresh
    BY <2>1 DEF LinkRows, Of, Contents, FetchedOK, Storing, Awaited
  <2>5. ASSUME NEW d \in Untouched, KindOf[d] \in Contents, CourseOf[d] \in changed, ~Awaited(d)'
        PROVE  ~Lagging(d)' /\ (d \in fresh' <=> site[d] # 0)
    <3>1. CASE d \in LinkRows(course)
      BY <2>1, <2>3, <2>4, <3>1 DEF FetchedOK, Storing, Lagging, Untouched
    <3>2. CASE d \notin LinkRows(course)
      <4>1. ~Awaited(d)
        BY <2>1, <2>5, <3>2 DEF Awaited, LinkRows, Of, Untouched, Contents
      <4> QED BY <2>1, <2>2, <2>5, <3>2, <4>1 DEF FetchedOK, Fetching, Lagging, Untouched
    <3> QED BY <3>1, <3>2
  <2>6. ASSUME NEW d \in Of(Contents, {course})
        PROVE  (d \notin touched => answer[d] = site[d]) /\ (Awaited(d)' => d \notin fresh')
    <3>1. (d \notin touched => answer[d] = site[d]) /\ (Awaited(d) => d \notin fresh)
      BY <2>1 DEF FetchedOK, Storing
    <3>2. Awaited(d)' => Awaited(d) /\ d \notin LinkRows(course)
      BY <2>1 DEF Awaited, LinkRows, Of, Contents, RunOK, Storing
    <3> QED BY <2>2, <3>1, <3>2 DEF Of
  <2> QED BY <2>1, <2>5, <2>6 DEF FetchedOK
<1>13. CASE StoreFiles
  BY <1>13, MoodleSyncAssumption DEF StoreFiles, Upserted, FileRows, Returned, RunOK, FetchedOK,
       Awaited, Contents, Of, TypeOK, Lagging, Untouched, Running, Fetching, Storing, outside,
       rows, run, storing, observers
<1>14. CASE StoreTasks
  BY <1>14, MoodleSyncAssumption DEF StoreTasks, Upserted, TaskRows, RunOK, FetchedOK, Awaited,
       Contents, Of, TypeOK, Lagging, Untouched, Running, Fetching, Storing, outside, rows, run,
       storing, observers
<1>15. ASSUME NEW c \in Courses, StoreMarks(c) PROVE FetchedOK'
  BY <1>15, MoodleSyncAssumption DEF StoreMarks, Upserted, MarkRows, RunOK, FetchedOK, Awaited,
       Contents, Of, TypeOK, Lagging, Untouched, Running, Fetching, Storing, outside, rows, run,
       storing, observers
<1>16. ASSUME NEW c \in Courses, RefuseMarks(c) PROVE FetchedOK'
  BY <1>16, MoodleSyncAssumption DEF RefuseMarks, FetchedOK, Awaited, Contents, Of, TypeOK,
       Lagging, Untouched, Running, Fetching, Storing, outside, rows, run, storing, observers
<1>17. CASE Finish
  BY <1>17, MoodleSyncAssumption DEF Finish, Idle, FetchedOK, Awaited, Contents, Of, TypeOK,
       Lagging, Untouched, Running, Fetching, Storing, outside, rows, run, storing, observers
<1>18. CASE Refused
  BY <1>18, MoodleSyncAssumption DEF Refused, Idle, FetchedOK, Awaited, Contents, Of, TypeOK,
       Lagging, Untouched, Running, Fetching, Storing, outside, rows, run, storing, observers
<1>19. CASE Fail
  BY <1>19, MoodleSyncAssumption DEF Fail, Idle, FetchedOK, Awaited, Contents, Of, TypeOK,
       Lagging, Untouched, Running, Fetching, Storing, outside, rows, run, storing, observers
<1>20. CASE Purge
  BY <1>20, MoodleSyncAssumption DEF Purge, FetchedOK, Awaited, Contents, Of, TypeOK, Lagging,
       Untouched, Running, Fetching, Storing, outside, rows, run, storing, observers
<1>21. CASE UNCHANGED vars
  BY <1>21, MoodleSyncAssumption DEF vars, FetchedOK, Awaited, Contents, Of, TypeOK, Lagging,
       Untouched, Running, Fetching, Storing, outside, rows, run, storing, observers
<1> QED BY <1>1, <1>2, <1>3, <1>4, <1>5, <1>6, <1>7, <1>8, <1>9, <1>10, <1>11, <1>12, <1>13, <1>14, <1>15, <1>16, <1>17, <1>18, <1>19, <1>20, <1>21 DEF Next, Moodle, Advance

-----------------------------------------------------------------------------
(* The theorems *)

LEMMA InvInit == Init => IInv /\ OfferOK
  <1> SUFFICES ASSUME Init PROVE IInv /\ OfferOK
    OBVIOUS
  <1>1. TypeOK
    BY MoodleSyncAssumption, MoodleSyncBounds DEF Init, TypeOK, Editions, Steps, Nothing
  <1>2. RunOK
    BY DEF Init, RunOK, Running, Fetching, Storing
  <1>3. TrackedOK /\ NoChangeLost /\ KeptOK /\ AnswerOK /\ OfferOK
    BY DEF Init, TrackedOK, NoChangeLost, KeptOK, AnswerOK, OfferOK, Running, Fetching, Storing
  <1> QED BY <1>1, <1>2, <1>3 DEF IInv

LEMMA VouchInit == Init => BulkOK /\ WatchedOK /\ FullOK /\ FetchedOK
  BY DEF Init, BulkOK, WatchedOK, FullOK, FetchedOK, Running, Fetching, Storing

LEMMA InvStep == IInv /\ OfferOK /\ [Next]_vars => IInv' /\ OfferOK'
  BY TypeStep, RunStep, TrackedStep, LostStep, KeptStep, AnswerStep, OfferStep DEF IInv

LEMMA InvHolds == Spec => [](IInv /\ OfferOK)
  BY InvInit, InvStep, PTL DEF Spec

\* Every variable stays in its set, and only courses of the present list are
\* asked for, whatever is in the tables (module sync.py).
THEOREM MoodleSyncTypeCorrect == Spec => []TypeOK
  <1>1. IInv => TypeOK
    BY DEF IInv
  <1> QED BY InvHolds, <1>1, PTL

\* As long as the margin is wider than the lag of the site's clock, no change
\* falls between two runs (jobs.py: the checkpoint), however runs fail.
THEOREM NoChangeLostHolds == Spec => []NoChangeLost
  <1>1. IInv => NoChangeLost
    BY DEF IInv
  <1> QED BY InvHolds, <1>1, PTL

\* The adapters offer nothing that the last contents sync did not return
\* (source_adapters.py: the filter of stale rows), not even in mid-run.
THEOREM OfferedIsLastFetchHolds == Spec => []OfferedIsLastFetch
  <1>1. OfferOK => OfferedIsLastFetch
    BY DEF OfferOK, OfferedIsLastFetch, Offered
  <1> QED BY InvHolds, <1>1, PTL

\* The end of a done run: what was not touched while it ran is up to date.
LEMMA FinishedReconciles ==
  ASSUME TypeOK, RunOK, TrackedOK, BulkOK, WatchedOK, FullOK, FetchedOK, Finish,
         NEW d \in Untouched
  PROVE  /\ KindOf[d] \in Bulk \/ d \in tracked' => site[d] = 0 \/ copy'[d] = site[d]
         /\ KindOf[d] \in Contents /\ (since = Null \/ CourseOf[d] \in changed) =>
              (d \in Offered' <=> site[d] # 0)
  <1>1. step = "marks" /\ todo = {} /\ d \in Items /\ ~Awaited(d) /\ CourseOf[d] \in listed
    BY DEF Finish, Untouched, Awaited
  <1>2. copy'[d] = IF KindOf[d] = "event" /\ site[d] # 0 THEN site[d] ELSE copy[d]
    BY <1>1 DEF Finish, Upserted, EventRows, Of, BulkOK, Running, Fetching
  <1>3. KindOf[d] \in Bulk => site[d] = 0 \/ copy'[d] = site[d]
    BY <1>1, <1>2 DEF Bulk, BulkOK, Running, Fetching, Lagging
  <1>4. d \in tracked' => site[d] = 0 \/ copy'[d] = site[d]
    BY <1>1, <1>2 DEF Finish, WatchedOK, Running, Fetching, Lagging
  <1>5. ASSUME KindOf[d] \in Contents, since = Null \/ CourseOf[d] \in changed
        PROVE  d \in Offered' <=> site[d] # 0
    <2>1. ~Lagging(d) /\ (d \in fresh <=> site[d] # 0)
      BY <1>1, <1>5 DEF FullOK, FetchedOK, Fetching
    <2>2. d \in Of(Contents, Courses) /\ copy'[d] = copy[d] /\ fresh' = fresh
      BY <1>1, <1>2, <1>5, MoodleSyncAssumption DEF Of, Contents, Finish
    <2> QED BY <2>1, <2>2 DEF Offered, Lagging
  <1> QED BY <1>3, <1>4, <1>5

\* For any courses and items: a done run leaves what nobody touched in the
\* meantime as it is on the site, what it only had to watch included.
THEOREM DoneRunReconcilesHolds == Spec => DoneRunReconciles
  <1> DEFINE Inv == IInv /\ OfferOK /\ BulkOK /\ WatchedOK /\ FullOK /\ FetchedOK
             Vouched == Finished => \A d \in Items \ touched : CourseOf[d] \in listed =>
               /\ KindOf[d] \in Bulk \/ d \in tracked' => site[d] = 0 \/ copy'[d] = site[d]
               /\ KindOf[d] \in Contents /\ (since = Null \/ CourseOf[d] \in changed) =>
                    (d \in Offered' <=> site[d] # 0)
  <1>1. Init => Inv
    BY InvInit, VouchInit
  <1>2. Inv /\ [Next]_vars => Inv'
    BY InvStep, BulkStep, WatchedStep, FullStep, FetchedStep DEF IInv
  <1>3. Inv /\ [Next]_vars => [Vouched]_vars
    <2> SUFFICES ASSUME Inv, Next, Finished PROVE Vouched
      OBVIOUS
    <2>1. Finish
      <3>1. step = "marks" /\ step' = "idle" /\ fails' = fails
        BY DEF Finished
      <3>2. ASSUME Fail PROVE FALSE
        BY <3>1, <3>2 DEF Fail, IInv, TypeOK
      <3> QED BY <3>1, <3>2 DEF Next, Moodle, Advance, Tick, Publish, Withdraw, Enroll, Leave, Change,
            ListCourses, FetchChanged, TakeWhole, AskUpdates, Detected, StoreSections, StoreMarks,
            RefuseMarks, StoreModules, StoreFiles, StoreTasks, Refused, Purge, Begin, outside, rows, run, storing
    <2> QED BY <2>1, FinishedReconciles DEF IInv, Untouched
  <1>4. DoneRunReconciles <=> [][Vouched]_vars
    BY DEF DoneRunReconciles
  <1> QED BY <1>1, <1>2, <1>3, <1>4, PTL DEF Spec

====
