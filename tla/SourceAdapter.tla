---------------------------- MODULE SourceAdapter ----------------------------
(***************************************************************************)
(* What a source adapter answers to Fetch: NDJSON and CSV feed files read  *)
(* from a byte offset, and REST endpoints paged by number, by cursor or by *)
(* Link header. A feed is a sequence of rows, and a checkpoint a number of *)
(* rows: the byte offset behind them, the number of the page that follows  *)
(* them, the server's token for what follows them. 0 stands for the empty  *)
(* checkpoint, which as a NextCheckpoint says that there is no more.       *)
(* Malformed rows are skipped and counted; that FAIL_FAST makes an error   *)
(* of them, as of a failing read or request, is up to the caller.          *)
(***************************************************************************)
EXTENDS Naturals, FiniteSetsExt

CONSTANTS
  FeedLength,        \* rows of the source's feed
  BatchSize,         \* FetchRequest.BatchSize, which only feed files heed
  PageSize           \* PagePagination.PageSize

ASSUME FeedAssumption == FeedLength \in Nat /\ BatchSize \in Nat \ {0} /\ PageSize \in Nat \ {0}

Rows == 1 .. FeedLength
Positions == 0 .. FeedLength

VARIABLES
  kind,              \* which adapter the source has
  feed               \* what each row is, fixed throughout

sourceVars == <<kind, feed>>

\* An NDJSON file may lack the newline at its end.
FeedKinds == {"ndjson", "ndjson_unterminated", "csv"}
Kinds == FeedKinds \cup {"page", "cursor"}

\* A blank line is no row to an adapter; REST bodies have none.
RowTypes(k) == {"sound", "malformed"} \cup (IF k \in FeedKinds THEN {"blank"} ELSE {})

Of(t) == {r \in Rows : feed[r] = t}
Sound == Of("sound")
Malformed == Of("malformed")

SourceTypeOK ==
  /\ kind \in Kinds
  /\ feed \in [Rows -> RowTypes(kind)]

SourceInit ==
  /\ kind \in Kinds
  /\ feed \in [Rows -> RowTypes(kind)]

-----------------------------------------------------------------------------
(* FeedFileAdapter                                                         *)

Behind(c, S) == {r \in S : r > c}

\* Where the loop has its limit of sound rows.
FullAt(c) ==
  {p \in Behind(c, Sound) : Cardinality({r \in Behind(c, Sound) : r <= p}) >= BatchSize}

Upto(c, p, next) == [rows |-> Behind(c, 1 .. p), next |-> next]

\* The end of the file is met before the limit.
ToTheEnd(c) == Upto(c, FeedLength, 0)

\* streamNDJSON: the loop ends at the limit and does not look further, so an empty batch
\* may follow; but a last line without newline comes with io.EOF.
NDJSON(c) ==
  LET p == Min(FullAt(c)) IN
  IF FullAt(c) = {} \/ (kind = "ndjson_unterminated" /\ p = FeedLength) THEN ToTheEnd(c)
  ELSE Upto(c, p, p)

\* Bug: the row read ahead is taken to be behind the checkpoint.
CSVPastLookahead(c) ==
  LET p == Min(FullAt(c)) IN
  IF FullAt(c) = {} \/ Behind(p, Sound \cup Malformed) = {} THEN ToTheEnd(c)
  ELSE Upto(c, p, Min(Behind(p, Sound \cup Malformed)))

\* streamCSV: at the limit one row is read ahead, and the checkpoint is the offset before
\* it. At offset 0 the header is passed over.
CSV(c) ==
  LET p == Min(FullAt(c)) IN
  IF FullAt(c) = {} \/ Behind(p, Sound \cup Malformed) = {} THEN ToTheEnd(c)
  ELSE Upto(c, p, p)

-----------------------------------------------------------------------------
(* RESTAdapter                                                             *)

\* PagePagination: a page that is not full is the last one.
Page(c) ==
  IF Cardinality(Behind(c, 1 .. c + PageSize) \cap Rows) < PageSize THEN ToTheEnd(c)
  ELSE Upto(c, c + PageSize, c + PageSize)

\* CursorPagination and LinkHeaderPagination: the server puts what it likes into a page,
\* and names the next one unless nothing follows; or it still names one then. The adapter
\* takes a repeated cursor for the end, wherever it is: FeedLength is where the server
\* stops naming new ones, so that what a server holds back behind one is no row here.
Token(c) == {Upto(c, p, p) : p \in Behind(c, Rows)} \cup {ToTheEnd(c)}

\* What Fetch may return at checkpoint c.
Answers(c) ==
  CASE kind \in {"ndjson", "ndjson_unterminated"} -> {NDJSON(c)}
    [] kind = "csv" -> {CSV(c)}
    [] kind = "page" -> {Page(c)}
    [] kind = "cursor" -> Token(c)

=============================================================================
