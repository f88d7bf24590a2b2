------------------------------- MODULE Listing -------------------------------
(***************************************************************************)
(* Cursor pagination (src/shared/pagination), newest first.  A row is      *)
(* identified by its key [ts, id]: the time it is sorted by and, among     *)
(* equal times, its id.  A client walks a list by passing back the last    *)
(* cursor of each page while hasMore is true.                              *)
(***************************************************************************)
EXTENDS Naturals, Sequences, FiniteSets

\* A cursor on the wire is the text `<timestamp>:<id>', or any other text.
encodeCursor(k) == [form |-> "timestamp:id", key |-> k]

NoCursor == [form |-> "absent"]

Garbled == [form |-> "other"]

malformedCursor == [form |-> "malformed"]

decodeCursor(raw) == IF raw.form = "timestamp:id" THEN raw ELSE malformedCursor

decodeOptionalCursor(raw) == IF raw = NoCursor THEN NoCursor ELSE decodeCursor(raw)

Newer(a, b) == a.ts > b.ts \/ (a.ts = b.ts /\ a.id > b.id)

AfterByTime(keys, cursor) ==
  IF cursor = NoCursor THEN keys ELSE {k \in keys : cursor.key.ts > k.ts}

\* The rows a query with this cursor is about: all of them, or those after it.
After(keys, cursor) ==
  IF cursor = NoCursor THEN keys ELSE {k \in keys : Newer(cursor.key, k)}

\* The first n rows, or all of them.
take(s, n) == [i \in 1..(IF Len(s) < n THEN Len(s) ELSE n) |-> s[i]]

\* ORDER BY timestamp DESC, id DESC LIMIT n: a row's place is after all newer ones.
Ordered(keys, n) ==
  LET size == Cardinality(keys)
  IN [i \in 1..(IF size < n THEN size ELSE n) |->
        CHOOSE k \in keys : Cardinality({x \in keys : Newer(x, k)}) = i - 1]

PageOf(keys, cursor, n) == Ordered(After(keys, cursor), n)

RowsOf(s) == {s[i] : i \in DOMAIN s}

NewestFirst(s) == \A i, j \in DOMAIN s : i < j => Newer(s[i], s[j])

\* The response for `rows', fetched with one row more than the limit.
buildListResponse(rows, limit) ==
  LET data == take(rows, limit)
  IN [data |-> data,
      hasMore |-> Len(rows) > limit,
      lastCursor |-> IF data = <<>> THEN NoCursor ELSE encodeCursor(data[Len(data)])]
-----------------------------------------------------------------------------
(* What a walk has done so far, for the invariants of the lists.  Of       *)
(* `steady', the rows that were there all along, none may be missed.       *)

Ahead(seen, k) == \A i \in DOMAIN seen : Newer(seen[i], k)

AtCursor(seen, cursor) ==
  cursor = IF seen = <<>> THEN NoCursor ELSE encodeCursor(seen[Len(seen)])

\* Between two pages: what has not been seen is still ahead.
Walked(keys, seen, cursor, steady) ==
  /\ seen \in Seq(keys) /\ NewestFirst(seen) /\ AtCursor(seen, cursor)
  /\ \A k \in steady : k \in RowsOf(seen) \/ Ahead(seen, k)

\* With a page's rows fetched: what is not among them is behind a full page.
Fetched(keys, seen, rows, steady, limit) ==
  /\ rows \in Seq(keys) /\ Len(rows) <= limit + 1 /\ NewestFirst(rows)
  /\ \A i \in DOMAIN rows : Ahead(seen, rows[i])
  /\ \A k \in steady : \/ k \in RowsOf(seen) \cup RowsOf(rows)
                       \/ Len(rows) = limit + 1 /\ Ahead(rows, k)
=============================================================================
