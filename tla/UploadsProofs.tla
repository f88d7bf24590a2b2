---------------------------- MODULE UploadsProofs ----------------------------
(***************************************************************************)
(* Proofs about Uploads: for every number of files, users, requests,       *)
(* sweeps and uploads, a confirmed file has its object while its owner     *)
(* exists, was announced once, and holds the bytes that were checked.      *)
(***************************************************************************)
EXTENDS Uploads, WellFoundedInduction, TLAPS

USE UploadsAssumption

\* The columns of a row: it is declared before it is inserted, its URL is issued
\* after; the check is never ahead of the uploads.
RowInv ==
  \A f \in Files :
    /\ status[f] # "none" => declared[f] \in Contents
    /\ url[f] # "unissued" => status[f] # "none"
    /\ checked[f] <= puts[f]

\* Two requests never insert the same row.
InsertInv ==
  \A r, o \in Requests :
    pc[r] = "insert" /\ pc[o] = "insert" /\ req[r].file = req[o].file => r = o

\* What a request has read still holds as far as its next statement relies on it:
\* an object found for a pending file is removed only with its owner's account, and
\* the same upload has the same bytes.
RequestOK(r) ==
  /\ pc[r] # "idle" => req[r].file \in Files /\ req[r].puts <= puts[req[r].file]
  /\ pc[r] = "insert" =>
       status[req[r].file] = "none" /\ declared[req[r].file] \in Contents
  /\ pc[r] \in {"policy", "head", "range", "save"} => status[req[r].file] # "none"
  /\ pc[r] \in {"range", "save"} =>
       /\ status[req[r].file] = "pending" /\ Owner[req[r].file] \in users
            => object[req[r].file] # NULL
       /\ req[r].puts = puts[req[r].file] /\ object[req[r].file] # NULL
            => object[req[r].file].size = req[r].size
  /\ pc[r] = "save" /\ req[r].puts = puts[req[r].file] /\ object[req[r].file] # NULL
       => object[req[r].file].type = req[r].type
RequestInv == \A r \in Requests : RequestOK(r)

\* What a worker may still remove: a sweep, the rows it has claimed; the purge of a
\* user, rows of that user.
WorkerOK(w) ==
  /\ job[w] \in {"loop", "delete"} => todo[w] # {}
  /\ job[w] = "delete" => Oldest(todo[w]) \notin fresh[w]
  /\ \A f \in todo[w] : status[f] # "none"
  /\ w \in Sweepers => \A f \in todo[w] : f \notin fresh[w] => status[f] \in {"discarded", "gone"}
  /\ w \in Users => /\ job[w] # "none" => w \notin users
                    /\ fresh[w] = {}
                    /\ \A f \in todo[w] : Owner[f] = w
WorkerInv == \A w \in Workers : WorkerOK(w)

IInv ==
  /\ TypeOK /\ RowInv /\ InsertInv /\ RequestInv /\ WorkerInv
  /\ ConfirmedHasObject /\ OneEventPerUpload /\ CheckedBytes
-----------------------------------------------------------------------------
USE DEF storage, table, api, workers, Goto, Ends

\* The oldest of some rows is one of them.
LEMMA OldestIn ==
  ASSUME NEW T, T \subseteq Files, T # {}
  PROVE  Oldest(T) \in T
<1>1. Files \subseteq Nat
  BY DEF Files
<1>2. PICK x \in T : \A y \in T : ~(<<y, x>> \in OpToRel(<, Nat))
  BY <1>1, NatLessThanWellFounded, WFMin, Zenon
<1>3. ASSUME NEW y \in T PROVE x <= y
  <2>1. x \in Nat /\ y \in Nat
    BY <1>1
  <2>2. <<y, x>> \in OpToRel(<, Nat) <=> y < x
    BY <2>1 DEF OpToRel
  <2>3. ~(<<y, x>> \in OpToRel(<, Nat))
    BY <1>2, Zenon
  <2>4. ~(y < x)
    BY <2>2, <2>3, Zenon
  <2> QED BY <2>1, <2>4
<1> QED BY <1>3 DEF Oldest

\* A worker that is at a file is at one of its batch.
LEMMA AtAFile ==
  ASSUME TypeOK, WorkerInv, NEW w \in Workers, job[w] \in {"loop", "delete"}
  PROVE  Oldest(todo[w]) \in todo[w] /\ Oldest(todo[w]) \in Files
<1>1. todo[w] \subseteq Files /\ todo[w] # {}
  BY DEF TypeOK, WorkerInv, WorkerOK
<1> QED BY <1>1, OldestIn

\* A batch is part of the rows it is taken from.
LEMMA FirstIsPart == \A rows, limit : First(rows, limit) \subseteq rows
BY DEF First

\* What a request may have read.
Readings == [file : Files \cup {NULL}, status : Statuses,
             type : Types \cup {NULL}, size : Sizes, puts : Nat]

\* The readings a request starts from, and those it adds, are of that kind.
LEMMA ReadingsType ==
  /\ NoRequest \in Readings
  /\ \A f \in Files : [NoRequest EXCEPT !.file = f] \in Readings
  /\ \A f \in Files, s \in Statuses : [NoRequest EXCEPT !.file = f, !.status = s] \in Readings
  /\ \A q \in Readings, n \in Sizes, p \in Nat : [q EXCEPT !.size = n, !.puts = p] \in Readings
  /\ \A q \in Readings, t \in Types : [q EXCEPT !.type = t] \in Readings
<1>1. 0 \in Sizes /\ 0 \in Nat /\ "none" \in Statuses
  BY DEF Sizes, Statuses
<1> QED BY Zenon, <1>1 DEF NoRequest, Readings

\* A request that goes on with such readings keeps the types.
LEMMA GotoType ==
  ASSUME TypeOK, NEW r \in Requests, NEW q \in Readings,
         NEW label \in {"idle", "insert", "policy", "head", "range", "save"},
         Goto(r, label, q)
  PROVE  /\ pc' \in [Requests -> {"idle", "insert", "policy", "head", "range", "save"}]
         /\ req' \in [Requests -> Readings]
BY DEF TypeOK, Readings

\* An object that was found has a type and a size.
LEMMA ObjectType ==
  ASSUME TypeOK, NEW f \in Files, Found(f)
  PROVE  object[f] \in Contents /\ headObject(f) \in Sizes /\ getObjectRange(f) \in Types
BY DEF TypeOK, Found, Contents, headObject, getObjectRange

-----------------------------------------------------------------------------
(* The steps.                                                              *)

\* An upload through an open URL: the object is there, and is a later one than any
\* request has looked at.
LEMMA PutKeeps ==
  ASSUME IInv, NEW f \in Files, Put(f)
  PROVE  IInv'
<1> USE DEF IInv, TypeOK, Put
<1>1. TypeOK' /\ RowInv'
  BY DEF RowInv
<1>2. InsertInv' /\ WorkerInv' /\ OneEventPerUpload'
  BY DEF InsertInv, WorkerInv, WorkerOK, OneEventPerUpload
<1>3. RequestInv'
  BY DEF RequestInv, RequestOK
<1>4. ConfirmedHasObject'
  BY DEF ConfirmedHasObject
<1>5. CheckedBytes'
  BY DEF CheckedBytes, RowInv
<1> QED BY <1>1, <1>2, <1>3, <1>4, <1>5

\* Time passes.
LEMMA TimeKeeps ==
  ASSUME IInv, NEW f \in Files, UrlExpires(f) \/ GrowsStale(f)
  PROVE  IInv'
<1> USE DEF IInv, TypeOK, UrlExpires, GrowsStale
<1>0. TypeOK'
  BY Zenon
<1>1. RowInv'
  BY DEF RowInv
<1>2. InsertInv' /\ WorkerInv' /\ RequestInv'
  BY SMTT(30) DEF InsertInv, WorkerInv, WorkerOK, RequestInv, RequestOK
<1>3. ConfirmedHasObject' /\ OneEventPerUpload' /\ CheckedBytes'
  BY DEF ConfirmedHasObject, OneEventPerUpload, CheckedBytes
<1> QED BY <1>0, <1>1, <1>2, <1>3

\* A request presigns a file that nobody else is inserting.
LEMMA PresignKeeps ==
  ASSUME IInv, NEW r \in Requests, NEW f \in Files, Presign(r, f)
  PROVE  IInv'
<1> USE DEF IInv, Presign
<1>1. TypeOK'
  <2>1. req' \in [Requests -> Readings] /\ pc' \in [Requests -> {"idle", "insert", "policy", "head", "range", "save"}]
    BY Zenon, ReadingsType, GotoType
  <2> QED BY <2>1 DEF TypeOK, Readings
<1>2. RowInv' /\ InsertInv'
  BY DEF TypeOK, RowInv, InsertInv, Inserting, NoRequest
<1>3. RequestInv'
  BY DEF TypeOK, RequestInv, RequestOK, NoRequest
<1>4. WorkerInv' /\ ConfirmedHasObject' /\ OneEventPerUpload'
  BY DEF TypeOK, WorkerInv, WorkerOK, ConfirmedHasObject, OneEventPerUpload
<1>5. CheckedBytes'
  BY DEF TypeOK, CheckedBytes
<1> QED BY <1>1, <1>2, <1>3, <1>4, <1>5

\* A request finds the file it is to confirm.
LEMMA FindByIdForOwnerKeeps ==
  ASSUME IInv, NEW r \in Requests, NEW f \in Files, FindByIdForOwner(r, f)
  PROVE  IInv'
<1> USE DEF IInv, FindByIdForOwner
<1>1. TypeOK'
  <2>1. status[f] \in Statuses
    BY DEF TypeOK
  <2>2. req' \in [Requests -> Readings] /\ pc' \in [Requests -> {"idle", "insert", "policy", "head", "range", "save"}]
    BY Zenon, <2>1, ReadingsType, GotoType
  <2> QED BY <2>2 DEF TypeOK, Readings
<1>2. RowInv' /\ WorkerInv'
  BY DEF TypeOK, RowInv, WorkerInv, WorkerOK
<1>3. InsertInv'
  BY DEF TypeOK, InsertInv, NoRequest
<1>4. RequestInv'
  BY DEF TypeOK, RequestInv, RequestOK, RowInv, NoRequest
<1>5. ConfirmedHasObject' /\ OneEventPerUpload' /\ CheckedBytes'
  BY DEF ConfirmedHasObject, OneEventPerUpload, CheckedBytes
<1> QED BY <1>1, <1>2, <1>3, <1>4, <1>5

\* The INSERT: the row is the request's own, so no other is overwritten.
LEMMA SaveKeeps ==
  ASSUME IInv, NEW r \in Requests, Save(r)
  PROVE  IInv'
<1> USE DEF IInv, TypeOK, Save
<1>1. TypeOK' /\ RowInv'
  BY DEF Statuses, RowInv, RequestInv, RequestOK
<1>2. InsertInv' /\ WorkerInv'
  BY DEF InsertInv, RequestInv, RequestOK, WorkerInv, WorkerOK
<1>3. RequestInv'
  BY DEF RequestInv, RequestOK, InsertInv
<1>4. ConfirmedHasObject' /\ OneEventPerUpload' /\ CheckedBytes'
  BY DEF RequestInv, RequestOK, ConfirmedHasObject, OneEventPerUpload, CheckedBytes
<1> QED BY <1>1, <1>2, <1>3, <1>4

\* A step that only ends a request keeps the invariant.
LEMMA EndsKeeps ==
  ASSUME IInv, NEW r \in Requests, Ends(r),
         UNCHANGED <<driver, users, object, puts, table, workers>>,
         \/ UNCHANGED url
         \/ pc[r] = "policy" /\ url' = [url EXCEPT ![req[r].file] = "open"]
  PROVE  IInv'
<1> USE DEF IInv
<1>1. TypeOK'
  <2>1. req' \in [Requests -> Readings] /\ pc' \in [Requests -> {"idle", "insert", "policy", "head", "range", "save"}]
    BY Zenon, ReadingsType, GotoType
  <2> QED BY <2>1 DEF TypeOK, Readings
<1>2. RowInv' /\ WorkerInv'
  BY DEF TypeOK, RowInv, WorkerInv, WorkerOK, RequestInv, RequestOK
<1>3. InsertInv' /\ RequestInv'
  BY DEF TypeOK, InsertInv, RequestInv, RequestOK
<1>4. ConfirmedHasObject' /\ OneEventPerUpload' /\ CheckedBytes'
  BY DEF ConfirmedHasObject, OneEventPerUpload, CheckedBytes
<1> QED BY <1>1, <1>2, <1>3, <1>4

\* The size of the object, and which upload it was.
LEMMA HeadObjectKeeps ==
  ASSUME IInv, NEW r \in Requests, HeadObject(r)
  PROVE  IInv'
<1>1. CASE ~Found(req[r].file)
  BY <1>1, EndsKeeps DEF HeadObject
<1>2. CASE Found(req[r].file)
  <2> DEFINE f == req[r].file
             q == [req[r] EXCEPT !.size = headObject(f), !.puts = puts[f]]
  <2>0. /\ TypeOK /\ RowInv /\ InsertInv /\ RequestInv /\ WorkerInv
        /\ pc[r] = "head" /\ Goto(r, "range", q)
        /\ UNCHANGED <<driver, users, storage, table, workers>>
    BY <1>2 DEF IInv, HeadObject
  <2>1. f \in Files /\ puts[f] \in Nat /\ req[r] \in Readings
    BY <2>0 DEF TypeOK, RequestInv, RequestOK, Readings
  <2>2. headObject(f) \in Sizes /\ q \in Readings
    BY Zenon, <1>2, <2>0, <2>1, ObjectType, ReadingsType
  <2>3. TypeOK'
    BY Zenon, <2>0, <2>2, GotoType DEF TypeOK, Readings
  <2>4. q.file = f /\ q.puts = puts[f] /\ q.size = object[f].size
    BY <2>1 DEF Readings, headObject
  <2>5. InsertInv'
    BY <2>0 DEF InsertInv, TypeOK
  <2>6. RequestInv'
    <3>1. pc'[r] = "range" /\ req'[r] = q
      BY <2>0 DEF TypeOK
    <3>2. ASSUME NEW o \in Requests, o # r PROVE pc'[o] = pc[o] /\ req'[o] = req[o]
      BY <2>0, <3>2 DEF TypeOK
    <3>3. object[f] # NULL /\ status[f] # "none"
      BY <1>2, <2>0 DEF Found, RequestInv, RequestOK
    <3>4. ASSUME NEW o \in Requests, o # r PROVE RequestOK(o)'
      BY <2>0, <3>2, <3>4 DEF RequestInv, RequestOK
    <3> HIDE DEF q
    <3>5. RequestOK(r)'
      BY <2>0, <2>1, <2>4, <3>1, <3>3 DEF RequestInv, RequestOK, TypeOK
    <3> QED BY <3>4, <3>5 DEF RequestInv
  <2>7. RowInv' /\ WorkerInv'
    BY <2>0 DEF RowInv, WorkerInv, WorkerOK
  <2>8. ConfirmedHasObject' /\ OneEventPerUpload' /\ CheckedBytes'
    BY <2>0 DEF IInv, ConfirmedHasObject, OneEventPerUpload, CheckedBytes
  <2> QED BY <2>3, <2>5, <2>6, <2>7, <2>8 DEF IInv
<1> QED BY <1>1, <1>2

\* The leading bytes: if no upload came between, of the object whose size was read.
LEMMA GetObjectRangeKeeps ==
  ASSUME IInv, NEW r \in Requests, GetObjectRange(r)
  PROVE  IInv'
<1>1. CASE ~Found(req[r].file)
  BY <1>1, EndsKeeps DEF GetObjectRange
<1>2. CASE Found(req[r].file)
  <2> DEFINE f == req[r].file
             q == [req[r] EXCEPT !.type = getObjectRange(f)]
  <2>0. /\ TypeOK /\ RowInv /\ InsertInv /\ RequestInv /\ WorkerInv
        /\ pc[r] = "range" /\ Goto(r, "save", q)
        /\ UNCHANGED <<driver, users, storage, table, workers>>
    BY <1>2 DEF IInv, GetObjectRange
  <2>1. f \in Files /\ req[r] \in Readings
    BY <2>0 DEF TypeOK, RequestInv, RequestOK, Readings
  <2>2. getObjectRange(f) \in Types /\ q \in Readings
    BY Zenon, <1>2, <2>0, <2>1, ObjectType, ReadingsType
  <2>3. TypeOK'
    BY Zenon, <2>0, <2>2, GotoType DEF TypeOK, Readings
  <2>4. q.file = f /\ q.puts = req[r].puts /\ q.size = req[r].size /\ q.type = object[f].type
    BY <2>1 DEF Readings, getObjectRange
  <2>5. InsertInv'
    BY <2>0 DEF InsertInv, TypeOK
  <2>6. RequestInv'
    <3>1. pc'[r] = "save" /\ req'[r] = q
      BY <2>0 DEF TypeOK
    <3>2. ASSUME NEW o \in Requests, o # r PROVE pc'[o] = pc[o] /\ req'[o] = req[o]
      BY <2>0, <3>2 DEF TypeOK
    <3>3. object[f] # NULL /\ status[f] # "none"
      BY <1>2, <2>0 DEF Found, RequestInv, RequestOK
    <3>4. ASSUME NEW o \in Requests, o # r PROVE RequestOK(o)'
      BY SMTT(30), <2>0, <3>2, <3>4 DEF RequestInv, RequestOK
    <3> HIDE DEF q
    <3>5. RequestOK(r)'
      BY <2>0, <2>1, <2>4, <3>1, <3>3 DEF RequestInv, RequestOK, TypeOK
    <3> QED BY <3>4, <3>5 DEF RequestInv
  <2>7. RowInv' /\ WorkerInv'
    BY <2>0 DEF RowInv, WorkerInv, WorkerOK
  <2>8. ConfirmedHasObject' /\ OneEventPerUpload' /\ CheckedBytes'
    BY SMTT(30), <2>0 DEF IInv, ConfirmedHasObject, OneEventPerUpload, CheckedBytes
  <2> QED BY <2>3, <2>5, <2>6, <2>7, <2>8 DEF IInv
<1> QED BY <1>1, <1>2

\* What the transaction of a confirmation does to the row: nothing; or, to a row
\* that is still pending, a discard, or a confirmation with its event.
LEMMA ConfirmCases ==
  ASSUME IInv, NEW r \in Requests, ConfirmUpload(r), NEW f, f = req[r].file
  PROVE  \/ UNCHANGED <<status, events, checked>>
         \/ /\ status[f] = "pending" /\ status' = [status EXCEPT ![f] = "discarded"]
            /\ UNCHANGED <<events, checked>>
         \/ /\ status[f] = "pending" /\ status' = [status EXCEPT ![f] = "confirmed"]
            /\ events' = [events EXCEPT ![f] = @ + 1]
            /\ checked' = [checked EXCEPT ![f] = req[r].puts]
            /\ req[r].size = declared[f].size /\ req[r].type = declared[f].type
<1>1. f \in Files /\ status \in [Files -> Statuses] /\ events \in [Files -> Nat] /\ checked \in [Files -> Nat]
  BY Zenon DEF IInv, TypeOK, RequestInv, RequestOK, ConfirmUpload
<1>2. CASE confirm(req[r]) = "conflict"
  <2>1. ~Stored(req[r])
    BY <1>2 DEF Stored
  <2> QED BY <1>1, <1>2, <2>1 DEF ConfirmUpload
<1>3. CASE confirm(req[r]) # "conflict" /\ ~Matches(f, req[r].status)
  <2>1. ~Stored(req[r])
    BY <1>3 DEF Stored
  <2> QED BY Zenon, <1>1, <1>3, <2>1 DEF ConfirmUpload, compareAndSave
<1>4. CASE confirm(req[r]) # "conflict" /\ Matches(f, req[r].status)
  <2>1. status[f] = "pending"
    BY <1>4 DEF confirm, Matches
  <2>2. CASE confirm(req[r]) = "confirmed"
    <3>1. Stored(req[r])
      BY <1>4, <2>2 DEF Stored
    <3>2. req[r].size = declared[f].size /\ req[r].type = declared[f].type
      BY Zenon, <2>2 DEF confirm
    <3> QED BY <1>1, <1>4, <2>1, <2>2, <3>1, <3>2 DEF ConfirmUpload, compareAndSave
  <2>3. CASE confirm(req[r]) # "confirmed"
    <3>1. ~Stored(req[r]) /\ confirm(req[r]) = "discarded"
      BY <1>4, <2>3 DEF Stored, confirm
    <3> QED BY <1>1, <1>4, <2>1, <3>1 DEF ConfirmUpload, compareAndSave
  <2> QED BY <2>2, <2>3
<1> QED BY <1>2, <1>3, <1>4

\* The transaction of a confirmation.
LEMMA ConfirmUploadKeeps ==
  ASSUME IInv, NEW r \in Requests, ConfirmUpload(r)
  PROVE  IInv'
<1> DEFINE f == req[r].file
<1>0. /\ TypeOK /\ RowInv /\ InsertInv /\ RequestInv /\ WorkerInv
      /\ ConfirmedHasObject /\ OneEventPerUpload /\ CheckedBytes
      /\ pc[r] = "save" /\ Ends(r)
      /\ UNCHANGED <<driver, users, storage, declared, stale, workers>>
  BY DEF IInv, ConfirmUpload
<1>1. f \in Files /\ req[r].puts \in Nat /\ req[r].puts <= puts[f]
  BY <1>0 DEF TypeOK, RequestInv, RequestOK
<1>2. CASE UNCHANGED <<status, events, checked>>
  BY Zenon, <1>0, <1>2, EndsKeeps
<1>3. ASSUME status[f] = "pending", NEW new \in {"discarded", "confirmed"},
             status' = [status EXCEPT ![f] = new]
      PROVE  InsertInv' /\ RequestInv' /\ WorkerInv'
  <2>1. InsertInv'
    BY <1>0 DEF TypeOK, InsertInv
  <2>2. ASSUME NEW o \in Requests PROVE RequestOK(o)'
    <3>1. CASE o = r
      BY ZenonT(30), <1>0, <3>1 DEF TypeOK, RequestOK
    <3>2. CASE o # r
      BY <1>0, <1>1, <1>3, <3>2 DEF TypeOK, RequestInv, RequestOK
    <3> QED BY <3>1, <3>2
  <2>3. ASSUME NEW w \in Workers PROVE WorkerOK(w)'
    BY <1>0, <1>1, <1>3 DEF TypeOK, WorkerInv, WorkerOK
  <2> QED BY <2>1, <2>2, <2>3 DEF RequestInv, WorkerInv
<1>4. pc' \in [Requests -> {"idle", "insert", "policy", "head", "range", "save"}] /\ req' \in [Requests -> Readings]
  BY Zenon, <1>0, ReadingsType, GotoType
<1>5. CASE /\ status[f] = "pending" /\ status' = [status EXCEPT ![f] = "discarded"]
           /\ UNCHANGED <<events, checked>>
  <2>1. TypeOK' /\ RowInv'
    BY <1>0, <1>1, <1>4, <1>5 DEF TypeOK, Readings, RowInv, Statuses
  <2>2. ConfirmedHasObject' /\ OneEventPerUpload' /\ CheckedBytes'
    BY ZenonT(30), <1>0, <1>1, <1>5 DEF TypeOK, ConfirmedHasObject, OneEventPerUpload, CheckedBytes
  <2> QED BY <1>3, <1>5, <2>1, <2>2 DEF IInv
<1>6. CASE /\ status[f] = "pending" /\ status' = [status EXCEPT ![f] = "confirmed"]
           /\ events' = [events EXCEPT ![f] = @ + 1]
           /\ checked' = [checked EXCEPT ![f] = req[r].puts]
           /\ req[r].size = declared[f].size /\ req[r].type = declared[f].type
  <2>0. TypeOK'
    BY <1>0, <1>1, <1>4, <1>6 DEF TypeOK, Readings, Statuses
  <2>1. RowInv'
    BY Zenon, <1>0, <1>1, <1>6 DEF TypeOK, RowInv
  <2>2. ConfirmedHasObject'
    BY Zenon, <1>0, <1>1, <1>6 DEF TypeOK, ConfirmedHasObject, RequestInv, RequestOK
  <2>3. OneEventPerUpload'
    BY SMTT(30), <1>0, <1>1, <1>6 DEF TypeOK, OneEventPerUpload
  <2>4. CheckedBytes'
    <3>1. ASSUME req[r].puts = puts[f], object[f] # NULL PROVE object[f] = declared[f]
      <4>1. object[f] \in Contents /\ declared[f] \in Contents
        BY Zenon, <1>0, <1>1, <1>6, <3>1 DEF TypeOK, RowInv
      <4>2. object[f].size = declared[f].size /\ object[f].type = declared[f].type
        BY <1>0, <1>1, <1>6, <3>1 DEF RequestInv, RequestOK
      <4> QED BY <4>1, <4>2 DEF Contents
    <3> QED BY <1>0, <1>1, <1>6, <3>1 DEF TypeOK, CheckedBytes
  <2> QED BY Zenon, <1>3, <1>6, <2>0, <2>1, <2>2, <2>3, <2>4 DEF IInv
<1> QED BY <1>2, <1>5, <1>6, ConfirmCases

\* A sweep begins: what of its batch is not pending is discarded already.
LEMMA FindCleanupCandidatesKeeps ==
  ASSUME IInv, NEW w \in Workers, FindCleanupCandidates(w)
  PROVE  IInv'
<1> DEFINE batch == First(CleanupCandidates, SweepBatch)
<1>0. /\ w \in Sweepers /\ w \notin Users /\ batch # {}
      /\ todo' = [todo EXCEPT ![w] = batch]
      /\ fresh' = [fresh EXCEPT ![w] = {f \in batch : status[f] = "pending"}]
      /\ job' = [job EXCEPT ![w] = "loop"]
      /\ UNCHANGED <<driver, users, storage, table, api, tries, head>>
  BY DEF FindCleanupCandidates
<1>1. /\ batch \subseteq Files
      /\ \A f \in batch : status[f] \in {"pending", "discarded"}
  BY FirstIsPart DEF CleanupCandidates
<1> HIDE DEF batch
<1>2. TypeOK'
  BY <1>0, <1>1 DEF IInv, TypeOK
<1>3. WorkerInv'
  <2>1. ASSUME NEW o \in Workers, o # w
        PROVE  job'[o] = job[o] /\ todo'[o] = todo[o] /\ fresh'[o] = fresh[o]
    BY <1>0, <2>1 DEF IInv, TypeOK
  <2>2. job'[w] = "loop" /\ todo'[w] = batch /\ fresh'[w] = {f \in batch : status[f] = "pending"}
    BY Zenon, <1>0 DEF IInv, TypeOK
  <2> QED BY <1>0, <1>1, <2>1, <2>2 DEF IInv, WorkerInv, WorkerOK
<1>4. RowInv' /\ InsertInv' /\ RequestInv'
  BY ZenonT(30), <1>0 DEF IInv, RowInv, InsertInv, RequestInv, RequestOK
<1>5. ConfirmedHasObject' /\ OneEventPerUpload' /\ CheckedBytes'
  BY <1>0 DEF IInv, ConfirmedHasObject, OneEventPerUpload, CheckedBytes
<1> QED BY <1>2, <1>3, <1>4, <1>5 DEF IInv

\* The claim of a sweep: a row that is no longer pending leaves the batch.
LEMMA ClaimKeeps ==
  ASSUME IInv, NEW w \in Workers, Claim(w)
  PROVE  IInv'
<1> DEFINE f == Oldest(todo[w])
<1> USE DEF Claim, compareAndSave, Matches, Claimed, NextFile
<1>1. f \in todo[w] /\ f \in Files
  BY AtAFile DEF IInv
<1>2. w \notin Users /\ w \in Sweepers
  BY DEF IInv, WorkerInv, WorkerOK, Workers
<1>3. TypeOK'
  <2>1. status' \in [Files -> Statuses] /\ fresh' \in [Workers -> SUBSET Files]
    BY <1>1 DEF IInv, TypeOK, Statuses
  <2>2. /\ todo' \in [Workers -> SUBSET Files]
        /\ job' \in [Workers -> {"none", "waiting", "find", "loop", "delete", "done", "dead"}]
    BY SMTT(30) DEF IInv, TypeOK
  <2> QED BY <2>1, <2>2 DEF IInv, TypeOK
<1>4. WorkerInv'
  BY <1>1, <1>2 DEF IInv, TypeOK, WorkerInv, WorkerOK
<1>5. RowInv' /\ InsertInv' /\ RequestInv'
  BY ZenonT(30), <1>1 DEF IInv, TypeOK, RowInv, InsertInv, RequestInv, RequestOK
<1>6. ConfirmedHasObject' /\ OneEventPerUpload' /\ CheckedBytes'
  BY <1>1 DEF IInv, TypeOK, ConfirmedHasObject, OneEventPerUpload, CheckedBytes
<1> QED BY <1>3, <1>4, <1>5, <1>6 DEF IInv

\* The file a worker removes or deletes is claimed, or of a deleted user.
LEMMA WorkersOwn ==
  ASSUME IInv, NEW w \in Workers, job[w] \in {"loop", "delete"},
         Oldest(todo[w]) \notin fresh[w]
  PROVE  \/ status[Oldest(todo[w])] \in {"discarded", "gone"}
         \/ status[Oldest(todo[w])] # "none" /\ Owner[Oldest(todo[w])] \notin users
<1>1. Oldest(todo[w]) \in todo[w] /\ TypeOK /\ WorkerInv
  BY AtAFile DEF IInv
<1>2. CASE w \in Sweepers
  BY <1>1, <1>2 DEF WorkerInv, WorkerOK
<1>3. CASE w \in Users
  BY <1>1, <1>3 DEF WorkerInv, WorkerOK
<1> QED BY <1>2, <1>3 DEF Workers

\* The object of such a file goes.
LEMMA RemoveKeeps ==
  ASSUME IInv, NEW w \in Workers, Remove(w)
  PROVE  IInv'
<1> DEFINE f == Oldest(todo[w])
<1>1. f \in todo[w] /\ f \in Files
  BY AtAFile DEF IInv, Remove
<1>2. \/ status[f] \in {"discarded", "gone"}
      \/ status[f] # "none" /\ Owner[f] \notin users
  BY WorkersOwn DEF Remove
<1>3. TypeOK'
  BY <1>1 DEF IInv, TypeOK, Remove
<1>4. WorkerInv'
  <2>1. ASSUME NEW o \in Workers, o # w PROVE WorkerOK(o)'
    BY <2>1 DEF IInv, TypeOK, WorkerInv, WorkerOK, Remove
  <2>2. WorkerOK(w)'
    BY DEF IInv, TypeOK, WorkerInv, WorkerOK, Remove
  <2> QED BY SMTT(30), <2>1, <2>2 DEF WorkerInv
<1>5. RowInv' /\ InsertInv' /\ OneEventPerUpload'
  BY ZenonT(30) DEF IInv, RowInv, InsertInv, OneEventPerUpload, Remove
<1>6. RequestInv'
  BY <1>1, <1>2 DEF IInv, TypeOK, RequestInv, RequestOK, Remove
<1>7. ConfirmedHasObject' /\ CheckedBytes'
  BY <1>1, <1>2 DEF IInv, TypeOK, ConfirmedHasObject, CheckedBytes, Remove
<1> QED BY <1>3, <1>4, <1>5, <1>6, <1>7 DEF IInv

\* Its row goes.
LEMMA DeleteByIdKeeps ==
  ASSUME IInv, NEW w \in Workers, DeleteById(w)
  PROVE  IInv'
<1> DEFINE f == Oldest(todo[w])
<1> USE DEF DeleteById, NextFile
<1>1. f \in todo[w] /\ f \in Files /\ status[f] # "none"
  BY AtAFile DEF IInv, WorkerInv, WorkerOK
<1>2. TypeOK'
  BY Zenon, <1>1 DEF IInv, TypeOK, Statuses
<1>3. WorkerInv'
  BY SMTT(30), <1>1 DEF IInv, TypeOK, WorkerInv, WorkerOK
<1>4. RowInv' /\ InsertInv' /\ RequestInv'
  BY ZenonT(30), <1>1 DEF IInv, TypeOK, RowInv, InsertInv, RequestInv, RequestOK
<1>5. ConfirmedHasObject' /\ OneEventPerUpload' /\ CheckedBytes'
  BY <1>1 DEF IInv, TypeOK, ConfirmedHasObject, OneEventPerUpload, CheckedBytes
<1> QED BY <1>2, <1>3, <1>4, <1>5 DEF IInv

\* A purge that fails has used an attempt.
LEMMA RethrowType ==
  ASSUME TypeOK, NEW u \in Workers, Rethrow(u)
  PROVE  /\ job' \in [Workers -> {"none", "waiting", "find", "loop", "delete", "done", "dead"}]
         /\ tries' \in [Workers -> Nat] /\ head' \in [Workers -> Files \cup {NULL}]
         /\ todo' \in [Workers -> SUBSET Files]
         /\ job'[u] \in {"waiting", "dead"} /\ todo'[u] = {}
         /\ \A o \in Workers : o # u => job'[o] = job[o] /\ todo'[o] = todo[o]
<1>1. tries[u] \in Nat /\ tries[u] + 1 \in Nat
  BY DEF TypeOK
<1>2. tries' \in [Workers -> Nat]
  BY <1>1 DEF TypeOK, Rethrow
<1>3. head' \in [Workers -> Files \cup {NULL}] /\ todo' \in [Workers -> SUBSET Files] /\ todo'[u] = {}
  BY DEF TypeOK, Rethrow
<1>4. /\ job' \in [Workers -> {"none", "waiting", "find", "loop", "delete", "done", "dead"}]
      /\ job'[u] \in {"waiting", "dead"}
  BY Zenon DEF TypeOK, Rethrow
<1> QED BY <1>2, <1>3, <1>4 DEF TypeOK, Rethrow

\* A worker that stops has no batch.
LEMMA StopsKeeps ==
  ASSUME WorkerInv, NEW w \in Workers, job[w] # "none",
         job'[w] \notin {"loop", "delete"}, todo'[w] = {}, fresh'[w] \in {fresh[w], {}},
         \A o \in Workers : o # w => job'[o] = job[o] /\ todo'[o] = todo[o] /\ fresh'[o] = fresh[o],
         UNCHANGED <<status, users>>
  PROVE  WorkerInv'
BY DEF WorkerInv, WorkerOK

\* A worker stops.
LEMMA WorkerFailsKeeps ==
  ASSUME IInv, NEW w \in Workers, WorkerFails(w)
  PROVE  IInv'
<1> USE DEF WorkerFails
<1>0. /\ job[w] # "none" /\ fresh' \in [Workers -> SUBSET Files] /\ fresh'[w] = {}
      /\ \A o \in Workers : o # w => fresh'[o] = fresh[o]
  BY DEF IInv, TypeOK
<1>1. TypeOK' /\ WorkerInv'
  <2>1. CASE w \in Users
    <3>1. Rethrow(w)
      BY Zenon, <2>1
    <3>2. TypeOK'
      BY <1>0, <3>1, RethrowType DEF IInv, TypeOK
    <3>3. job'[w] \notin {"loop", "delete"} /\ todo'[w] = {}
      BY SMTT(30), <3>1, RethrowType DEF IInv
    <3>4. \A o \in Workers : o # w => job'[o] = job[o] /\ todo'[o] = todo[o]
      BY <3>1, RethrowType DEF IInv
    <3>5. WorkerInv'
      BY Zenon, <1>0, <3>3, <3>4, StopsKeeps DEF IInv
    <3> QED BY <3>2, <3>5
  <2>2. CASE w \notin Users
    <3>1. TypeOK'
      BY SMTT(30), <1>0, <2>2 DEF IInv, TypeOK
    <3>2. /\ job'[w] \notin {"loop", "delete"} /\ todo'[w] = {}
          /\ \A o \in Workers : o # w => job'[o] = job[o] /\ todo'[o] = todo[o]
      BY <2>2 DEF IInv, TypeOK
    <3>3. WorkerInv'
      BY SMTT(30), <1>0, <3>2, StopsKeeps DEF IInv
    <3> QED BY <3>1, <3>3
  <2> QED BY <2>1, <2>2
<1>2. RowInv' /\ InsertInv' /\ RequestInv'
  BY Zenon DEF IInv, RowInv, InsertInv, RequestInv, RequestOK
<1>3. ConfirmedHasObject' /\ OneEventPerUpload' /\ CheckedBytes'
  BY Zenon DEF IInv, ConfirmedHasObject, OneEventPerUpload, CheckedBytes
<1> QED BY <1>1, <1>2, <1>3 DEF IInv

\* An account goes: the purge of its files may begin.
LEMMA DeleteUserKeeps ==
  ASSUME IInv, NEW u \in Users, DeleteUser(u)
  PROVE  IInv'
<1> USE DEF DeleteUser
<1>1. TypeOK' /\ RowInv' /\ InsertInv'
  BY Zenon DEF IInv, TypeOK, RowInv, InsertInv, Workers
<1>2. WorkerInv'
  BY ZenonT(30) DEF IInv, TypeOK, WorkerInv, WorkerOK, Workers
<1>3. RequestInv'
  BY DEF IInv, RequestInv, RequestOK
<1>4. ConfirmedHasObject' /\ OneEventPerUpload' /\ CheckedBytes'
  BY Zenon DEF IInv, ConfirmedHasObject, OneEventPerUpload, CheckedBytes
<1> QED BY Zenon, <1>1, <1>2, <1>3, <1>4 DEF IInv

\* A purge takes its next batch, is done, or gives up.
LEMMA FindAllByOwnerKeeps ==
  ASSUME IInv, NEW u \in Users, FindAllByOwner(u)
  PROVE  IInv'
<1> DEFINE rows == {f \in Files : Owner[f] = u /\ status[f] \notin {"none", "gone"}}
           owned == First(rows, PurgeBatch)
<1>0. /\ job[u] \in {"waiting", "find"} /\ u \in Workers
      /\ UNCHANGED <<driver, users, storage, table, api, fresh>>
      /\ \/ /\ job' = [job EXCEPT ![u] = "done"]
            /\ head' = [head EXCEPT ![u] = NULL]
            /\ UNCHANGED <<todo, tries>>
         \/ Rethrow(u)
         \/ /\ owned # {}
            /\ head' = [head EXCEPT ![u] = Oldest(owned)]
            /\ todo' = [todo EXCEPT ![u] = owned]
            /\ job' = [job EXCEPT ![u] = "loop"]
            /\ UNCHANGED tries
  BY DEF FindAllByOwner, Workers
<1>1. /\ owned \subseteq Files
      /\ \A f \in owned : Owner[f] = u /\ status[f] # "none"
  BY FirstIsPart
<1>2. owned # {} => Oldest(owned) \in Files
  BY <1>1, OldestIn
<1> HIDE DEF rows, owned
<1>3. RowInv' /\ InsertInv' /\ RequestInv'
  BY Zenon, <1>0 DEF IInv, RowInv, InsertInv, RequestInv, RequestOK
<1>4. ConfirmedHasObject' /\ OneEventPerUpload' /\ CheckedBytes'
  BY Zenon, <1>0 DEF IInv, ConfirmedHasObject, OneEventPerUpload, CheckedBytes
<1>5. CASE Rethrow(u)
  <2>1. TypeOK'
    BY Zenon, <1>0, <1>5, RethrowType DEF IInv, TypeOK
  <2>2. job'[u] \notin {"loop", "delete"} /\ todo'[u] = {} /\ job[u] # "none"
    BY Zenon, <1>0, <1>5, RethrowType DEF IInv
  <2>3. \A o \in Workers : o # u => job'[o] = job[o] /\ todo'[o] = todo[o] /\ fresh'[o] = fresh[o]
    BY ZenonT(30), <1>0, <1>5, RethrowType DEF IInv
  <2>4. WorkerInv'
    BY <1>0, <2>2, <2>3, StopsKeeps DEF IInv
  <2> QED BY Zenon, <1>3, <1>4, <2>1, <2>4 DEF IInv
<1>6. CASE ~Rethrow(u)
  <2>1. head' \in [Workers -> Files \cup {NULL}]
    BY Zenon, <1>0, <1>2, <1>6 DEF IInv, TypeOK
  <2>2. todo' \in [Workers -> SUBSET Files]
    BY <1>0, <1>1, <1>6 DEF IInv, TypeOK
  <2>3. /\ job' \in [Workers -> {"none", "waiting", "find", "loop", "delete", "done", "dead"}]
        /\ tries' \in [Workers -> Nat]
    BY Zenon, <1>0, <1>6 DEF IInv, TypeOK
  <2>4. TypeOK'
    BY Zenon, <1>0, <2>1, <2>2, <2>3 DEF IInv, TypeOK
  <2>5. ASSUME NEW o \in Workers, o # u
        PROVE  job'[o] = job[o] /\ todo'[o] = todo[o] /\ fresh'[o] = fresh[o]
    BY Zenon, <1>0, <1>6, <2>5 DEF IInv, TypeOK
  <2>6. u \notin Sweepers /\ u \notin users /\ fresh'[u] = {}
    BY Zenon, <1>0 DEF IInv, TypeOK, WorkerInv, WorkerOK
  <2>7. \/ job'[u] = "done" /\ todo'[u] = todo[u]
        \/ job'[u] = "loop" /\ todo'[u] = owned /\ owned # {}
    BY <1>0, <1>6 DEF IInv, TypeOK
  <2>8. ASSUME NEW o \in Workers, o # u PROVE WorkerOK(o)'
    BY ZenonT(30), <1>0, <2>5, <2>8 DEF IInv, WorkerInv, WorkerOK
  <2>9. WorkerOK(u)'
    BY <1>0, <1>1, <2>6, <2>7 DEF IInv, WorkerInv, WorkerOK
  <2> QED BY Zenon, <1>3, <1>4, <2>4, <2>8, <2>9 DEF IInv, WorkerInv
<1> QED BY Zenon, <1>5, <1>6

-----------------------------------------------------------------------------
(* The theorems.                                                           *)

\* No file exists in an initial state.
LEMMA InitHolds == Init => IInv
<1> SUFFICES ASSUME Init PROVE IInv
  OBVIOUS
<1>0. NoRequest \in Readings
  BY Zenon, ReadingsType
<1> USE DEF Init
<1>1. TypeOK
  <2>1. req \in [Requests -> Readings]
    BY Zenon, <1>0
  <2> QED BY <2>1 DEF TypeOK, Readings, Statuses
<1>2. RowInv
  BY SMTT(30) DEF RowInv
<1>3. InsertInv /\ RequestInv
  BY DEF InsertInv, RequestInv, RequestOK
<1>4. WorkerInv
  BY DEF WorkerInv, WorkerOK
<1>5. ConfirmedHasObject /\ OneEventPerUpload /\ CheckedBytes
  BY DEF ConfirmedHasObject, OneEventPerUpload, CheckedBytes
<1> QED BY <1>1, <1>2, <1>3, <1>4, <1>5 DEF IInv

\* Every step of a client, a request, a sweep or a purge keeps the invariant.
LEMMA NextKeeps == IInv /\ [Next]_vars => IInv'
<1> SUFFICES ASSUME IInv, [Next]_vars PROVE IInv'
  OBVIOUS
<1>1. CASE UNCHANGED vars
  <2> USE <1>1 DEF vars
  <2>1. TypeOK'
    BY DEF IInv, TypeOK
  <2>2. RowInv' /\ InsertInv' /\ RequestInv'
    BY Zenon DEF IInv, RowInv, InsertInv, RequestInv, RequestOK
  <2>3. WorkerInv'
    BY Zenon DEF IInv, WorkerInv, WorkerOK
  <2>4. ConfirmedHasObject' /\ OneEventPerUpload' /\ CheckedBytes'
    BY Zenon DEF IInv, ConfirmedHasObject, OneEventPerUpload, CheckedBytes
  <2> QED BY Zenon, <2>1, <2>2, <2>3, <2>4 DEF IInv
<1>2. ASSUME NEW f \in Files, Put(f) \/ UrlExpires(f) \/ GrowsStale(f) PROVE IInv'
  BY <1>2, PutKeeps, TimeKeeps
<1>3. ASSUME NEW r \in Requests, NEW f \in Files, Presign(r, f) \/ FindByIdForOwner(r, f)
      PROVE  IInv'
  BY <1>3, PresignKeeps, FindByIdForOwnerKeeps
<1>4. ASSUME NEW r \in Requests,
             Save(r) \/ HeadObject(r) \/ GetObjectRange(r) \/ ConfirmUpload(r)
      PROVE  IInv'
  BY Zenon, <1>4, SaveKeeps, HeadObjectKeeps, GetObjectRangeKeeps, ConfirmUploadKeeps
<1>5. ASSUME NEW r \in Requests, CreateUploadPolicy(r) \/ RequestFails(r) PROVE IInv'
  BY <1>5, EndsKeeps DEF CreateUploadPolicy, RequestFails
<1>6. ASSUME NEW w \in Workers, FindCleanupCandidates(w) \/ Work(w) \/ WorkerFails(w)
      PROVE  IInv'
  BY <1>6, FindCleanupCandidatesKeeps, ClaimKeeps, RemoveKeeps, DeleteByIdKeeps,
     WorkerFailsKeeps DEF Work
<1>7. ASSUME NEW u \in Users, DeleteUser(u) \/ FindAllByOwner(u) PROVE IInv'
  BY <1>7, DeleteUserKeeps, FindAllByOwnerKeeps
<1> QED BY <1>1, <1>2, <1>3, <1>4, <1>5, <1>6, <1>7 DEF Next

\* The inductive invariant of the uploads.
THEOREM InductiveInvariant == Spec => []IInv
<1>1. Init => IInv
  BY InitHolds
<1>2. IInv /\ [Next]_vars => IInv'
  BY NextKeeps
<1> QED BY <1>1, <1>2, PTL DEF Spec

\* Rows, objects, requests and workers stay well formed.
THEOREM TypeCorrect == Spec => []TypeOK
<1>1. IInv => TypeOK
  BY DEF IInv
<1> QED BY <1>1, InductiveInvariant, PTL

\* The compare-and-set of the confirmation and of the sweep: while its owner exists,
\* a confirmed file has its object, whatever sweeps and purges are in flight.
THEOREM ConfirmedKeepsObject == Spec => []ConfirmedHasObject
<1>1. IInv => ConfirmedHasObject
  BY DEF IInv
<1> QED BY <1>1, InductiveInvariant, PTL

\* A confirmation is announced once, with the transaction that confirms.
THEOREM AnnouncedOnce == Spec => []OneEventPerUpload
<1>1. IInv => OneEventPerUpload
  BY DEF IInv
<1> QED BY <1>1, InductiveInvariant, PTL

\* A confirmed object that was not uploaded again has the declared type and size,
\* although it was read in two calls.
THEOREM ConfirmedBytesMatch == Spec => []CheckedBytes
<1>1. IInv => CheckedBytes
  BY DEF IInv
<1> QED BY <1>1, InductiveInvariant, PTL

\* A confirmed file is deleted only after its owner's account was.
THEOREM ConfirmedForGood == Spec => ConfirmedStays
<1> DEFINE Stays == \A f \in Files : status[f] = "confirmed" /\ status'[f] # "confirmed"
                      => status'[f] = "gone" /\ Owner[f] \notin users
<1>1. ASSUME IInv, [Next]_vars PROVE [Stays]_vars
  <2>1. CASE UNCHANGED vars
    BY <2>1
  <2>2. CASE UNCHANGED status
    BY Zenon, <2>2
  <2>3. ASSUME NEW r \in Requests, Save(r) \/ ConfirmUpload(r) PROVE Stays
    <3>1. CASE Save(r)
      BY Zenon, <1>1, <3>1 DEF IInv, TypeOK, RequestInv, RequestOK, Save
    <3>2. CASE ConfirmUpload(r)
      <4>1. req[r].file \in Files /\ status \in [Files -> Statuses]
        BY Zenon, <1>1, <3>2 DEF IInv, TypeOK, RequestInv, RequestOK, ConfirmUpload
      <4> QED BY Zenon, <1>1, <3>2, <4>1 DEF ConfirmUpload, compareAndSave, Matches, confirm
    <3> QED BY SMTT(30), <2>3, <3>1, <3>2
  <2>4. ASSUME NEW w \in Workers, Claim(w) PROVE Stays
    BY ZenonT(30), <1>1, <2>4 DEF IInv, TypeOK, Claim, compareAndSave, Matches
  <2>5. ASSUME NEW w \in Workers, DeleteById(w) PROVE Stays
    <3>1. Oldest(todo[w]) \notin fresh[w] /\ job[w] = "delete"
      BY Zenon, <1>1, <2>5 DEF IInv, WorkerInv, WorkerOK, DeleteById
    <3> QED BY <1>1, <2>5, <3>1, WorkersOwn DEF IInv, TypeOK, DeleteById
  <2> QED BY Zenon, <1>1, <2>1, <2>2, <2>3, <2>4, <2>5
          DEF Next, Work, Put, UrlExpires, GrowsStale, Presign, FindByIdForOwner,
              CreateUploadPolicy, HeadObject, GetObjectRange, RequestFails,
              FindCleanupCandidates, Remove, WorkerFails, DeleteUser, FindAllByOwner
<1> QED BY <1>1, InductiveInvariant, PTL DEF Spec, ConfirmedStays
=============================================================================
