------------------------------- MODULE Uploads -------------------------------
(***************************************************************************)
(* Presigned uploads (src/src/modules/upload): the rows of                 *)
(* upload.stored_file, the objects of the store, the requests that presign *)
(* and confirm, the sweep of unconfirmed uploads, and the purge of a       *)
(* deleted user's files.                                                   *)
(*                                                                         *)
(* Rows are numbered in the order of their created_at.  A step of a        *)
(* request or of a worker is one SQL statement or one call of the store.   *)
(***************************************************************************)
EXTENDS Naturals, FiniteSets

CONSTANTS
  MaxFiles,       \* bound on the rows ever created
  Users,
  Owner,          \* Owner[f]: who presigns file f
  Requests,       \* API requests in flight at once
  Sweepers,       \* runs of upload.sweep-unconfirmed that may overlap
  Types,          \* what the leading bytes of an object can be detected as
  Allowed,        \* ALLOWED_MIME_TYPES
  MaxFileBytes,
  Drivers,        \* the values of FILE_DRIVER: "s3", "local"
  SweepBatch, PurgeBatch,  \* SWEEP_BATCH_SIZE, PURGE_BATCH_SIZE
  PurgeAttempts,  \* retryLimit + 1 of upload.purge-user-files
  MaxPuts,        \* bound on the uploads through one URL
  NULL

Files == 1..MaxFiles
Sizes == 0..(MaxFileBytes + 1)
Contents == [type : Types, size : Sizes]
Statuses == {"none", "pending", "confirmed", "discarded", "gone"}

ASSUME UploadsAssumption ==
  /\ MaxFiles \in Nat /\ MaxFileBytes \in Nat /\ MaxPuts \in Nat
  /\ SweepBatch \in Nat \ {0} /\ PurgeBatch \in Nat \ {0} /\ PurgeAttempts \in Nat \ {0}
  /\ Owner \in [Files -> Users] /\ Allowed \subseteq Types
  /\ NULL \notin Types /\ NULL \notin Files /\ NULL \notin Contents
  /\ Users \cap (Requests \cup Sweepers) = {} /\ Requests \cap Sweepers = {}

VARIABLES
  driver,     \* which adapter STORAGE is
  status,     \* the column, with "none" before the INSERT and "gone" after the DELETE
  declared,   \* declared_mime_type and declared_size_bytes
  object,     \* the bytes under the row's storage_key, or NULL
  url,        \* the presigned URL: "unissued", "open" or "expired"
  stale,      \* created_at is older than pendingTtlMinutes
  users,      \* the rows of auth.user
  events,     \* how many upload.confirmed events the outbox has for the file
  pc, req,    \* the API requests, and what each has read
  job, tries, \* the upload.purge-user-files job of a deleted user
  todo, fresh, head, \* a worker's batch, what it read as pending, previousHead
  puts, checked      \* history: the uploads so far, and up to which confirm looked

storage == <<object, url, puts>>
table == <<status, declared, stale, events, checked>>
api == <<pc, req>>
workers == <<job, tries, todo, fresh, head>>
vars == <<driver, users, storage, table, api, workers>>

NoRequest == [file |-> NULL, status |-> "none", type |-> NULL, size |-> 0, puts |-> 0]

\* A worker is a sweep, or the purge of one user's files.
Workers == Sweepers \cup Users

Init ==
  /\ driver \in Drivers
  /\ status = [f \in Files |-> "none"]
  /\ declared = [f \in Files |-> NULL]
  /\ object = [f \in Files |-> NULL]
  /\ url = [f \in Files |-> "unissued"]
  /\ stale = [f \in Files |-> FALSE]
  /\ users = Users
  /\ events = [f \in Files |-> 0]
  /\ pc = [r \in Requests |-> "idle"]
  /\ req = [r \in Requests |-> NoRequest]
  /\ job = [w \in Workers |-> IF w \in Users THEN "none" ELSE "waiting"]
  /\ tries = [w \in Workers |-> 0]
  /\ todo = [w \in Workers |-> {}]
  /\ fresh = [w \in Workers |-> {}]
  /\ head = [w \in Workers |-> NULL]
  /\ puts = [f \in Files |-> 0]
  /\ checked = [f \in Files |-> 0]
-----------------------------------------------------------------------------
(* The object store and its clients.                                       *)

\* S3 checks the content-length that was signed; the local route only limits the
\* body.
SignedLength(f, c) == c.size = declared[f].size
BodyLimit(c) == c.size <= MaxFileBytes

\* The PUT of a client that was handed the URL.
Put(f) ==
  /\ url[f] = "open" /\ puts[f] < MaxPuts
  /\ \E c \in Contents :
       /\ IF driver = "s3" THEN SignedLength(f, c) ELSE BodyLimit(c)
       /\ object' = [object EXCEPT ![f] = c]
  /\ puts' = [puts EXCEPT ![f] = @ + 1]
  /\ UNCHANGED <<driver, users, url, table, api, workers>>

\* presignExpirySeconds after it was issued, a URL of S3 is refused.  The token of
\* the local driver is a hash of the key, and good for ever.
UrlExpires(f) ==
  /\ driver = "s3" /\ url[f] = "open"
  /\ url' = [url EXCEPT ![f] = "expired"]
  /\ UNCHANGED <<driver, users, object, puts, table, api, workers>>

\* pendingTtlMinutes pass; that is more than presignExpirySeconds.
GrowsStale(f) ==
  /\ status[f] = "pending" /\ ~stale[f]
  /\ driver = "s3" => url[f] # "open"
  /\ stale' = [stale EXCEPT ![f] = TRUE]
  /\ UNCHANGED <<driver, users, storage, status, declared, events, checked, api, workers>>
-----------------------------------------------------------------------------
(* POST /upload/presign and POST /upload/confirm.                          *)

Goto(r, label, q) ==
  /\ pc' = [pc EXCEPT ![r] = label]
  /\ req' = [req EXCEPT ![r] = q]

\* The answer, or the exception, that ends a request.
Ends(r) == Goto(r, "idle", NoRequest)

\* StoredFile.presign refuses a type that is not accepted, and a size of zero or
\* above the limit.
Accepted(d) == d.type \in Allowed /\ d.size > 0 /\ d.size <= MaxFileBytes

\* The file's owner has a session.
requireCaller(f) == Owner[f] \in users

\* A caller with a session presigns a new file.
Inserting == {req[r].file : r \in {o \in Requests : pc[o] = "insert"}}
Presign(r, f) ==
  /\ pc[r] = "idle" /\ status[f] = "none" /\ f \notin Inserting /\ requireCaller(f)
  /\ \A g \in Files : g < f => status[g] # "none" \/ g \in Inserting
  /\ \E d \in Contents : Accepted(d) /\ declared' = [declared EXCEPT ![f] = d]
  /\ Goto(r, "insert", [NoRequest EXCEPT !.file = f])
  /\ UNCHANGED <<driver, users, storage, status, stale, events, checked, workers>>

\* files.save: the INSERT of a pending row.
Save(r) ==
  /\ pc[r] = "insert"
  /\ status' = [status EXCEPT ![req[r].file] = "pending"]
  /\ Goto(r, "policy", req[r])
  /\ UNCHANGED <<driver, users, storage, declared, stale, events, checked, workers>>

\* createUploadPolicy: the signed URL goes to the client.
CreateUploadPolicy(r) ==
  /\ pc[r] = "policy"
  /\ url' = [url EXCEPT ![req[r].file] = "open"]
  /\ Ends(r)
  /\ UNCHANGED <<driver, users, object, puts, table, workers>>

\* A caller who was told the file's id confirms it: findByIdForOwner.
FindByIdForOwner(r, f) ==
  /\ pc[r] = "idle" /\ requireCaller(f)
  /\ url[f] # "unissued" /\ status[f] # "gone"
  /\ Goto(r, "head", [NoRequest EXCEPT !.file = f, !.status = status[f]])
  /\ UNCHANGED <<driver, users, storage, table, workers>>

\* A missing object is an answer, not an error.
Found(f) == object[f] # NULL
headObject(f) == object[f].size
getObjectRange(f) == object[f].type

\* inspect, first call: the size; a missing object ends the request.
HeadObject(r) ==
  LET f == req[r].file IN
  /\ pc[r] = "head"
  /\ IF ~Found(f) THEN Ends(r)
     ELSE Goto(r, "range", [req[r] EXCEPT !.size = headObject(f), !.puts = puts[f]])
  /\ UNCHANGED <<driver, users, storage, table, workers>>

\* inspect, second call: the leading bytes, perhaps of another object by now.
GetObjectRange(r) ==
  LET f == req[r].file IN
  /\ pc[r] = "range"
  /\ IF ~Found(f) THEN Ends(r)
     ELSE Goto(r, "save", [req[r] EXCEPT !.type = getObjectRange(f)])
  /\ UNCHANGED <<driver, users, storage, table, workers>>

\* StoredFile.confirm: what becomes of the aggregate that was read.  The mutant
\* takes any accepted type for the declared one; another looks at the bytes before
\* the status.
confirmAccepted(q) ==
  IF q.status # "pending" THEN "conflict"
  ELSE IF q.size = declared[q.file].size /\ q.type \in Allowed THEN "confirmed"
  ELSE "discarded"
confirmBytesFirst(q) ==
  IF q.size # declared[q.file].size \/ q.type # declared[q.file].type THEN "discarded"
  ELSE IF q.status # "pending" THEN "conflict" ELSE "confirmed"
confirm(q) ==
  IF q.status # "pending" THEN "conflict"
  ELSE IF /\ q.size = declared[q.file].size
          /\ q.type \in Allowed /\ q.type = declared[q.file].type THEN "confirmed"
  ELSE "discarded"

\* The row that compareAndSave's UPDATE counts.
Matches(f, expected) == status[f] = expected

compareAndSave(f, expected, new) ==
  status' = [status EXCEPT ![f] = IF Matches(f, expected) THEN new ELSE @]

\* Whether the transaction goes on to publish.  The mutant does not ask.
StoredAnyway(q) == confirm(q) = "confirmed"
Stored(q) == confirm(q) = "confirmed" /\ Matches(q.file, q.status)

\* The transaction of ConfirmUploadUseCase: the compare-and-set, and with it the
\* upload.confirmed event; or the discard, whose outcome nobody looks at.
ConfirmUpload(r) ==
  LET f == req[r].file
      verdict == confirm(req[r])
  IN
  /\ pc[r] = "save"
  /\ IF verdict = "conflict" THEN UNCHANGED status
     ELSE compareAndSave(f, req[r].status, verdict)
  /\ events' = [events EXCEPT ![f] = IF Stored(req[r]) THEN @ + 1 ELSE @]
  /\ checked' = [checked EXCEPT ![f] = IF Stored(req[r]) THEN req[r].puts ELSE @]
  /\ Ends(r)
  /\ UNCHANGED <<driver, users, storage, declared, stale, workers>>

\* A statement or a call of the store throws, or the process dies.
RequestFails(r) ==
  /\ pc[r] # "idle"
  /\ Ends(r)
  /\ UNCHANGED <<driver, users, storage, table, workers>>
-----------------------------------------------------------------------------
(* The sweep and the purge.                                                *)

\* ORDER BY created_at ASC LIMIT limit.
First(rows, limit) == {f \in rows : Cardinality({g \in rows : g < f}) < limit}
Oldest(rows) == CHOOSE f \in rows : \A g \in rows : f <= g

\* findCleanupCandidates.  The mutant forgets the discarded rows.
StaleOnly == {f \in Files : status[f] = "pending" /\ stale[f]}
CleanupCandidates ==
  {f \in Files : status[f] = "discarded" \/ (status[f] = "pending" /\ stale[f])}

\* ExpireStaleUploadsUseCase begins: the batch, and which of it was pending.
FindCleanupCandidates(w) ==
  LET stale_ == First(CleanupCandidates, SweepBatch) IN
  /\ w \in Sweepers /\ job[w] = "waiting" /\ stale_ # {}
  /\ todo' = [todo EXCEPT ![w] = stale_]
  /\ fresh' = [fresh EXCEPT ![w] = {f \in stale_ : status[f] = "pending"}]
  /\ job' = [job EXCEPT ![w] = "loop"]
  /\ UNCHANGED <<driver, users, storage, table, api, tries, head>>

\* The loop goes on with the next file.  After the last one a sweep is over, and a
\* purge looks for more.  The mutant purges one batch.
OneBatch(w, rest) ==
  /\ todo' = [todo EXCEPT ![w] = rest]
  /\ job' = [job EXCEPT ![w] = IF rest # {} THEN "loop"
                               ELSE IF w \in Users THEN "done" ELSE "waiting"]
NextFile(w, rest) ==
  /\ todo' = [todo EXCEPT ![w] = rest]
  /\ job' = [job EXCEPT ![w] = IF rest # {} THEN "loop"
                               ELSE IF w \in Users THEN "find" ELSE "waiting"]

\* A pending file is claimed with a compare-and-set before it is touched, and
\* skipped when that fails.  The mutant goes on regardless.
GoesOn(w, f) == TRUE
Claimed(w, f) == Matches(f, "pending")
Claim(w) ==
  LET f == Oldest(todo[w]) IN
  /\ job[w] = "loop" /\ f \in fresh[w]
  /\ compareAndSave(f, "pending", "discarded")
  /\ fresh' = [fresh EXCEPT ![w] = @ \ {f}]
  /\ IF Claimed(w, f) THEN UNCHANGED <<todo, job>> ELSE NextFile(w, todo[w] \ {f})
  /\ UNCHANGED <<driver, users, storage, declared, stale, events, checked, api, tries, head>>

\* storage.remove.
Remove(w) ==
  LET f == Oldest(todo[w]) IN
  /\ job[w] = "loop" /\ f \notin fresh[w]
  /\ object' = [object EXCEPT ![f] = NULL]
  /\ job' = [job EXCEPT ![w] = "delete"]
  /\ UNCHANGED <<driver, users, url, puts, table, api, tries, todo, fresh, head>>

\* files.deleteById.
DeleteById(w) ==
  LET f == Oldest(todo[w]) IN
  /\ job[w] = "delete"
  /\ status' = [status EXCEPT ![f] = "gone"]
  /\ NextFile(w, todo[w] \ {f})
  /\ UNCHANGED <<driver, users, storage, declared, stale, events, checked, api, tries, fresh, head>>

\* The account is deleted; the outbox carries users.deleted to the queue.
DeleteUser(u) ==
  /\ u \in users
  /\ users' = users \ {u}
  /\ job' = [job EXCEPT ![u] = "waiting"]
  /\ UNCHANGED <<driver, storage, table, api, tries, todo, fresh, head>>

\* A job that failed its last attempt is dead, any other waits for the next.
Rethrow(u) ==
  /\ job' = [job EXCEPT ![u] = IF tries[u] + 1 < PurgeAttempts THEN "waiting" ELSE "dead"]
  /\ tries' = [tries EXCEPT ![u] = @ + 1]
  /\ todo' = [todo EXCEPT ![u] = {}]
  /\ head' = [head EXCEPT ![u] = NULL]

\* PurgeUserFilesUseCase: the owner's oldest files, until there are none; a batch
\* that starts where the last one did is an error.
FindAllByOwner(u) ==
  LET owned == First({f \in Files : Owner[f] = u /\ status[f] \notin {"none", "gone"}}, PurgeBatch)
  IN
  /\ u \in Users /\ job[u] \in {"waiting", "find"}
  /\ IF owned = {}
     THEN /\ job' = [job EXCEPT ![u] = "done"]
          /\ head' = [head EXCEPT ![u] = NULL]
          /\ UNCHANGED <<todo, tries>>
     ELSE IF Oldest(owned) = head[u] THEN Rethrow(u)
     ELSE /\ head' = [head EXCEPT ![u] = Oldest(owned)]
          /\ todo' = [todo EXCEPT ![u] = owned]
          /\ job' = [job EXCEPT ![u] = "loop"]
          /\ UNCHANGED tries
  /\ UNCHANGED <<driver, users, storage, table, api, fresh>>

\* A statement or the store fails, or the worker dies: a sweep is over, a purge has
\* used an attempt.
WorkerFails(w) ==
  /\ job[w] \in {"loop", "delete", "find"}
  /\ fresh' = [fresh EXCEPT ![w] = {}]
  /\ IF w \in Users THEN Rethrow(w)
     ELSE /\ job' = [job EXCEPT ![w] = "waiting"]
          /\ todo' = [todo EXCEPT ![w] = {}]
          /\ UNCHANGED <<tries, head>>
  /\ UNCHANGED <<driver, users, storage, table, api>>
-----------------------------------------------------------------------------
Work(w) == Claim(w) \/ Remove(w) \/ DeleteById(w)

Next ==
  \/ \E f \in Files : Put(f) \/ UrlExpires(f) \/ GrowsStale(f)
  \/ \E r \in Requests :
       \/ \E f \in Files : Presign(r, f) \/ FindByIdForOwner(r, f)
       \/ Save(r) \/ CreateUploadPolicy(r)
       \/ HeadObject(r) \/ GetObjectRange(r) \/ ConfirmUpload(r)
       \/ RequestFails(r)
  \/ \E w \in Workers :
       \/ FindCleanupCandidates(w) \/ Work(w)
       \/ WorkerFails(w)
  \/ \E u \in Users : DeleteUser(u) \/ FindAllByOwner(u)

\* Time passes; the cron starts a sweep and the queue a waiting job; the store and
\* the database do not fail for ever.
Fairness ==
  /\ WF_vars(\E f \in Files : UrlExpires(f) \/ GrowsStale(f))
  /\ \A w \in Sweepers :
       /\ WF_vars(FindCleanupCandidates(w))
       /\ SF_vars(Claim(w)) /\ SF_vars(Remove(w)) /\ SF_vars(DeleteById(w))
  /\ \A u \in Users : WF_vars(FindAllByOwner(u) \/ Work(u))

Spec == Init /\ [][Next]_vars
FairSpec == Spec /\ Fairness
-----------------------------------------------------------------------------
TypeOK ==
  /\ driver \in Drivers /\ users \subseteq Users
  /\ status \in [Files -> Statuses] /\ declared \in [Files -> Contents \cup {NULL}]
  /\ object \in [Files -> Contents \cup {NULL}]
  /\ url \in [Files -> {"unissued", "open", "expired"}] /\ stale \in [Files -> BOOLEAN]
  /\ events \in [Files -> Nat] /\ puts \in [Files -> Nat] /\ checked \in [Files -> Nat]
  /\ pc \in [Requests -> {"idle", "insert", "policy", "head", "range", "save"}]
  /\ req \in [Requests -> [file : Files \cup {NULL}, status : Statuses,
                           type : Types \cup {NULL}, size : Sizes, puts : Nat]]
  /\ job \in [Workers -> {"none", "waiting", "find", "loop", "delete", "done", "dead"}]
  /\ tries \in [Workers -> Nat] /\ head \in [Workers -> Files \cup {NULL}]
  /\ todo \in [Workers -> SUBSET Files] /\ fresh \in [Workers -> SUBSET Files]

\* The compare-and-set keeps the sweep off a file that a caller confirms at the
\* same time: while its owner exists, a confirmed file keeps its object.
ConfirmedHasObject ==
  \A f \in Files : status[f] = "confirmed" /\ Owner[f] \in users => object[f] # NULL

\* upload.confirmed is published once, in the transaction that confirms, however
\* many callers confirm at once.
OneEventPerUpload ==
  \A f \in Files :
    /\ events[f] <= 1
    /\ status[f] = "confirmed" => events[f] = 1
    /\ status[f] \in {"none", "pending"} => events[f] = 0

\* "Confirmed means the stored bytes were checked and matched": unless the client
\* uploaded again since the check began, a confirmed object is what was declared.
CheckedBytes ==
  \A f \in Files :
    status[f] = "confirmed" /\ checked[f] = puts[f] /\ object[f] # NULL
      => object[f] = declared[f]

\* A confirmed file ends only with its owner's account.
ConfirmedStays ==
  [][\A f \in Files : status[f] = "confirmed" /\ status'[f] # "confirmed"
       => status'[f] = "gone" /\ Owner[f] \notin users]_vars

\* An upload that is not confirmed is swept in the end, whatever fails on the way.
EveryUploadSettles ==
  \A f \in Files : status[f] \in {"pending", "discarded"} ~> status[f] \in {"confirmed", "gone"}

\* Nothing of a deleted user is left for good, unless the purge used up its
\* attempts; not even the row of a request that was in flight.
DeletedUsersFilesGo ==
  \A u \in Users : u \notin users ~>
    [](job[u] = "dead" \/ \A f \in Files : Owner[f] = u => status[f] \in {"none", "gone"})
=============================================================================
