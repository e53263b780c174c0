------------------------------- MODULE Evidence -------------------------------
(***************************************************************************)
(* What is kept of the candidates of one invite link, and how it is        *)
(* removed: the session row and its cached copy, the verification row, the *)
(* artifact rows, and the files they name (session_store,                  *)
(* session_persistence, object_storage, invite_service.verify_identity,    *)
(* save_session_recording, dsar_service, retention_service).               *)
(*                                                                         *)
(* Async handlers share the event loop and change places where they wait   *)
(* for the database; an upload runs from its first file to its last row    *)
(* without giving the loop up.  Answers are handled by threads, and the    *)
(* nightly cleanup is another process.  The ORM writes the columns whose   *)
(* value differs from the one it read.  Identity images are stored under   *)
(* the link's token, so the candidates of a link share their names.        *)
(***************************************************************************)
EXTENDS Naturals, FiniteSets, Sequences

CONSTANTS
    Cands,      \* candidates of the link, one session each
    Taking,     \* those who go on to the interview after the identity check
    None,
    Together,   \* a recording may arrive while the account is being erased
    MaxStarts,  \* bound on answers, attempts, recordings and delete requests
    MaxFaults   \* bound on crashes and failed storage calls

Recordings == {"webm", "mp4"}
Kinds == Recordings \cup {"identity"}
Table(kind) == IF kind = "identity" THEN "verification" ELSE "session"

\* The storage key of a candidate's object.
Key(c, kind) == IF kind = "identity" THEN <<"token", kind>> ELSE <<c, kind>>
Keys == {Key(c, kind) : c \in Cands, kind \in Kinds}
Ways == {"account", "email"}  \* the two delete requests

ASSUME EvidenceAssumption ==
    /\ IsFiniteSet(Cands) /\ None \notin Cands /\ Taking \subseteq Cands
    /\ Together \in BOOLEAN
    /\ {MaxStarts, MaxFaults} \subseteq Nat

VARIABLES
    row,     \* session rows: answers, recording pointers
    ver,     \* verification rows that name identity images
    arts,    \* artifact rows, oldest first
    old,     \* artifacts and rows past their retention time
    file,    \* whose content is stored under each key
    answer,  \* the answer of each candidate that is being handled
    verify,  \* the identity attempt of each candidate
    upload,  \* the recordings that were admitted, and the one being stored
    erase,   \* the delete request in progress
    erased,  \* the delete requests that were committed for each candidate
    sweep,   \* the cleanup in progress
    later,   \* candidates who stored files that their erasure could not know of
    starts, faults  \* what is left of the bounds

rows == <<row, ver, arts>>
requests == <<answer, verify, upload, erase>>
vars == <<rows, old, file, requests, erased, sweep, later, starts, faults>>

NoUpload == [who |-> None, kind |-> "webm", at |-> "idle"]
NoErase == [who |-> None, way |-> "email", at |-> "idle", arts |-> {},
            recs |-> {}, ver |-> FALSE, text |-> FALSE]
NoSweep == [at |-> "idle", arts |-> {}, recs |-> {}, vers |-> {}]

Init ==
    /\ row = [c \in Cands |-> [text |-> FALSE, recs |-> {}]]
    /\ ver = [c \in Cands |-> FALSE]
    /\ arts = <<>>
    /\ old = [tables |-> {}, arts |-> {}]
    /\ file = [k \in Keys |-> None]
    /\ answer = [c \in Cands |-> "none"]
    /\ verify = [c \in Cands |-> [at |-> "idle", had |-> FALSE]]
    /\ upload = [due |-> Taking, admitted |-> {}, now |-> NoUpload]
    /\ erase = NoErase
    /\ erased = [c \in Cands |-> {}]
    /\ sweep = NoSweep
    /\ later = {}
    /\ starts = MaxStarts
    /\ faults = MaxFaults

Loop == upload.now.at = "idle"

\* The rows the delete request has flushed and not committed.
SessionHeld(c) == erase.at = "flushed" /\ erase.who = c /\ erase.way = "account"
VerHeld(c) == erase.at = "flushed" /\ erase.who = c /\ erase.ver

Active(c) == "account" \notin erased[c]

Store(c, kind) ==
    /\ file' = [file EXCEPT ![Key(c, kind)] = c]
    /\ later' = later \cup {c}

\* storage.delete of some keys.  A failure is logged and nobody is told.
Remove(keys) ==
    \E kept \in SUBSET {k \in keys : file[k] # None} :
      /\ Cardinality(kept) <= faults
      /\ faults' = faults - Cardinality(kept)
      /\ file' = [k \in Keys |-> IF k \in keys \ kept THEN None ELSE file[k]]

-----------------------------------------------------------------------------
(* Answers.  A thread appends to the cached session, saves it, and saves   *)
(* it again with the judgment.  A save overwrites the row with the cached  *)
(* session, whose answers nothing ever empties.                            *)

Answer(c) ==
    /\ c \in Taking /\ Active(c) /\ answer[c] = "none"
    /\ answer' = [answer EXCEPT ![c] = "saving"]
    /\ starts > 0 /\ starts' = starts - 1
    /\ UNCHANGED <<rows, old, file, verify, upload, erase, erased, sweep, later, faults>>

SaveAnswer(c) ==
    /\ answer[c] # "none"
    /\ ~SessionHeld(c)
    /\ row' = [row EXCEPT ![c].text = TRUE]
    /\ answer' = [answer EXCEPT ![c] = IF @ = "saving" THEN "judging" ELSE "none"]
    /\ UNCHANGED <<ver, arts, old, file, verify, upload, erase, erased, sweep,
                   later, faults, starts>>

-----------------------------------------------------------------------------
(* Identity attempts.  The request names a token and a session, not an     *)
(* account.                                                                *)

VerifyStart(c) ==
    /\ Loop /\ verify[c].at = "idle"
    /\ verify' = [verify EXCEPT ![c] = [at |-> "read", had |-> ver[c]]]
    /\ starts > 0 /\ starts' = starts - 1
    /\ UNCHANGED <<rows, old, file, answer, upload, erase, erased, sweep, later, faults>>

\* The images are stored before the faces are compared; the object store may
\* refuse one that is already on the local disk.
VerifyStore(c) ==
    /\ Loop /\ verify[c].at = "read"
    /\ Store(c, "identity")
    /\ \/ verify' = [verify EXCEPT ![c].at = "stored"] /\ UNCHANGED faults
       \/ /\ faults > 0 /\ faults' = faults - 1
          /\ verify' = [verify EXCEPT ![c].at = "idle"]
    /\ UNCHANGED <<rows, old, answer, upload, erase, erased, sweep, starts>>

Listed(c, kind) == [who |-> c, kind |-> kind, path |-> TRUE]

\* A row that already named the images is not written again.
VerifyCommit(c) ==
    /\ Loop /\ verify[c].at = "stored"
    /\ ~VerHeld(c)
    /\ ver' = [ver EXCEPT ![c] = @ \/ ~verify[c].had]
    /\ arts' = Append(arts, Listed(c, "identity"))
    /\ verify' = [verify EXCEPT ![c].at = "idle"]
    /\ UNCHANGED <<row, old, file, answer, upload, erase, erased, sweep, later, faults, starts>>

-----------------------------------------------------------------------------
(* The recording, uploaded once, when the interview ends.                  *)

UploadAdmit(c) ==
    /\ Loop /\ Active(c) /\ c \in upload.due
    /\ ~Together => erase.who # c
    /\ upload' = [upload EXCEPT !.due = @ \ {c}, !.admitted = @ \cup {c}]
    /\ starts > 0 /\ starts' = starts - 1
    /\ UNCHANGED <<rows, old, file, answer, verify, erase, erased, sweep, later, faults>>

UploadStore(c, kind) ==
    /\ \/ Loop /\ c \in upload.admitted /\ kind = "webm"
       \/ upload.now = [who |-> c, kind |-> kind, at |-> "store"]
    /\ Store(c, kind)
    /\ upload' = [upload EXCEPT !.admitted = @ \ {c},
                                !.now = [who |-> c, kind |-> kind, at |-> "row"]]
    /\ UNCHANGED <<rows, old, answer, verify, erase, erased, sweep, faults, starts>>

\* update_recording_filename, on a connection of its own: it waits for the
\* row, and the event loop waits with it.
UploadRow ==
    /\ upload.now.at = "row"
    /\ ~SessionHeld(upload.now.who)
    /\ row' = [row EXCEPT ![upload.now.who].recs = @ \cup {upload.now.kind}]
    /\ upload' = [upload EXCEPT !.now.at = "list"]
    /\ UNCHANGED <<ver, arts, old, file, answer, verify, erase, erased, sweep,
                   later, faults, starts>>

\* upsert_session_artifact: one row for each path.
Upserted(new) ==
    arts' = IF \E i \in DOMAIN arts : arts[i] = new THEN arts ELSE Append(arts, new)

\* The end of storing, and the conversion, which may be unavailable.
UploadList ==
    /\ upload.now.at = "list"
    /\ Upserted(Listed(upload.now.who, upload.now.kind))
    /\ \/ upload' = [upload EXCEPT !.now = NoUpload]
       \/ /\ upload.now.kind = "webm"
          /\ upload' = [upload EXCEPT !.now.kind = "mp4", !.now.at = "store"]
    /\ UNCHANGED <<row, ver, old, file, answer, verify, erase, erased, sweep,
                   later, faults, starts>>

-----------------------------------------------------------------------------
(* Delete requests: of the candidate for the account, or of the recruiter  *)
(* for an e-mail address.  Either redacts the address.                     *)

EraseCollect(c, way) ==
    /\ Loop /\ erase.at = "idle"
    /\ IF way = "account" THEN Active(c) ELSE erased[c] = {}
    /\ ~Together => upload.now.who # c /\ c \notin upload.admitted
    /\ erase' = [who |-> c, way |-> way, at |-> "collected",
                 arts |-> {i \in DOMAIN arts : arts[i].who = c /\ arts[i].path},
                 recs |-> row[c].recs, ver |-> erased[c] = {} /\ ver[c],
                 text |-> row[c].text]
    /\ later' = IF verify[c].at = "stored" THEN later \cup {c} ELSE later \ {c}
    /\ starts > 0 /\ starts' = starts - 1
    /\ UNCHANGED <<rows, old, file, answer, verify, upload, erased, sweep, faults>>

\* The names collected from the three kinds of row.
Doomed ==
    {Key(erase.who, arts[i].kind) : i \in erase.arts}
    \cup {Key(erase.who, "identity") : x \in {v \in {erase.ver} : v}}
    \cup {Key(erase.who, kind) : kind \in erase.recs}

EraseFilesListed ==  \* the artifact rows only
    /\ Loop /\ erase.at = "collected"
    /\ Remove({Key(erase.who, arts[i].kind) : i \in {j \in erase.arts : arts[j].kind = "webm"}})
    /\ erase' = [erase EXCEPT !.at = "deleted"]
    /\ UNCHANGED <<rows, old, answer, verify, upload, erased, sweep, later, starts>>
EraseFiles ==
    /\ Loop /\ erase.at = "collected"
    /\ Remove(Doomed)
    /\ erase' = [erase EXCEPT !.at = "deleted"]
    /\ UNCHANGED <<rows, old, answer, verify, upload, erased, sweep, later, starts>>

EraseFlush ==
    /\ Loop /\ erase.at = "deleted"
    /\ erase' = [erase EXCEPT !.at = "flushed"]
    /\ UNCHANGED <<rows, old, file, answer, verify, upload, erased, sweep, later, faults, starts>>

\* Artifacts of the candidate as they are now, not as they were collected.
EraseCommitAll ==
    /\ Loop /\ erase.at = "flushed"
    /\ LET c == erase.who IN
         /\ ver' = [ver EXCEPT ![c] = FALSE]
         /\ row' = [row EXCEPT ![c] = [text |-> FALSE, recs |-> {}]]
         /\ arts' = [i \in DOMAIN arts |->
                       IF arts[i].who = c THEN [arts[i] EXCEPT !.path = FALSE] ELSE arts[i]]
         /\ erased' = [erased EXCEPT ![c] = @ \cup {erase.way}]
    /\ erase' = NoErase
    /\ UNCHANGED <<old, file, answer, verify, upload, sweep, later, faults, starts>>
\* get_db, after the answer.  Columns that were empty when they were read
\* are not written, and the request of a recruiter leaves the session alone.
EraseCommit ==
    /\ Loop /\ erase.at = "flushed"
    /\ LET c == erase.who IN
         /\ ver' = [ver EXCEPT ![c] = @ /\ ~erase.ver]
         /\ row' = IF erase.way = "email" THEN row
                   ELSE [row EXCEPT ![c] = [text |-> @.text /\ ~erase.text,
                                            recs |-> @.recs \ erase.recs]]
         /\ arts' = [i \in DOMAIN arts |->
                       IF i \in erase.arts THEN [arts[i] EXCEPT !.path = FALSE] ELSE arts[i]]
         /\ erased' = [erased EXCEPT ![c] = @ \cup {erase.way}]
    /\ erase' = NoErase
    /\ UNCHANGED <<old, file, answer, verify, upload, sweep, later, faults, starts>>

-----------------------------------------------------------------------------
(* The cleanup (scripts/cleanup_retention.py --execute).                   *)

\* The retention time of recordings, or of identity images, passes: what is
\* there of the kind becomes old.  A row is older than the artifacts of it.
Age(table) ==
    /\ old' = [tables |-> old.tables \cup {table},
               arts |-> old.arts \cup {i \in DOMAIN arts : Table(arts[i].kind) = table}]
    /\ old' # old
    /\ UNCHANGED <<rows, file, requests, erased, sweep, later, faults, starts>>

\* A cleanup that finds nothing expired changes nothing.
SweepFiles ==
    /\ sweep.at = "idle" /\ old.tables # {}
    /\ LET expired == {i \in old.arts : arts[i].path} IN
         /\ Remove({Key(arts[i].who, arts[i].kind) : i \in expired})
         /\ sweep' = [NoSweep EXCEPT !.at = "deleted", !.arts = expired]
    /\ UNCHANGED <<rows, old, requests, erased, later, starts>>

\* Pointers of old rows whose file is gone.
SweepRowsPurged ==  \* only of files this cleanup removed
    /\ sweep.at = "deleted"
    /\ sweep' = [sweep EXCEPT !.at = "checked",
          !.recs = {<<arts[i].who, arts[i].kind>> : i \in {j \in sweep.arts : arts[j].kind # "identity"}},
          !.vers = {arts[i].who : i \in {j \in sweep.arts : arts[j].kind = "identity"}}]
    /\ UNCHANGED <<rows, old, file, requests, erased, later, faults, starts>>
SweepRows ==
    /\ sweep.at = "deleted"
    /\ sweep' = [sweep EXCEPT !.at = "checked",
          !.recs = {x \in Cands \X Recordings :
                      /\ "session" \in old.tables
                      /\ x[2] \in row[x[1]].recs
                      /\ file[Key(x[1], x[2])] = None},
          !.vers = {c \in Cands : "verification" \in old.tables /\ ver[c]
                                    /\ file[Key(c, "identity")] = None}]
    /\ UNCHANGED <<rows, old, file, requests, erased, later, faults, starts>>

\* The path of an artifact is cleared whether or not its file was removed.
SweepCommit ==
    /\ sweep.at = "checked"
    /\ \A x \in sweep.recs : ~SessionHeld(x[1])
    /\ \A c \in sweep.vers : ~VerHeld(c)
    /\ row' = [c \in Cands |-> [row[c] EXCEPT !.recs = @ \ {k \in @ : <<c, k>> \in sweep.recs}]]
    /\ ver' = [c \in Cands |-> ver[c] /\ c \notin sweep.vers]
    /\ arts' = [i \in DOMAIN arts |->
                  IF i \in sweep.arts THEN [arts[i] EXCEPT !.path = FALSE] ELSE arts[i]]
    /\ sweep' = NoSweep
    /\ UNCHANGED <<old, file, requests, erased, later, faults, starts>>

-----------------------------------------------------------------------------
(* Crashes.  What is not committed is rolled back; files stay as they are. *)

Restart ==
    /\ faults > 0 /\ faults' = faults - 1
    /\ answer' = [c \in Cands |-> "none"]
    /\ verify' = [c \in Cands |-> [verify[c] EXCEPT !.at = "idle"]]
    /\ upload' = [upload EXCEPT !.admitted = {}, !.now = NoUpload]
    /\ erase' = NoErase
    /\ UNCHANGED <<rows, old, file, erased, sweep, later, starts>>

SweepStops ==
    /\ sweep.at # "idle"
    /\ faults > 0 /\ faults' = faults - 1
    /\ sweep' = NoSweep
    /\ UNCHANGED <<rows, old, file, requests, erased, later, starts>>

-----------------------------------------------------------------------------
Erases == EraseFiles \/ EraseFlush \/ EraseCommit
Sweeps == SweepFiles \/ SweepRows \/ SweepCommit
Uploads == UploadRow \/ UploadList \/ \E c \in Cands : UploadStore(c, "mp4")

Next ==
    \/ \E c \in Cands :
         \/ Answer(c) \/ SaveAnswer(c)
         \/ VerifyStart(c) \/ VerifyStore(c) \/ VerifyCommit(c)
         \/ UploadAdmit(c) \/ UploadStore(c, "webm")
         \/ \E way \in Ways : EraseCollect(c, way)
    \/ Erases \/ Sweeps \/ Uploads
    \/ \E table \in {"session", "verification"} : Age(table)
    \/ Restart \/ SweepStops

Spec == Init /\ [][Next]_vars

\* Time passes, cron runs the cleanup every night, and handlers that the
\* event loop runs end.
FairSpec ==
    /\ Spec
    /\ \A table \in {"session", "verification"} : WF_vars(Age(table))
    /\ WF_vars(Sweeps) /\ WF_vars(Erases) /\ WF_vars(Uploads)

-----------------------------------------------------------------------------
Idle ==
    /\ Loop /\ upload.admitted = {}
    /\ erase.at = "idle" /\ sweep.at = "idle"
    /\ \A c \in Cands : verify[c].at = "idle"

\* Types; what is old is there: the rows of artifacts outlive their files.
TypeOK ==
    /\ row \in [Cands -> [text : BOOLEAN, recs : SUBSET Recordings]]
    /\ ver \in [Cands -> BOOLEAN]
    /\ \A i \in DOMAIN arts : arts[i] \in [who : Cands, kind : Kinds, path : BOOLEAN]
    /\ old.arts \subseteq DOMAIN arts
    /\ old.tables \subseteq {"session", "verification"}
    /\ file \in [Keys -> Cands \cup {None}]
    /\ erased \in [Cands -> SUBSET Ways]
    /\ faults \in 0..MaxFaults

\* What removal relies on: when nothing is running and nothing failed, every
\* stored file is named by an artifact row of the candidate it is of, so a later
\* cleanup or delete request finds it, however uploads, attempts, cleanups and
\* erasures overlapped.
EveryFileNamed ==
    Idle /\ faults = MaxFaults =>
        \A k \in Keys : file[k] # None =>
            \E i \in DOMAIN arts : /\ arts[i].path /\ arts[i].who = file[k]
                                  /\ Key(arts[i].who, arts[i].kind) = k

\* anonymize_candidate_data: if no storage call failed, nothing that a
\* candidate had stored and listed when the erasure began is left.
ErasedFilesGone ==
    faults = MaxFaults =>
        \A c \in Cands : erased[c] # {} /\ erase.who # c /\ c \notin later =>
            \A k \in Keys : file[k] # c

\* Pointers of rows to files that are gone.
Dangling ==
    {x \in Cands \X Kinds :
        /\ IF x[2] = "identity" THEN ver[x[1]] ELSE x[2] \in row[x[1]].recs
        /\ file[Key(x[1], x[2])] = None}

\* A crash between a deletion and its commit leaves rows that name files
\* that are gone; so does the request of a recruiter, which does not touch
\* the session row, and that of another candidate, who shared the identity
\* images.  Cleanups clear them all in the end.
DanglingHealed == Dangling # {} ~> Dangling = {}

\* privacy.py "irreversible anonymization": the answers of an erased account
\* stay erased.
ErasureIrreversible == [][\A c \in Cands : ~Active(c) => (row'[c].text => row[c].text)]_vars

\* dsar_service "identity images and recordings deleted when present": also
\* when a storage call fails, which the answer never tells.
DeletedWhenPresent ==
    \A c \in Cands : erased[c] # {} /\ erase.who # c /\ c \notin later =>
            \A k \in Keys : file[k] # c

\* A picture an artifact names is one of its candidate.
PictureOwn ==
    Idle => \A i \in DOMAIN arts :
        arts[i].path => file[Key(arts[i].who, arts[i].kind)] \in {arts[i].who, None}

\* A delete request ends.
EraseEnds == erase.at # "idle" ~> erase.at = "idle"
=============================================================================
