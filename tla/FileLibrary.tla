---------------------------- MODULE FileLibrary ----------------------------
(***************************************************************************)
(* One account's library: its folder tree, its file rows and the objects   *)
(* behind them, as FileService and the files and uploads routers change    *)
(* them.  An id of another account is answered like a missing one, so one  *)
(* account is modelled.                                                    *)
(*                                                                         *)
(* Nothing joins the database and the store in one transaction.  Each      *)
(* handler is therefore cut where it awaits one of them, and another       *)
(* request runs between the cuts; a storage call may fail, and the process *)
(* may die, at every cut.                                                  *)
(***************************************************************************)
EXTENDS Uploads, FiniteSetsExt

CONSTANTS Files,      \* bound: file rows ever inserted
          NoFile,     \* no file id
          Names,      \* folder names
          Requests,   \* bound: requests in flight
          NoRequest,  \* nobody holds the row lock
          Jobs,       \* bound: conversion jobs
          NoJob,      \* no job id
          Spoofed,    \* keys whose bytes contradict their extension
          MaxFile,    \* the tier's cap on one file
          Quota       \* the tier's storage_quota_bytes

ASSUME LibraryAssumption == /\ MaxFile \in Nat /\ Quota \in Nat
                            /\ Spoofed \subseteq Keys
                            /\ NoRequest \notin Requests /\ NoJob \notin Jobs
                            /\ IsFiniteSet(Files) /\ IsFiniteSet(Folders) /\ Names # {}

VARIABLES folder,   \* folder id -> its row (UserFolderModel)
          row,      \* file id -> its row (UserFileModel)
          reqs,     \* request -> what it has read and will do next
          lock,     \* the request holding the user's row FOR UPDATE
          leaked    \* history: keys whose row or object a failure or a lost
                    \* race left behind

libraryVars == <<folder, row, reqs, lock, leaked>>
fileVars == <<uploadVars, libraryVars>>

Places == Folders \cup {Root}

UserFolder == [state : {"unused", "live", "gone"}, parent : Places, name : Names]

UserFile == [state : {"unused", "live", "gone"}, key : Keys \cup {NoKey},
             folder : Places, size : 0..MaxSize, favorite : BOOLEAN]

NoUserFile == [state |-> "unused", key |-> NoKey, folder |-> Root, size |-> 0,
               favorite |-> FALSE]

GoneFile == [NoUserFile EXCEPT !.state = "gone"]

(* A request in flight: op is its next step; key, loaded and size belong   *)
(* to a verification, file, self, place and name to a change of the tree,  *)
(* ids, keys and todo to a deletion, job to an upload for a job.           *)
Idle == [op |-> "idle", key |-> NoKey, loaded |-> NoSession, size |-> 0,
         file |-> NoFile, self |-> Root, place |-> Root,
         name |-> CHOOSE n \in Names : TRUE, ids |-> {}, keys |-> {},
         todo |-> {}, job |-> NoJob]

VerifyOps == {"complete", "exists", "owner", "measure", "find", "lock", "save", "job"}
SeenOps == {"owner", "measure", "find", "lock", "save"}  \* the object was seen
RemoveOps == {"remove", "gather"}
OtherOps == {"create", "rename", "move", "move_file", "favorite", "unlink",
             "unlink_row", "collect", "drop"}

TypeOKLibrary ==
    /\ TypeOKUploads
    /\ folder \in [Folders -> UserFolder]
    /\ row \in [Files -> UserFile]
    /\ reqs \in [Requests ->
          [op : {"idle"} \cup VerifyOps \cup RemoveOps \cup OtherOps,
           key : Keys \cup {NoKey}, loaded : UploadSession, size : 0..MaxSize,
           file : Files \cup {NoFile}, self : Places, place : Places,
           name : Names, ids : SUBSET Folders, keys : SUBSET Keys,
           todo : SUBSET Folders, job : Jobs \cup {NoJob}]]
    /\ lock \in Requests \cup {NoRequest}
    /\ leaked \subseteq Keys

----------------------------------------------------------------------------
(* Reads                                                                   *)

get_folder(d) == folder[d].state = "live"
get_file(f) == row[f].state = "live"

FolderThere(d) == d # Root => get_folder(d)

find_by_key(k) == {f \in Files : get_file(f) /\ row[f].key = k}

SizeOf(f) == row[f].size

get_user_storage_used == MapThenSumSet(SizeOf, {f \in Files : get_file(f)})

evaluate_storage_quota(used, size) == size <= Max({0, Quota - used})

(* The chain of folders above d; Root is on it unless the chain is a cycle.*)
Ancestors(d) ==
    LET up[n \in 0..Cardinality(Folders)] ==
            IF n = 0 THEN {folder[d].parent}
            ELSE up[n - 1] \cup {folder[e].parent : e \in up[n - 1] \ {Root}}
    IN up[Cardinality(Folders)]

(* Mutant of is_descendant: only the direct parent is looked at.           *)
is_descendant_direct(d, above) == folder[d].parent = above

(* Walks up from d; a cycle on the way counts as a descendant.             *)
is_descendant(d, above) == above \in Ancestors(d) \/ Root \notin Ancestors(d)

(* The folder and everything below it.                                     *)
list_subtree_ids(d) ==
    LET down[n \in 0..Cardinality(Folders)] ==
            IF n = 0 THEN {d}
            ELSE down[n - 1] \cup {e \in Folders : get_folder(e) /\ folder[e].parent \in down[n - 1]}
    IN down[Cardinality(Folders)]

(* The unique constraint on (user, parent, name); NULL parents never       *)
(* collide.                                                                *)
NameTaken(d, parent, name) ==
    parent # Root /\ \E e \in Folders \ {d} :
        get_folder(e) /\ folder[e].parent = parent /\ folder[e].name = name

----------------------------------------------------------------------------
(* Handlers                                                                *)

Start(r, request) == reqs[r].op = "idle" /\ reqs' = [reqs EXCEPT ![r] = request]
Step(r, op) == reqs' = [reqs EXCEPT ![r].op = op]
Answer(r) == reqs' = [reqs EXCEPT ![r] = Idle]
NoStore == UNCHANGED uploadVars
NoRows == UNCHANGED <<folder, row>>
NoLock == UNCHANGED lock
NoLeak == UNCHANGED leaked
OnlyRequests == NoStore /\ NoRows /\ NoLock /\ NoLeak

(* Uploads: the size the client declares, if any, is checked against the   *)
(* cap and the quota before a session exists.                              *)
authorize_upload_size(declared) ==
    declared # 0 => declared <= MaxFile /\ evaluate_storage_quota(get_user_storage_used, declared)

create_upload_session(k) ==
    /\ \E d \in Places, declared \in 0..MaxSize :
          /\ FolderThere(d)
          /\ authorize_upload_size(declared)
          /\ create_upload(k, "user", d, declared)
    /\ UNCHANGED libraryVars

discard_upload_session(k) ==
    /\ session[k].owner = "user"
    /\ delete_upload_session(k)
    /\ UNCHANGED libraryVars

(* Verification reads the session; a multipart upload is then completed at *)
(* the store, which the session only records after the object is seen.     *)
verify_upload_session(r, k, j) ==
    /\ get_upload_session(k)
    /\ Start(r, [Idle EXCEPT !.op = IF session[k].upload THEN "complete" ELSE "exists",
                             !.key = k, !.loaded = session[k], !.job = j])
    /\ OnlyRequests

CompleteParts(r) ==
    LET k == reqs[r].key
    IN /\ reqs[r].op = "complete"
       /\ IF CanComplete(k)
          THEN complete_multipart_upload(k) /\ Step(r, "exists")
          ELSE UNCHANGED <<object, parts>> /\ Answer(r)
       /\ UNCHANGED session /\ NoRows /\ NoLock /\ NoLeak

CheckObject(r) ==
    LET k == reqs[r].key
    IN /\ reqs[r].op = "exists"
       /\ IF object_exists(k)
          THEN SaveVerified(k, reqs[r].loaded) /\ Step(r, "owner")
          ELSE UNCHANGED session /\ Answer(r)
       /\ UNCHANGED <<object, parts>> /\ NoRows /\ NoLock /\ NoLeak

(* The session is compared with the caller; upload ids are not guessed, so *)
(* it is the caller's own.                                                 *)
CheckOwner(r) ==
    /\ reqs[r].op = "owner" /\ reqs[r].loaded.owner = "user"
    /\ Step(r, "measure")
    /\ OnlyRequests

(* A refused upload is taken out of the store.                             *)
Refuse(r) == reqs' = [reqs EXCEPT ![r].op = "remove", ![r].keys = {reqs[r].key}]

(* The leading bytes against the extension; a head that cannot be read     *)
(* does not block the upload.                                              *)
validate_upload_signature(k) == object_exists(k) => k \notin Spoofed

(* The folder is that of the session: an upload that was verified before,  *)
(* moved to another folder and verified again after the first folder went  *)
(* is refused like a new one, and its row loses the object.                *)
measure_upload(r) ==
    LET k == reqs[r].key
        homeless == ~FolderThere(reqs[r].loaded.folder)
    IN /\ reqs[r].op = "measure"
       /\ IF stat_object(k) > MaxFile \/ ~validate_upload_signature(k) \/ homeless
          THEN Refuse(r)
          ELSE reqs' = [reqs EXCEPT ![r].op = "find", ![r].size = stat_object(k)]
       /\ leaked' = IF homeless /\ find_by_key(k) # {} THEN leaked \cup {k} ELSE leaked
       /\ NoStore /\ NoRows /\ NoLock

(* Mutant of find_existing: a repeated verification is not recognised.     *)
find_existing_never(r) == reqs[r].op = "find" /\ Step(r, "lock") /\ OnlyRequests

(* A key that has its row already is answered with it.                     *)
find_existing(r) ==
    /\ reqs[r].op = "find"
    /\ IF find_by_key(reqs[r].key) # {}
       THEN IF reqs[r].job = NoJob THEN Answer(r) ELSE Step(r, "job")
       ELSE Step(r, "lock")
    /\ OnlyRequests

(* Mutant of lock_and_check: the usage is read without the lock.           *)
lock_and_check_unlocked(r) ==
    /\ reqs[r].op = "lock"
    /\ IF evaluate_storage_quota(get_user_storage_used, reqs[r].size)
       THEN Step(r, "save")
       ELSE Refuse(r)
    /\ NoLock /\ NoStore /\ NoRows /\ NoLeak

(* The user's row is locked across the sum and the insert.                 *)
lock_and_check(r) ==
    /\ reqs[r].op = "lock" /\ lock = NoRequest
    /\ lock' = r
    /\ IF evaluate_storage_quota(get_user_storage_used, reqs[r].size)
       THEN Step(r, "save")
       ELSE Refuse(r)
    /\ NoStore /\ NoRows /\ NoLeak

Released(r) == lock' = IF lock = r THEN NoRequest ELSE lock

(* The insert fails on a folder deleted since it was checked; nothing      *)
(* removes the object then.  A deletion of the same upload that has lost   *)
(* its row to another request and not its object yet takes it from the     *)
(* new row.                                                                *)
save_file(r) ==
    LET q == reqs[r]
        doomed == \E p \in Requests : reqs[p].op \in RemoveOps /\ q.key \in reqs[p].keys
    IN /\ q.op = "save"
       /\ IF FolderThere(q.loaded.folder)
          THEN /\ \E f \in Files :
                     /\ row[f].state = "unused"
                     /\ row' = [row EXCEPT ![f] =
                           [state |-> "live", key |-> q.key, folder |-> q.loaded.folder,
                            size |-> q.size, favorite |-> FALSE]]
               /\ IF q.job = NoJob THEN Answer(r) ELSE Step(r, "job")
               /\ leaked' = IF doomed THEN leaked \cup {q.key} ELSE leaked
          ELSE /\ leaked' = leaked \cup {q.key}
               /\ Answer(r)
               /\ UNCHANGED row
       /\ Released(r)
       /\ UNCHANGED folder /\ NoStore

----------------------------------------------------------------------------
(* Removing objects, one after the other or all at once                    *)

(* A verification that has seen the object goes on without it.             *)
RemoveOne(r) ==
    /\ reqs[r].op \in RemoveOps
    /\ \E k \in reqs[r].keys :
          /\ object' = remove_object(k)
          /\ reqs' = [reqs EXCEPT ![r].keys = @ \ {k}]
          /\ leaked' = IF \E q \in Requests : reqs[q].op \in SeenOps /\ reqs[q].key = k
                       THEN leaked \cup {k} ELSE leaked
    /\ UNCHANGED <<parts, session>> /\ NoRows /\ NoLock

(* A storage error ends the request with its remaining keys in the store;  *)
(* the removals of a batch run side by side and only skip its folders.     *)
RemoveFails(r) ==
    /\ reqs[r].op \in RemoveOps
    /\ \E k \in reqs[r].keys :
          IF reqs[r].op = "gather"
          THEN /\ leaked' = leaked \cup {k}
               /\ reqs' = [reqs EXCEPT ![r].keys = @ \ {k}, ![r].todo = {}]
               /\ NoLock
          ELSE /\ leaked' = leaked \cup reqs[r].keys
               /\ Answer(r)
               /\ Released(r)
    /\ NoStore /\ NoRows

(* Everything removed: a batch turns to its next folder, others answer.    *)
RemoveDone(r) ==
    /\ reqs[r].op \in RemoveOps /\ reqs[r].keys = {}
    /\ IF reqs[r].todo = {}
       THEN Answer(r)
       ELSE \E d \in reqs[r].todo :
               reqs' = [reqs EXCEPT ![r].todo = @ \ {d}, ![r].self = d,
                                    ![r].op = IF get_folder(d) THEN "collect" ELSE "remove"]
    /\ Released(r)
    /\ NoStore /\ NoRows /\ NoLeak

----------------------------------------------------------------------------
(* Files                                                                   *)

move_file_request(r, f, d) ==
    /\ get_file(f) /\ FolderThere(d)
    /\ Start(r, [Idle EXCEPT !.op = "move_file", !.file = f, !.place = d])
    /\ OnlyRequests

(* One UPDATE; a row or a folder deleted meanwhile makes it an error.      *)
move_file(r) ==
    LET q == reqs[r]
    IN /\ q.op = "move_file"
       /\ row' = IF get_file(q.file) /\ FolderThere(q.place)
                 THEN [row EXCEPT ![q.file].folder = q.place] ELSE row
       /\ Answer(r)
       /\ UNCHANGED folder /\ NoStore /\ NoLock /\ NoLeak

set_file_favorite(f) ==
    /\ get_file(f)
    /\ row' = [row EXCEPT ![f].favorite = ~@]
    /\ UNCHANGED <<folder, reqs, lock, leaked>> /\ NoStore

delete_file_request(r, f) ==
    /\ get_file(f)
    /\ Start(r, [Idle EXCEPT !.op = "unlink", !.file = f, !.key = row[f].key])
    /\ OnlyRequests

(* The object goes first, then the row.                                    *)
delete_file_object(r) ==
    /\ reqs[r].op = "unlink"
    /\ object' = remove_object(reqs[r].key)
    /\ Step(r, "unlink_row")
    /\ UNCHANGED <<parts, session>> /\ NoRows /\ NoLock /\ NoLeak

delete_file_row(r) ==
    /\ reqs[r].op = "unlink_row"
    /\ row' = [row EXCEPT ![reqs[r].file] = GoneFile]
    /\ Answer(r)
    /\ UNCHANGED folder /\ NoStore /\ NoLock /\ NoLeak

(* Mutant of delete_many: the ids asked for, whether found or not.         *)
delete_many_asked(r, asked, dirs) ==
    /\ row' = [f \in Files |-> IF f \in asked THEN GoneFile ELSE row[f]]
    /\ Start(r, [Idle EXCEPT !.op = "gather", !.keys = {}, !.todo = dirs])

(* The owned rows of a batch go in one statement, their keys kept.         *)
delete_many(r, asked, dirs) ==
    LET found == {f \in asked : get_file(f)}
    IN /\ row' = [f \in Files |-> IF f \in found THEN GoneFile ELSE row[f]]
       /\ Start(r, [Idle EXCEPT !.op = "gather", !.keys = {row[f].key : f \in found},
                                !.todo = dirs])

batch_delete(r) ==
    /\ \E asked \in SUBSET {f \in Files : row[f].state # "unused"},
         dirs \in SUBSET {d \in Folders : folder[d].state # "unused"} :
          /\ asked \cup dirs # {}
          /\ delete_many(r, asked, dirs)
    /\ UNCHANGED folder /\ NoStore /\ NoLock /\ NoLeak

----------------------------------------------------------------------------
(* Folders                                                                 *)

create_folder_request(r, parent, name) ==
    /\ FolderThere(parent)
    /\ Start(r, [Idle EXCEPT !.op = "create", !.place = parent, !.name = name])
    /\ OnlyRequests

create_folder(r) ==
    LET q == reqs[r]
    IN /\ q.op = "create"
       /\ \E d \in Folders :
             /\ folder[d].state = "unused"
             /\ folder' = IF FolderThere(q.place) /\ ~NameTaken(d, q.place, q.name)
                          THEN [folder EXCEPT ![d] = [state |-> "live", parent |-> q.place,
                                                      name |-> q.name]]
                          ELSE folder
       /\ Answer(r)
       /\ UNCHANGED row /\ NoStore /\ NoLock /\ NoLeak

rename_folder_request(r, d, name) ==
    /\ get_folder(d)
    /\ Start(r, [Idle EXCEPT !.op = "rename", !.self = d, !.name = name])
    /\ OnlyRequests

rename_folder(r) ==
    LET q == reqs[r]
    IN /\ q.op = "rename"
       /\ folder' = IF get_folder(q.self) /\ ~NameTaken(q.self, folder[q.self].parent, q.name)
                    THEN [folder EXCEPT ![q.self].name = q.name] ELSE folder
       /\ Answer(r)
       /\ UNCHANGED row /\ NoStore /\ NoLock /\ NoLeak

(* The target may be neither the folder nor below it, when it is checked.  *)
move_folder_request(r, d, parent) ==
    /\ get_folder(d) /\ FolderThere(parent)
    /\ parent # Root => parent # d /\ ~is_descendant(parent, d)
    /\ Start(r, [Idle EXCEPT !.op = "move", !.self = d, !.place = parent])
    /\ OnlyRequests

move_folder(r) ==
    LET q == reqs[r]
    IN /\ q.op = "move"
       /\ folder' = IF /\ get_folder(q.self) /\ FolderThere(q.place)
                       /\ ~NameTaken(q.self, q.place, folder[q.self].name)
                    THEN [folder EXCEPT ![q.self].parent = q.place] ELSE folder
       /\ Answer(r)
       /\ UNCHANGED row /\ NoStore /\ NoLock /\ NoLeak

delete_folder_request(r, d) ==
    /\ get_folder(d)
    /\ Start(r, [Idle EXCEPT !.op = "collect", !.self = d])
    /\ OnlyRequests

FilesIn(places) == {f \in Files : get_file(f) /\ row[f].folder \in places}

(* Mutant of delete_with_descendants: the ids of the rows are collected    *)
(* for removal instead of their object keys.                               *)
delete_with_descendants_ids(r) ==
    LET ids == list_subtree_ids(reqs[r].self)
    IN /\ reqs[r].op = "collect"
       /\ reqs[r].self \notin Ancestors(reqs[r].self)
       /\ reqs' = [reqs EXCEPT ![r].op = "drop", ![r].ids = ids, ![r].keys = FilesIn(ids)]
       /\ OnlyRequests

(* The walk keeps no set of seen folders: on a cycle it never ends.        *)
delete_with_descendants(r) ==
    LET ids == list_subtree_ids(reqs[r].self)
    IN /\ reqs[r].op = "collect"
       /\ reqs[r].self \notin Ancestors(reqs[r].self)
       /\ reqs' = [reqs EXCEPT ![r].op = "drop", ![r].ids = ids,
                               ![r].keys = {row[f].key : f \in FilesIn(ids)}]
       /\ OnlyRequests

(* Mutant of Cascade: subfolders stay when their folder goes.              *)
CascadeFlat(ids) == ids

(* What the foreign keys do when folders go: subfolders go along, files    *)
(* that are still in them come to the root.                                *)
Cascade(ids) == UNION {list_subtree_ids(d) : d \in ids}

(* The files of the collected folders are deleted, if any was found, then  *)
(* the folders.  A file that came in since loses its row but not its       *)
(* object, one that was moved out loses its object but not its row.        *)
DropFolders(r) ==
    LET q == reqs[r]
        gone == Cascade(q.ids)
        files == IF q.keys = {} THEN {} ELSE FilesIn(q.ids)
    IN /\ q.op = "drop"
       /\ folder' = [d \in Folders |->
             IF d \in gone THEN [folder[d] EXCEPT !.state = "gone", !.parent = Root]
             ELSE folder[d]]
       /\ row' = [f \in Files |->
             IF f \in files THEN GoneFile
             ELSE IF row[f].folder \in gone THEN [row[f] EXCEPT !.folder = Root]
             ELSE row[f]]
       /\ leaked' = leaked \cup SymDiff({row[f].key : f \in files}, q.keys)
       /\ Step(r, "remove")
       /\ NoStore /\ NoLock

----------------------------------------------------------------------------
(* The process dies: its locks go, what it had in hand stays as it was.    *)
RequestDies(r) ==
    /\ reqs[r].op # "idle"
    /\ leaked' = leaked \cup reqs[r].keys \cup ({reqs[r].key} \ {NoKey})
    /\ Answer(r)
    /\ Released(r)
    /\ NoStore /\ NoRows

ServeFiles(r) ==
    \/ CompleteParts(r) \/ CheckObject(r) \/ CheckOwner(r) \/ measure_upload(r)
    \/ find_existing(r) \/ lock_and_check(r) \/ save_file(r)
    \/ RemoveOne(r) \/ RemoveDone(r)
    \/ move_file(r) \/ delete_file_object(r) \/ delete_file_row(r)
    \/ create_folder(r) \/ rename_folder(r) \/ move_folder(r)
    \/ delete_with_descendants(r) \/ DropFolders(r)

ArriveFiles(r) ==
    \/ \E f \in Files, d \in Places : move_file_request(r, f, d)
    \/ \E f \in Files : delete_file_request(r, f)
    \/ batch_delete(r)

ArriveFolders(r) ==
    \/ \E p \in Places, n \in Names : create_folder_request(r, p, n)
    \/ \E d \in Folders, n \in Names : rename_folder_request(r, d, n)
    \/ \E d \in Folders, p \in Places : move_folder_request(r, d, p)
    \/ \E d \in Folders : delete_folder_request(r, d)

----------------------------------------------------------------------------
(* Properties                                                              *)

Working(k) == \E r \in Requests : k = reqs[r].key \/ k \in reqs[r].keys

(* The rows of an account never add up to more than its plan's storage     *)
(* quota, however many uploads are verified at once.                       *)
QuotaHeld == get_user_storage_used <= Quota

(* Once verified, an upload of the account is either a row of the library  *)
(* or out of the store: a refusal, a deletion of the file, its folder or a *)
(* batch leaves no object nobody can reach, unless a failure did.          *)
NoOrphanObject ==
    \A k \in Keys : session[k].owner = "user" /\ session[k].completed /\ object_exists(k)
                    => find_by_key(k) # {} \/ Working(k) \/ k \in leaked

(* Every folder is reached from the root: no move takes a branch, and all  *)
(* files in it, out of the tree.                                           *)
TreeRooted == \A d \in Folders : get_folder(d) => Root \in Ancestors(d)

(* A file or a folder is never left in a folder that is gone.              *)
NothingInGoneFolder ==
    /\ \A f \in Files : get_file(f) => FolderThere(row[f].folder)
    /\ \A d \in Folders : get_folder(d) => FolderThere(folder[d].parent)
============================================================================
