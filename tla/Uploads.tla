------------------------------ MODULE Uploads ------------------------------
(***************************************************************************)
(* Upload sessions and the object store behind them: TransferService, the  *)
(* Redis session cache and the storage adapter.                            *)
(*                                                                         *)
(* A session names one object key, drawn fresh, so a key stands for its    *)
(* session too.  The client sends the bytes straight to the store, by one  *)
(* presigned PUT or in parts; the API learns of them when it is asked to   *)
(* verify the session.  An object is its size, 0 when there is none.       *)
(***************************************************************************)
EXTENDS Integers, FiniteSets

CONSTANTS Keys,       \* bound: upload sessions, one object key each
          NoKey,      \* no object key
          Folders,    \* bound: folder ids
          Root,       \* folder_id NULL
          MaxSize,    \* bound: the largest file a client sends
          Threshold   \* MULTIPART_THRESHOLD_BYTES

ASSUME UploadAssumption == /\ NoKey \notin Keys
                           /\ Root \notin Folders
                           /\ MaxSize \in Nat \ {0}
                           /\ Threshold \in Nat \ {0}

VARIABLES object,   \* key -> size of the stored object, 0 when there is none
          parts,    \* key -> what the store holds of its multipart upload
          session   \* key -> the cached upload session

uploadVars == <<object, parts, session>>

Sizes == 1..MaxSize

(* A multipart upload at the store: nothing sent, all parts sent (with the *)
(* size they add up to), assembled or aborted.                             *)
NoParts == [state |-> "none", size |-> 0]

(* A cached session; live is FALSE before it is created and once it is     *)
(* deleted or has outlived its TTL.  upload holds multipart_upload_id: the *)
(* store has an upload this session must still complete.                   *)
UploadSession == [live : BOOLEAN, owner : {"user", "guest"},
                  completed : BOOLEAN, multipart : BOOLEAN, upload : BOOLEAN,
                  folder : Folders \cup {Root}, created : BOOLEAN]

NoSession == [live |-> FALSE, owner |-> "user", completed |-> FALSE,
              multipart |-> FALSE, upload |-> FALSE, folder |-> Root,
              created |-> FALSE]

TypeOKUploads ==
    /\ object \in [Keys -> 0..MaxSize]
    /\ parts \in [Keys -> [state : {"none", "open", "sent", "assembled", "aborted"},
                           size : 0..MaxSize]]
    /\ session \in [Keys -> UploadSession]

----------------------------------------------------------------------------
(* The store                                                               *)

object_exists(k) == object[k] # 0

(* stat_object answers None for a missing object and its caller reads the  *)
(* size as 0.                                                              *)
stat_object(k) == object[k]

remove_object(k) == [object EXCEPT ![k] = 0]

create_multipart_upload(k) == [parts EXCEPT ![k] = [state |-> "open", size |-> 0]]

abort_multipart_upload(k) ==
    IF parts[k].state \in {"open", "sent"}
    THEN [parts EXCEPT ![k] = [state |-> "aborted", size |-> 0]] ELSE parts

(* The store assembles an upload once; a second completion, or one of an   *)
(* aborted upload, is refused as NoSuchUpload.                             *)
CanComplete(k) == parts[k].state = "sent"

complete_multipart_upload(k) ==
    /\ object' = [object EXCEPT ![k] = parts[k].size]
    /\ parts' = [parts EXCEPT ![k].state = "assembled"]

----------------------------------------------------------------------------
(* Sessions                                                                *)

get_upload_session(k) == session[k].live

plan_multipart(declared) == declared >= Threshold

(* A session for a declared size, 0 when the client declares none; the     *)
(* multipart upload is opened at the store before the session is cached.   *)
create_upload(k, owner, folder, declared) ==
    LET multi == plan_multipart(declared)
    IN /\ ~session[k].created
       /\ session' = [session EXCEPT ![k] =
             [live |-> TRUE, owner |-> owner, completed |-> FALSE,
              multipart |-> multi, upload |-> multi, folder |-> folder,
              created |-> TRUE]]
       /\ parts' = IF multi THEN create_multipart_upload(k) ELSE parts
       /\ UNCHANGED object

(* The URLs of the parts are minted for a live multipart session only.     *)
generate_part_urls(k) ==
    get_upload_session(k) /\ session[k].multipart /\ session[k].upload

(* The client sends its bytes, of a size it need not have declared.        *)
ClientPut(k) ==
    /\ session[k].live /\ ~session[k].multipart /\ ~session[k].completed
    /\ object[k] = 0
    /\ \E s \in Sizes : object' = [object EXCEPT ![k] = s]
    /\ UNCHANGED <<parts, session>>

ClientSendsParts(k) ==
    /\ generate_part_urls(k)
    /\ parts[k].state = "open"
    /\ \E s \in Sizes : parts' = [parts EXCEPT ![k] = [state |-> "sent", size |-> s]]
    /\ UNCHANGED <<object, session>>

(* The cache drops a session whose TTL has passed.                         *)
SessionExpires(k) ==
    /\ session[k].live
    /\ session' = [session EXCEPT ![k].live = FALSE]
    /\ UNCHANGED <<object, parts>>

(* Deleting a session aborts the upload it has not completed.              *)
delete_upload_session(k) ==
    /\ get_upload_session(k)
    /\ parts' = IF session[k].upload THEN abort_multipart_upload(k) ELSE parts
    /\ session' = [session EXCEPT ![k].live = FALSE]
    /\ UNCHANGED object

(* A verified session is cached again, completed and with nothing left to  *)
(* complete, from the copy the request loaded: a session deleted or        *)
(* expired meanwhile is back.                                              *)
SaveVerified(k, loaded) ==
    session' = [session EXCEPT ![k] =
                    [loaded EXCEPT !.live = TRUE, !.completed = TRUE, !.upload = FALSE]]
============================================================================
