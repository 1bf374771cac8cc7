----------------------------- MODULE ImageUpload -----------------------------
(***************************************************************************)
(* Uploads of images: service/image_upload_service.go and proxy/oss.go on  *)
(* an object store that lives longer than the server.                      *)
(*                                                                         *)
(* An object's key is made from the SHA-256 of its bytes, taken to be      *)
(* different for different bytes, and the ending of its type.  The month   *)
(* in the key only separates more keys and is left out.                    *)
(***************************************************************************)
CONSTANTS
  Slots,        \* requests that may be served at the same time
  Payloads,     \* bytes
  BadSize,      \* those that are none, or more than 5 MB
  Names,        \* file names
  ByExtension,  \* image type that a name's ending stands for, or Nothing
  Sniffed,      \* type that the first bytes look like
  ImageTypes,   \* allowedImageContentTypes
  Nothing

ASSUME ImageUploadAssumption ==
  /\ BadSize \subseteq Payloads
  /\ DOMAIN ByExtension = Names /\ DOMAIN Sniffed = Payloads

VARIABLES
  objects,   \* the object store
  upload,    \* upload[r]: what request r is about to store, or Nothing
  urls       \* history: the URLs that were answered, with their images

uploadVars == <<objects, upload, urls>>

UploadInit ==
  /\ objects = {} /\ urls = {}
  /\ upload = [r \in Slots |-> Nothing]

(* A name with the ending of an image has the last word.                   *)
ContentType(p, n) == IF ByExtension[n] # Nothing THEN ByExtension[n] ELSE Sniffed[p]

Accepted(p, n) == p \notin BadSize /\ ContentType(p, n) \in ImageTypes

(* Mutant of Key: named like the file.                                     *)
KeyByName(p, n) == [hash |-> n, ext |-> ContentType(p, n)]

Key(p, n) == [hash |-> p, ext |-> ContentType(p, n)]

(* Upload checks the bytes and names the object ...                        *)
CheckImage(r, p, n) ==
  /\ upload[r] = Nothing /\ Accepted(p, n)
  /\ upload' = [upload EXCEPT ![r] =
       [key |-> Key(p, n), image |-> p, type |-> ContentType(p, n)]]
  /\ UNCHANGED <<objects, urls>>

Stored(o) == {old \in objects : old.key # o.key} \cup {o}

(* ... and PutObject replaces whatever has that key.                       *)
PutObject(r) ==
  /\ upload[r] # Nothing
  /\ objects' = Stored(upload[r])
  /\ urls' = urls \cup {[key |-> upload[r].key, image |-> upload[r].image]}
  /\ upload' = [upload EXCEPT ![r] = Nothing]

(* An error, or the answer of the store is lost.                           *)
PutFails(r) ==
  /\ upload[r] # Nothing
  /\ objects' \in {objects, Stored(upload[r])}
  /\ upload' = [upload EXCEPT ![r] = Nothing]
  /\ UNCHANGED urls

(* There is no store to put it in, or it refuses the object.               *)
UploadGivenUp(r) ==
  /\ upload[r] # Nothing
  /\ upload' = [upload EXCEPT ![r] = Nothing]
  /\ UNCHANGED <<objects, urls>>

UploadsLost == upload' = [r \in Slots |-> Nothing]

-----------------------------------------------------------------------------
(* Correctness.                                                            *)

(* A URL that was answered shows the image it was answered for, whoever    *)
(* uploads what under which name, again or at the same time, and however   *)
(* uploads fail.                                                           *)
UrlKeepsItsImage ==
  \A u \in urls : \E o \in objects : o.key = u.key /\ o.image = u.image
=============================================================================
