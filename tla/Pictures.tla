-------------------------------- MODULE Pictures ---------------------------------
(****************************************************************************)
(* The picture of a profile (its image and its banner work alike) and that of  *)
(* a channel: a key in a document of the database, and an object under that    *)
(* key in the storage.  Each upload makes a key of its own, so two writes have *)
(* to agree: an upload puts the object, sets the key and deletes the object    *)
(* of the key it read at first; a removal does it with no new one.           *)
(*                                                                          *)
(* The removal of a channel's picture (delete_channel_avatar) deletes the      *)
(* object before it clears the key; that of a profile's the other way round.  *)
(****************************************************************************)
EXTENDS Integers, FiniteSets

CONSTANTS
    MaxPictures,  \* bound: pictures uploaded to each
    MaxEditors    \* bound: requests under way at once for each

VARIABLES
    owner,    \* whose picture it is: "profile" or "channel"
    shown,    \* the key in the document, 0 for none
    stored,   \* the keys that have an object
    editing,  \* the requests
    uploads,  \* how many pictures were uploaded
    failed,   \* history: the keys whose own request failed half way
    crossed   \* history: the keys that another request replaced unseen

picVars == <<owner, shown, stored, editing, uploads, failed, crossed>>

Key == 0 .. MaxPictures
Editor == 1 .. MaxEditors
AtRest == [op |-> "none", at |-> "rest", old |-> 0, new |-> 0]

PicTypeOK ==
    /\ owner \in {"profile", "channel"}
    /\ shown \in Key
    /\ stored \subseteq Key
    /\ editing \in [Editor ->
            [op : {"none", "upload", "remove"}, at : {"rest", "put", "set", "clean"},
             old : Key, new : Key]]
    /\ uploads \in Key
    /\ failed \subseteq Key
    /\ crossed \subseteq Key

PicInit ==
    /\ owner \in {"profile", "channel"}
    /\ shown = 0
    /\ stored = {}
    /\ editing = [e \in Editor |-> AtRest]
    /\ uploads = 0
    /\ failed = {}
    /\ crossed = {}

-----------------------------------------------------------------------------
Edit(e, what) == editing' = [editing EXCEPT ![e] = what]
Editing(e, op, at) == editing[e].op = op /\ editing[e].at = at

\* The keys a write of the document drops though its request does not know them.
Unseen(e) == {shown} \ {0, editing[e].old}

\* add_profile_image, add_profile_banner, upload_channel_avatar: the document.
UploadRead(e) ==
    /\ editing[e] = AtRest
    /\ \A x \in Editor : x < e => editing[x] # AtRest
    /\ uploads < MaxPictures
    /\ uploads' = uploads + 1
    /\ Edit(e, [op |-> "upload", at |-> "put", old |-> shown, new |-> uploads + 1])
    /\ UNCHANGED <<shown, stored, failed, crossed>>

\* put_public
UploadPut(e) ==
    /\ Editing(e, "upload", "put")
    /\ \/ /\ stored' = stored \union {editing[e].new}
          /\ Edit(e, [editing[e] EXCEPT !.at = "set"])
       \/ Edit(e, AtRest) /\ UNCHANGED stored
    /\ UNCHANGED <<shown, uploads, failed, crossed>>

\* The key.  When it cannot be set a channel's new object is deleted again, a
\* profile's stays.
UploadSet(e) ==
    /\ Editing(e, "upload", "set")
    /\ \/ /\ shown' = editing[e].new
          /\ crossed' = crossed \union Unseen(e)
          /\ Edit(e, [editing[e] EXCEPT !.at = "clean"])
          /\ UNCHANGED <<stored, failed>>
       \/ /\ IF owner = "channel"
             THEN stored' = stored \ {editing[e].new} /\ UNCHANGED failed
             ELSE failed' = failed \union {editing[e].new} /\ UNCHANGED stored
          /\ Edit(e, AtRest)
          /\ UNCHANGED <<shown, crossed>>
    /\ UNCHANGED uploads

\* Mutant of Clean: what is shown by then is deleted.
CleanShown(e) ==
    /\ editing[e].at = "clean"
    /\ stored' = stored \ {shown}
    /\ Edit(e, AtRest)
    /\ UNCHANGED <<shown, uploads, failed, crossed>>

\* The object of the key that was read; if that fails, nobody hears of it.
Clean(e) ==
    /\ editing[e].at = "clean"
    /\ \/ /\ stored' = stored \ {editing[e].old}
          /\ UNCHANGED failed
       \/ /\ failed' = failed \union {editing[e].old}
          /\ UNCHANGED stored
    /\ Edit(e, AtRest)
    /\ UNCHANGED <<shown, uploads, crossed>>

\* remove_profile_image, remove_profile_banner: the key, then the object (Clean).
\* delete_channel_avatar: the object, then the key.
RemoveRead(e) ==
    /\ editing[e] = AtRest
    /\ \A x \in Editor : x < e => editing[x] # AtRest
    /\ shown # 0
    /\ Edit(e, [op |-> "remove", at |-> IF owner = "channel" THEN "put" ELSE "set",
                   old |-> shown, new |-> 0])
    /\ UNCHANGED <<shown, stored, uploads, failed, crossed>>

RemoveObject(e) ==
    /\ Editing(e, "remove", "put")
    /\ \/ /\ stored' = stored \ {editing[e].old}
          /\ UNCHANGED failed
       \/ /\ failed' = failed \union {editing[e].old}
          /\ UNCHANGED stored
    /\ Edit(e, [editing[e] EXCEPT !.at = "set"])
    /\ UNCHANGED <<shown, uploads, crossed>>

RemoveKey(e) ==
    /\ Editing(e, "remove", "set")
    /\ \/ /\ shown' = 0
          /\ crossed' = crossed \union Unseen(e)
          /\ Edit(e, IF owner = "channel" THEN AtRest ELSE [editing[e] EXCEPT !.at = "clean"])
          /\ UNCHANGED failed
       \/ /\ failed' = failed \union {editing[e].old}
          /\ Edit(e, AtRest)
          /\ UNCHANGED <<shown, crossed>>
    /\ UNCHANGED <<stored, uploads>>

PicNext ==
    /\ UNCHANGED owner
    /\ \E e \in Editor :
        \/ UploadRead(e) \/ UploadPut(e) \/ UploadSet(e) \/ Clean(e)
        \/ RemoveRead(e) \/ RemoveObject(e) \/ RemoveKey(e)

PicSpec == PicInit /\ [][PicNext]_picVars

-----------------------------------------------------------------------------
\* A picture that is shown exists, save a channel's while it is being removed, or
\* when its removal failed half way.
ShownExists ==
    shown # 0 =>
        \/ shown \in stored
        \/ /\ owner = "channel"
           /\ \/ shown \in failed
              \/ \E e \in Editor : Editing(e, "remove", "set") /\ editing[e].old = shown

\* With no request under way the storage holds the picture that is shown and no
\* other, save those of a request that failed or met another.
NothingLeaks ==
    (\A e \in Editor : editing[e] = AtRest) =>
        stored \subseteq {shown} \union failed \union crossed
=================================================================================
