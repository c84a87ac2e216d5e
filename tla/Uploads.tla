------------------------------ MODULE Uploads ------------------------------
(* Uploaded files (uploads.py): an object in the store, perhaps a thumbnail,  *)
(* and a record in the graph, written one after the other in one order and    *)
(* removed in the other.                                                      *)
EXTENDS Requests

CONSTANT Files   \* uploads, each made once

VARIABLES
  up,       \* the records, and the objects of the store
  upLost    \* uploads a request has died over, or a call of the store failed for

Objects == {"file", "thumbnail"}

\* The record: the keys it names, and whether it says there is a thumbnail.
NoRecord == [keys |-> {}, has |-> FALSE]
Recorded(f) == up.record[f].keys # {}
\* What the readers ask the store for.
Served(f) == up.record[f].keys \ (IF up.record[f].has THEN {} ELSE {"thumbnail"})
Keep(f, o) == up' = [up EXCEPT !.stored[f] = @ \cup {o}]
Drop(f, o) == up' = [up EXCEPT !.stored[f] = @ \ {o}]

\* A call of the store or of the graph raises.
Raises(q, label, next) == /\ At(q, label)
                          /\ faults < MaxFaults
                          /\ faults' = faults + 1
                          /\ req' = [req EXCEPT ![q] = next]
                          /\ UNCHANGED <<begun, mix>>

CreateUpload(q) == \E f \in Files, image \in BOOLEAN : /\ f \notin up.known
  /\ Begin(q, [at |-> "up.file", f |-> f, image |-> image, new |-> [keys |-> {"file"}, has |-> FALSE]])
  /\ up' = [up EXCEPT !.known = @ \cup {f}]
  /\ UNCHANGED upLost

StoreFile(q) == LET l == req[q] IN
  /\ Step(q, "up.file", To(q, IF l.image THEN "up.thumbnail" ELSE "up.save"))
  /\ Keep(l.f, "file") /\ UNCHANGED upLost

StoreThumbnail(q) == LET l == req[q] IN
  /\ Step(q, "up.thumbnail", [l EXCEPT !.at = "up.save", !.new = [keys |-> Objects, has |-> TRUE]])
  /\ Keep(l.f, "thumbnail") /\ UNCHANGED upLost

\* Logged, and the upload goes on without one. Nothing was made, or the store
\* failed after the key was taken, with the object kept or not.
ThumbnailFails(q) == At(q, "up.thumbnail") /\ LET l == req[q] IN
  /\ UNCHANGED upLost
  /\ \/ Raises(q, "up.thumbnail", To(q, "up.save")) /\ UNCHANGED up
     \/ /\ Raises(q, "up.thumbnail", [l EXCEPT !.at = "up.save", !.new.keys = Objects])
        /\ (UNCHANGED up \/ Keep(l.f, "thumbnail"))

SaveRecord(q) == LET l == req[q] IN
  /\ Step(q, "up.save", Idle)
  /\ up' = [up EXCEPT !.record[l.f] = l.new]
  /\ UNCHANGED upLost

\* The objects are taken back.
SaveFailsQuietly(q) == At(q, "up.save") /\ Raises(q, "up.save", Idle) /\ UNCHANGED <<up, upLost>>
SaveFails(q) == At(q, "up.save") /\ Raises(q, "up.save", To(q, "up.drop")) /\ UNCHANGED <<up, upLost>>

DeleteUpload(q) == \E f \in Files : /\ Recorded(f)
  /\ Begin(q, [at |-> "up.delete", f |-> f, new |-> up.record[f]])
  /\ UNCHANGED <<up, upLost>>

\* The record goes first: what is left over if the rest fails is garbage, not a
\* record of nothing.
DeleteRecord(q) == LET l == req[q] IN
  /\ Step(q, "up.delete", To(q, "up.drop"))
  /\ up' = [up EXCEPT !.record[l.f] = NoRecord]
  /\ UNCHANGED upLost

DropFile(q) == LET l == req[q] IN
  /\ Step(q, "up.drop", IF "thumbnail" \in l.new.keys THEN To(q, "up.drop.thumbnail") ELSE Idle)
  /\ Drop(l.f, "file") /\ UNCHANGED upLost

DropThumbnail(q) == LET l == req[q] IN
  /\ Step(q, "up.drop.thumbnail", Idle)
  /\ Drop(l.f, "thumbnail") /\ UNCHANGED upLost

DropFails(q) == \E label \in {"up.drop", "up.drop.thumbnail"} : At(q, label) /\ LET l == req[q] IN
  /\ Raises(q, label, Idle)
  /\ upLost' = upLost \cup {l.f}
  /\ UNCHANGED up

UpInit == /\ up = [known |-> {}, record |-> [f \in Files |-> NoRecord], stored |-> [f \in Files |-> {}]]
          /\ upLost = {}

UploadCalls(q) == CreateUpload(q) \/ DeleteUpload(q)

UploadsStep(q) ==
  \/ StoreFile(q) \/ StoreThumbnail(q) \/ ThumbnailFails(q) \/ SaveRecord(q) \/ SaveFails(q)
  \/ DeleteRecord(q) \/ DropFile(q) \/ DropThumbnail(q) \/ DropFails(q)

UploadsNext == \E q \in Slots : ("uploads" \in mix /\ UploadCalls(q)) \/ UploadsStep(q)

-----------------------------------------------------------------------------
\* Properties

UpTypeOK == /\ up.record \in [Files -> [keys : SUBSET Objects, has : BOOLEAN]]
            /\ up.stored \in [Files -> SUBSET Objects]

\* What the readers of a record ask for is in the store, at every moment and
\* whatever fails; and what is in the store is named by a record, through which
\* it will be removed, once no request is at work on it, unless one died or the
\* store refused to take an object back (uploads.py:111-158, uploads.py:380-386).
UploadsStored == \A f \in Files :
  /\ Served(f) \subseteq up.stored[f]
  /\ (\A q \in InFlight : "f" \notin DOMAIN req[q] \/ req[q].f # f) /\ f \notin upLost
       => up.stored[f] \subseteq up.record[f].keys
=============================================================================
