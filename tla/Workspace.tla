----------------------------- MODULE Workspace -----------------------------
(* What operators and readers work with beside projects: documents, the       *)
(* entries of the catalogue, uploads, the operations log and the lists.  They *)
(* share the pool of requests, the tags, and the moment a request dies.       *)
EXTENDS Catalogue, Uploads, Journal, Pages

docVars == <<doc, docLog>>
upVars == <<up, upLost>>
workspaceVars == <<pool, docVars, catVars, upVars, journalVars, pageVars>>

\* The log and the lists keep their own handlers, and are explored on their own;
\* the other groups are not called then.
Init == /\ PoolInit /\ DocInit /\ CatInit /\ UpInit /\ JournalInit
        /\ IF "lists" \in mix THEN PagesInit ELSE NoPages

\* A deleted tag takes the edges of the templates with it.
PruneTags ==
  IF doc'.tag = doc.tag THEN UNCHANGED catVars
  ELSE /\ cat' = [cat EXCEPT !.node = [e \in Entries |->
              Unlinked(@[e], {t \in Tags : doc'.tag[t].slug = None})]]
       /\ UNCHANGED catLog

\* What a request was at when it died stays as it is: tags half replaced, an
\* upload half made, projects not queued.
DieW(q) == LET l == req[q] IN
  /\ Die(q)
  /\ docLog' = IF l.at \in {"doc.detach", "doc.attach"} THEN [docLog EXCEPT !.torn = @ \cup {l.d}] ELSE docLog
  /\ upLost' = IF "f" \in DOMAIN l THEN upLost \cup {l.f} ELSE upLost
  /\ UNCHANGED <<doc, catVars, up>>

Next ==
  \/ DocumentsNext /\ PruneTags /\ UNCHANGED <<upVars, journalVars, pageVars>>
  \/ CatalogueNext /\ UNCHANGED <<docVars, upVars, journalVars, pageVars>>
  \/ UploadsNext /\ UNCHANGED <<docVars, catVars, journalVars, pageVars>>
  \/ (\E q \in Slots : DieW(q)) /\ UNCHANGED <<journalVars, pageVars>>
  \/ "journal" \in mix /\ JournalNext /\ UNCHANGED <<pool, docVars, catVars, upVars, pageVars>>
  \/ "lists" \in mix /\ PagesNext /\ UNCHANGED <<pool, docVars, catVars, upVars, journalVars>>

Spec == Init /\ [][Next]_workspaceVars

-----------------------------------------------------------------------------
\* Properties

TypeOK == PoolTypeOK /\ DocTypeOK /\ CatTypeOK /\ UpTypeOK /\ JournalTypeOK
=============================================================================
