----------------------------- MODULE Documents -----------------------------
(* Documents with their tags (documents.py, tags.py) and the comment threads  *)
(* on them (comments.py).  A document is reached through what it is attached  *)
(* to, a thread through its document, a comment through its thread; deleting  *)
(* any of them leaves what hangs on it behind.                                *)
EXTENDS Requests, FiniteSetsExt, TLC

CONSTANTS
  Docs,            \* documents, each created at most once
  Tags, TagSlugs,  \* tag nodes, and the slugs they are named by
  None,            \* no slug
  Users,           \* the principals who write
  MaxThreads,      \* bound: threads ever started
  MaxComments      \* bound: comments ever written

ASSUME DocumentsAssumption ==
  /\ MaxThreads \in Nat \ {0} /\ MaxComments \in Nat \ {0}
  /\ Docs # {} /\ Tags # {} /\ TagSlugs # {}
  /\ None \notin Docs \cup TagSlugs
  /\ Slots # {} /\ IsFiniteSet(Slots)

VARIABLES
  doc,      \* documents, tags, threads and comments as the graph holds them
  docLog    \* history the properties read and no handler does

Texts == 1..2
Threads == 1..MaxThreads
Comments == 1..MaxComments

NoDoc == [there |-> FALSE, title |-> 1, pinned |-> 1]
NoEdges == [t \in Tags |-> 0]
NoThread == [there |-> FALSE, doc |-> None, resolved |-> None]
NoComment == [there |-> FALSE, thread |-> 0, body |-> 1, acks |-> {}]

\* What the join over the attachment finds.
Readable(d) == doc.node[d].there /\ doc.anchored
ThreadRead(t) == doc.thread[t].there /\ doc.thread[t].doc # None /\ Readable(doc.thread[t].doc)
CommentRead(c) == doc.comment[c].there /\ doc.comment[c].thread # 0 /\ ThreadRead(doc.comment[c].thread)

Tagged(slugs) == {t \in Tags : doc.tag[t].slug \in slugs}
SlugsInUse == {doc.tag[t].slug : t \in Tags} \ {None}
InThread(t) == {c \in Comments : doc.comment[c].there /\ doc.comment[c].thread = t}

LookD(q, next) == Begin(q, next) /\ UNCHANGED <<doc, docLog>>
WaitD(q, label, next) == Step(q, label, next) /\ UNCHANGED <<doc, docLog>>

-----------------------------------------------------------------------------
\* documents.py: every tag slug is looked up, the node is created or written,
\* the old edges are deleted and new ones created, each in its own statement.

Retagging(d) == {q \in Slots : req[q].at \in {"doc.set", "doc.detach", "doc.attach"}
                                /\ req[q].d = d /\ req[q].ask.f = "tags"}

\* Two replacements of one document's tags are under way, or the tags change
\* between the look at their slugs and the edges.
Entangled(log, q, d) == IF Retagging(d) \subseteq {q} THEN log ELSE [log EXCEPT !.torn = @ \cup {d}]
TagsShift(log) == [log EXCEPT !.torn = @ \cup {d \in Docs : Retagging(d) # {}}]

Asks == [f : {"title", "pinned"}, v : Texts, tags : {{}}]
        \cup [f : {"tags"}, v : {1}, tags : SUBSET TagSlugs]

CreateDocument(q) == \E d \in Docs \ docLog.born, slugs \in SUBSET SlugsInUse :
  /\ \A o \in Slots : At(o, "doc.create") => req[o].d # d
  /\ LookD(q, [at |-> "doc.create", d |-> d, ask |-> [f |-> "tags", v |-> 1, tags |-> slugs]])

CreateDocumentNode(q) == At(q, "doc.create") /\ LET l == req[q] IN
  IF ~doc.anchored THEN WaitD(q, "doc.create", Idle)
  ELSE /\ Step(q, "doc.create", IF l.ask.tags = {} THEN Idle ELSE To(q, "doc.attach"))
       /\ doc' = [doc EXCEPT !.node[l.d] = [NoDoc EXCEPT !.there = TRUE]]
       /\ docLog' = [docLog EXCEPT !.born = @ \cup {l.d},
                                   !.want[l.d] = [NoDoc EXCEPT !.there = TRUE],
                                   !.tags[l.d] = Tagged(l.ask.tags)]

PatchDocument(q) == \E d \in Docs, ask \in Asks : /\ Readable(d)
  /\ LookD(q, [at |-> IF ask.tags = {} THEN "doc.set" ELSE "doc.check",
               d |-> d, ask |-> ask, read |-> doc.node[d]])

ValidateTagSlugs(q) == WaitD(q, "doc.check",
  IF req[q].ask.tags \subseteq SlugsInUse THEN To(q, "doc.set") ELSE Idle)

Edited(n, ask) == CASE ask.f = "title" -> [n EXCEPT !.title = ask.v]
                  [] ask.f = "pinned" -> [n EXCEPT !.pinned = ask.v]
                  [] OTHER -> n

\* Title, content and pin are written together, as they were read.
SetDocument(q) == At(q, "doc.set") /\ LET l == req[q] IN
  IF ~Readable(l.d) THEN WaitD(q, "doc.set", Idle)
  ELSE /\ Step(q, "doc.set", IF l.ask.f = "tags" THEN To(q, "doc.detach") ELSE Idle)
       /\ doc' = [doc EXCEPT !.node[l.d] = Edited(l.read, l.ask)]
       /\ docLog' = [docLog EXCEPT
            !.want[l.d] = Edited(@, l.ask),
            !.tags[l.d] = IF l.ask.f = "tags" THEN Tagged(l.ask.tags) ELSE @,
            !.stale = IF doc.node[l.d] = l.read THEN @ ELSE @ \cup {l.d}]

DetachNoTags(q) == LET l == req[q] IN
  /\ Step(q, "doc.detach", IF l.ask.tags = {} THEN Idle ELSE To(q, "doc.attach"))
  /\ docLog' = Entangled(docLog, q, l.d)
  /\ UNCHANGED doc
DetachAllTags(q) == LET l == req[q] IN
  /\ Step(q, "doc.detach", IF l.ask.tags = {} THEN Idle ELSE To(q, "doc.attach"))
  /\ doc' = [doc EXCEPT !.edges[l.d] = NoEdges]
  /\ docLog' = Entangled(docLog, q, l.d)

\* CREATE: an edge for every tag that has one of the slugs now.
AttachTags(q) == At(q, "doc.attach") /\ LET l == req[q] IN
  /\ Step(q, "doc.attach", Idle)
  /\ doc' = IF ~doc.node[l.d].there THEN doc
            ELSE [doc EXCEPT !.edges[l.d] = [t \in Tags |-> @[t] + Cardinality({t} \cap Tagged(l.ask.tags))]]
  /\ docLog' = Entangled(docLog, q, l.d)

\* DETACH DELETE of the document alone.
DeleteDocument(q) == \E d \in Docs : /\ Readable(d)
  /\ Begin(q, Idle)
  /\ doc' = [doc EXCEPT !.node[d] = NoDoc, !.edges[d] = NoEdges,
               !.thread = [t \in Threads |-> IF @[t].doc = d THEN [@[t] EXCEPT !.doc = None] ELSE @[t]]]
  /\ docLog' = [docLog EXCEPT !.want[d] = NoDoc, !.tags[d] = {}]

\* The project, type or user the documents are attached to is deleted.
DeleteAttachment(q) == /\ doc.anchored
                       /\ Begin(q, Idle)
                       /\ doc' = [doc EXCEPT !.anchored = FALSE]
                       /\ UNCHANGED docLog

-----------------------------------------------------------------------------
\* tags.py: slugs are unique; a patch writes name, slug and description to the
\* tag that has the old slug by then.

CreateTag(q) == \E t \in Tags, s \in TagSlugs \ SlugsInUse : /\ doc.tag[t].slug = None
  /\ Begin(q, Idle)
  /\ doc' = [doc EXCEPT !.tag[t] = [slug |-> s, about |-> 1]]
  /\ docLog' = TagsShift(docLog)

PatchTag(q) == \E t \in Tags, s \in TagSlugs, v \in Texts : /\ doc.tag[t].slug # None
  /\ (s = doc.tag[t].slug \/ v = doc.tag[t].about)
  /\ LookD(q, [at |-> "tag.save", old |-> doc.tag[t].slug, new |-> [slug |-> s, about |-> v]])

PatchTagSave(q) == At(q, "tag.save") /\ LET l == req[q] IN
  IF l.old \notin SlugsInUse \/ (l.new.slug # l.old /\ l.new.slug \in SlugsInUse)
  THEN WaitD(q, "tag.save", Idle)
  ELSE /\ Step(q, "tag.save", Idle)
       /\ doc' = [doc EXCEPT !.tag = [t \in Tags |-> IF @[t].slug = l.old THEN l.new ELSE @[t]]]
       /\ docLog' = TagsShift(docLog)

DeleteTagNode(q) == \E t \in Tags : /\ doc.tag[t].slug # None
  /\ Begin(q, Idle)
  /\ doc' = [doc EXCEPT !.tag[t] = [slug |-> None, about |-> 1]]
  /\ UNCHANGED docLog
DeleteTag(q) == \E t \in Tags : /\ doc.tag[t].slug # None
  /\ Begin(q, Idle)
  /\ doc' = [doc EXCEPT !.tag[t] = [slug |-> None, about |-> 1],
                        !.edges = [d \in Docs |-> [@[d] EXCEPT ![t] = 0]]]
  /\ docLog' = [docLog EXCEPT !.tags = [d \in Docs |-> @[d] \ {t}]]

-----------------------------------------------------------------------------
\* comments.py

\* The thread and its first comment are created in one statement.
CreateCommentThread(q) == \E d \in Docs : /\ Readable(d)
  /\ docLog.threads < MaxThreads /\ docLog.comments < MaxComments
  /\ LookD(q, [at |-> "thread.create", d |-> d])

NewComment(t) == [there |-> TRUE, thread |-> t, body |-> 1, acks |-> {}]

CreateThreadNode(q) == At(q, "thread.create") /\ LET l == req[q]
                                                     t == docLog.threads + 1
                                                     c == docLog.comments + 1 IN
  IF ~Readable(l.d) \/ t \notin Threads \/ c \notin Comments THEN WaitD(q, "thread.create", Idle)
  ELSE /\ Step(q, "thread.create", Idle)
       /\ doc' = [doc EXCEPT !.thread[t] = [there |-> TRUE, doc |-> l.d, resolved |-> None],
                             !.comment[c] = NewComment(t)]
       /\ docLog' = [docLog EXCEPT !.threads = t, !.comments = c, !.home[c] = t]

\* One statement, which matches the thread.
CreateReply(q) == \E t \in Threads : /\ ThreadRead(t)
  /\ docLog.comments < MaxComments
  /\ LET c == docLog.comments + 1 IN
     /\ Begin(q, Idle)
     /\ doc' = [doc EXCEPT !.comment[c] = NewComment(t)]
     /\ docLog' = [docLog EXCEPT !.comments = c, !.home[c] = t]

PatchCommentThread(q) == \E t \in Threads, by \in Users \cup {None} : /\ ThreadRead(t)
  /\ LookD(q, [at |-> "thread.save", t |-> t, by |-> by])

PatchThreadSave(q) == At(q, "thread.save") /\ LET l == req[q] IN
  IF ~ThreadRead(l.t) THEN WaitD(q, "thread.save", Idle)
  ELSE /\ Step(q, "thread.save", Idle)
       /\ doc' = [doc EXCEPT !.thread[l.t].resolved = l.by]
       /\ UNCHANGED docLog

PatchComment(q) == \E c \in Comments, v \in Texts : /\ CommentRead(c)
  /\ LookD(q, [at |-> "comment.save", c |-> c, v |-> v])

PatchCommentSave(q) == At(q, "comment.save") /\ LET l == req[q] IN
  IF ~CommentRead(l.c) THEN WaitD(q, "comment.save", Idle)
  ELSE /\ Step(q, "comment.save", Idle)
       /\ doc' = [doc EXCEPT !.comment[l.c].body = l.v]
       /\ UNCHANGED docLog

\* The list of those who acknowledged is read, toggled and written whole.
AcknowledgeComment(q) == \E c \in Comments, u \in Users : /\ CommentRead(c)
  /\ LookD(q, [at |-> "ack.save", c |-> c, u |-> u, read |-> doc.comment[c].acks])

Toggle(S, u) == IF u \in S THEN S \ {u} ELSE S \cup {u}

AcknowledgeSave(q) == At(q, "ack.save") /\ LET l == req[q] IN
  IF ~CommentRead(l.c) THEN WaitD(q, "ack.save", Idle)
  ELSE /\ Step(q, "ack.save", Idle)
       /\ doc' = [doc EXCEPT !.comment[l.c].acks = Toggle(l.read, l.u)]
       /\ docLog' = [docLog EXCEPT
            !.acks[l.c] = Toggle(@, l.u),
            !.lost = IF doc.comment[l.c].acks = l.read THEN @ ELSE @ \cup {l.c}]

\* The thread goes with its only comment; which one that is is read first.
DeleteComment(q) == \E c \in Comments : /\ CommentRead(c)
  /\ LookD(q, [at |-> "comment.thread", c |-> c, t |-> doc.comment[c].thread])

IsRoot(c, S) == S # {} /\ c = Min(S)
IsAny(S) == TRUE
IsOnly(S) == Cardinality(S) <= 1

ReadThread(q) == At(q, "comment.thread") /\ LET l == req[q] IN
  WaitD(q, "comment.thread",
        IF ThreadRead(l.t) THEN With(To(q, "comment.delete"), [seen |-> InThread(l.t)]) ELSE Idle)

DeleteCommentNode(q) == At(q, "comment.delete") /\ LET l == req[q]
                                                       whole == IsRoot(l.c, l.seen) /\ IsOnly(l.seen) IN
  IF ~CommentRead(l.c) THEN WaitD(q, "comment.delete", Idle)
  ELSE /\ Step(q, "comment.delete", Idle)
       /\ doc' = [doc EXCEPT
            !.comment = [c \in Comments |->
               IF c = l.c THEN NoComment
               ELSE IF whole /\ @[c].thread = l.t THEN [@[c] EXCEPT !.thread = 0] ELSE @[c]],
            !.thread[l.t] = IF whole THEN NoThread ELSE @]
       /\ docLog' = [docLog EXCEPT
            !.acks[l.c] = {},
            !.crossed = IF InThread(l.t) = l.seen THEN @ ELSE @ \cup {l.t}]

-----------------------------------------------------------------------------

DocInit ==
  LET d1 == CHOOSE d \in Docs : TRUE
      t1 == CHOOSE t \in Tags : TRUE
      s1 == CHOOSE s \in TagSlugs : TRUE
      first == [NoDoc EXCEPT !.there = TRUE] IN
  /\ doc = [node |-> [d \in Docs |-> IF d = d1 THEN first ELSE NoDoc],
            edges |-> [d \in Docs |-> IF d = d1 THEN [NoEdges EXCEPT ![t1] = 1] ELSE NoEdges],
            anchored |-> TRUE,
            tag |-> [t \in Tags |-> [slug |-> IF t = t1 THEN s1 ELSE None, about |-> 1]],
            thread |-> [t \in Threads |->
               IF t = 1 THEN [there |-> TRUE, doc |-> d1, resolved |-> None] ELSE NoThread],
            comment |-> [c \in Comments |-> IF c = 1 THEN NewComment(1) ELSE NoComment]]
  /\ docLog = [born |-> {d1}, want |-> doc.node, stale |-> {},
               tags |-> [d \in Docs |-> {t \in Tags : doc.edges[d][t] > 0}], torn |-> {},
               threads |-> 1, comments |-> 1, home |-> [c \in Comments |-> IF c = 1 THEN 1 ELSE 0],
               acks |-> [c \in Comments |-> {}], lost |-> {}, crossed |-> {}]

DocumentCalls(q) == CreateDocument(q) \/ PatchDocument(q) \/ DeleteDocument(q) \/ DeleteAttachment(q)
TagCalls(q) == CreateTag(q) \/ PatchTag(q) \/ DeleteTag(q)
CommentCalls(q) ==
  \/ CreateCommentThread(q) \/ CreateReply(q) \/ PatchCommentThread(q)
  \/ PatchComment(q) \/ AcknowledgeComment(q) \/ DeleteComment(q)

DocumentsStep(q) ==
  \/ CreateDocumentNode(q) \/ ValidateTagSlugs(q) \/ SetDocument(q) \/ DetachAllTags(q) \/ AttachTags(q)
  \/ PatchTagSave(q)
  \/ CreateThreadNode(q) \/ PatchThreadSave(q) \/ PatchCommentSave(q) \/ AcknowledgeSave(q)
  \/ ReadThread(q) \/ DeleteCommentNode(q)

DocumentsNext == \E q \in Slots :
  \/ "documents" \in mix /\ DocumentCalls(q)
  \/ "tags" \in mix /\ TagCalls(q)
  \/ "comments" \in mix /\ CommentCalls(q)
  \/ DocumentsStep(q)

-----------------------------------------------------------------------------
\* Properties

DocTypeOK ==
  /\ doc.node \in [Docs -> [there : BOOLEAN, title : Texts, pinned : Texts]]
  /\ doc.edges \in [Docs -> [Tags -> 0..Cardinality(Slots)]]
  /\ \A d \in Docs, t \in Tags : doc.edges[d][t] > 0 => doc.node[d].there /\ doc.tag[t].slug # None
  /\ \A s, t \in Tags : doc.tag[s].slug = doc.tag[t].slug => s = t \/ doc.tag[s].slug = None
  /\ \A t \in Threads : doc.thread[t].doc # None => doc.node[doc.thread[t].doc].there
  /\ \A c \in Comments : doc.comment[c].thread # 0 => doc.thread[doc.comment[c].thread].there

\* A document's title and pin are what was last asked for each of them, unless a
\* patch was written over one it had not read (documents.py:871 writes both).
\* Once no replacement of its tags is under way it carries the tags asked for,
\* each once, unless two replacements, a change of the tags or a request that
\* died came between the three statements (documents.py:871-892).
DocumentsAsAsked == \A d \in Docs :
  /\ d \notin docLog.stale => doc.node[d] = docLog.want[d]
  /\ Retagging(d) = {} /\ d \notin docLog.torn =>
        doc.edges[d] = [t \in Tags |-> IF t \in docLog.tags[d] THEN 1 ELSE 0]

\* A thread has a comment as long as it is there, and a comment the thread it was
\* written in, unless a deletion decided on comments that were others by the time
\* it was carried out (comments.py:856-891); and who acknowledged a comment stays
\* listed, unless another list was written over it unread (comments.py:798-815).
ThreadsHoldComments ==
  /\ \A t \in Threads \ docLog.crossed :
       /\ doc.thread[t].there => InThread(t) # {}
       /\ \A c \in Comments : docLog.home[c] = t /\ doc.comment[c].there => doc.comment[c].thread = t
  /\ \A c \in Comments \ docLog.lost : doc.comment[c].acks = docLog.acks[c]
=============================================================================
