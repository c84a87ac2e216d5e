-------------------------- MODULE WorkspaceProofs --------------------------
(***************************************************************************)
(* Documents, catalogue, uploads and the operations log for any number of  *)
(* requests in flight, under every fault.  A request works from what it    *)
(* has read, so the invariant says of each handler, by where it stands,    *)
(* what it holds and what it will still do: the edges between a detach and *)
(* an attach are its own (TagKept), a comment it is about to delete is in  *)
(* the thread it read (Numbered), what was put into the store without a    *)
(* record is what it will record or take back (KeptOf), and what a policy  *)
(* covered is queued already or will be by it (Owing).  The operations log *)
(* converges because a row on its way is newer than the row it was made    *)
(* from, and no version is given out twice because what one life of a      *)
(* process has stamped is at or below its guard, wherever the row is now.  *)
(***************************************************************************)
EXTENDS Workspace, FiniteSetTheorems, TLAPS

-----------------------------------------------------------------------------
(* The locals of a handler, by where it stands.                            *)

AskLabels == {"doc.create", "doc.check", "doc.set", "doc.detach", "doc.attach"}
TagLabels == {"doc.create", "doc.detach", "doc.attach"}
CommentLabels == {"comment.save", "ack.save", "comment.thread", "comment.delete"}
ThreadLabels == {"thread.save", "comment.thread", "comment.delete"}
DocLabels == AskLabels \cup CommentLabels \cup ThreadLabels \cup {"thread.create", "tag.save"}

DocNode == [there : BOOLEAN, title : Texts, pinned : Texts]
TagNode == [slug : TagSlugs \cup {None}, about : Texts]
ThreadNode == [there : BOOLEAN, doc : Docs \cup {None}, resolved : Users \cup {None}]
CommentNode == [there : BOOLEAN, thread : 0..MaxThreads, body : Texts, acks : SUBSET Users]

DocLocals(l) ==
  /\ "at" \in DOMAIN l /\ l.at \in DocLabels
  /\ "f" \notin DOMAIN l
  /\ l.at \in AskLabels \cup {"thread.create"} => "d" \in DOMAIN l /\ l.d \in Docs
  /\ l.at \in AskLabels => "ask" \in DOMAIN l /\ l.ask \in Asks
  /\ l.at \in TagLabels => l.ask.f = "tags"
  /\ l.at \in {"doc.check", "doc.set"} => "read" \in DOMAIN l /\ l.read \in DocNode /\ l.read.there
  /\ l.at = "tag.save" => /\ "old" \in DOMAIN l /\ l.old \in TagSlugs
                          /\ "new" \in DOMAIN l /\ l.new \in TagNode /\ l.new.slug \in TagSlugs
  /\ l.at \in ThreadLabels => "t" \in DOMAIN l /\ l.t \in Threads
  /\ l.at = "thread.save" => "by" \in DOMAIN l /\ l.by \in Users \cup {None}
  /\ l.at \in CommentLabels => "c" \in DOMAIN l /\ l.c \in Comments
  /\ l.at = "comment.save" => "v" \in DOMAIN l /\ l.v \in Texts
  /\ l.at = "ack.save" => /\ "u" \in DOMAIN l /\ l.u \in Users
                          /\ "read" \in DOMAIN l /\ l.read \in SUBSET Users
  /\ l.at = "comment.delete" => "seen" \in DOMAIN l /\ l.seen \in SUBSET Comments

NamedLabels == {"named.save"}
WebhookLabels == {"hook.create", "hook.look"}
McpLabels == {"mcp.call"}
TemplateLabels == {"tpl.look", "tpl.create", "tpl.check", "tpl.rename", "tpl.set", "tpl.detach", "tpl.attach"}
PolicyLabels == {"pol.create", "pol.check", "pol.set", "pol.clear", "pol.link", "pol.reload",
                 "pol.requeue", "pol.requeue.was", "pol.delete"}
BlueprintLabels == {"blu.create", "blu.save", "blu.requeue", "blu.delete"}
PlainLabels == NamedLabels \cup WebhookLabels \cup McpLabels \cup {"id.save"}
CatLabels == PlainLabels \cup TemplateLabels \cup PolicyLabels \cup BlueprintLabels

EntryNode == [there : BOOLEAN, slug : TagSlugs \cup {None}, vals : [Fields -> Values],
              links : SUBSET (Types \cup Tags)]

HasEntry == {"hook.create", "hook.look", "id.save", "tpl.look", "tpl.create", "pol.create"}
HasSlug == CatLabels \ {"mcp.call"}
HasPatch == {"named.save", "hook.look", "id.save", "tpl.check", "tpl.rename", "tpl.set", "pol.check", "pol.set",
             "blu.create", "blu.save"}
HasTo == {"named.save", "tpl.check", "tpl.rename", "tpl.set"}
HasEntryRead == (HasPatch \ {"blu.create"}) \cup {"mcp.call"}
HasLinks == {"pol.create", "pol.check", "pol.set", "pol.clear", "pol.link", "blu.create", "blu.save"}

CatLocals(l) ==
  /\ "at" \in DOMAIN l /\ l.at \in CatLabels
  /\ "f" \notin DOMAIN l
  /\ l.at \in HasSlug => "slug" \in DOMAIN l /\ l.slug \in TagSlugs
  /\ l.at \in HasEntry \cup {"mcp.call"} => "e" \in DOMAIN l /\ l.e \in Entries
  /\ l.at \in HasPatch => "ask" \in DOMAIN l /\ l.ask \in Changes(Fields)
  /\ l.at \in HasEntryRead => "read" \in DOMAIN l /\ l.read \in EntryNode /\ l.read.there
                              /\ l.read.slug \in TagSlugs
  /\ l.at \in HasTo => "to" \in DOMAIN l /\ l.to \in TagSlugs
  /\ l.at \in {"tpl.check", "tpl.rename", "tpl.set"} => "given" \in DOMAIN l /\ l.given \in BOOLEAN
  /\ l.at \in TemplateLabels => "tags" \in DOMAIN l /\ l.tags \in SUBSET TagSlugs
  /\ l.at \in HasLinks => "links" \in DOMAIN l /\ l.links \in SUBSET Types
  /\ l.at \in PolicyLabels => "seen" \in DOMAIN l /\ "was" \in DOMAIN l
  /\ l.at \in PolicyLabels \ {"pol.delete", "pol.requeue.was"} => "fresh" \in DOMAIN l /\ l.fresh \in BOOLEAN

UpLabels == {"up.file", "up.thumbnail", "up.save", "up.delete", "up.drop", "up.drop.thumbnail"}
UpRecord == [keys : SUBSET Objects, has : BOOLEAN]

UpLocals(l) ==
  /\ "at" \in DOMAIN l /\ l.at \in UpLabels
  /\ "f" \in DOMAIN l /\ l.f \in Files
  /\ "new" \in DOMAIN l /\ l.new \in UpRecord
  /\ l.at = "up.file" => "image" \in DOMAIN l /\ l.image \in BOOLEAN

Locals(l) == l = Idle \/ DocLocals(l) \/ CatLocals(l) \/ UpLocals(l)

PoolInv == PoolTypeOK /\ \A q \in Slots : Locals(req[q])

-----------------------------------------------------------------------------
(* Documents.                                                              *)

DocRecord == [node : [Docs -> DocNode], edges : [Docs -> [Tags -> Nat]], anchored : BOOLEAN,
              tag : [Tags -> TagNode], thread : [Threads -> ThreadNode],
              comment : [Comments -> CommentNode]]
DocLogRecord == [born : SUBSET Docs, want : [Docs -> DocNode], stale : SUBSET Docs,
                 tags : [Docs -> SUBSET Tags], torn : SUBSET Docs,
                 threads : Threads, comments : Comments, home : [Comments -> 0..MaxThreads],
                 acks : [Comments -> SUBSET Users], lost : SUBSET Comments, crossed : SUBSET Threads]

\* Edges and threads hang on what is there, and a slug names one tag.
Attached ==
  /\ \A d \in Docs, t \in Tags : doc.edges[d][t] > 0 => doc.node[d].there /\ doc.tag[t].slug # None
  /\ \A s, t \in Tags : doc.tag[s].slug = doc.tag[t].slug => s = t \/ doc.tag[s].slug = None
  /\ \A t \in Threads : doc.thread[t].doc # None => doc.node[doc.thread[t].doc].there
  /\ \A c \in Comments : doc.comment[c].thread # 0 => doc.thread[doc.comment[c].thread].there

\* The requests that are about to create a document, and those that have taken
\* over its tags: they have set what is asked for and not yet written the edges.
Creating(d) == {q \in Slots : At(q, "doc.create") /\ req[q].d = d}
Detaching(d) == {q \in Slots : At(q, "doc.detach") /\ req[q].d = d}
Attaching(d) == {q \in Slots : At(q, "doc.attach") /\ req[q].d = d}
Tagging(d) == Detaching(d) \cup Attaching(d)

\* A document is created once; there is nothing of it before.
Births ==
  /\ \A d \in Docs \ docLog.born :
       /\ doc.node[d] = NoDoc /\ docLog.want[d] = NoDoc
       /\ doc.edges[d] = NoEdges /\ docLog.tags[d] = {}
       /\ Tagging(d) = {}
  /\ \A d \in Docs, q, r \in Slots : q \in Creating(d) =>
       d \notin docLog.born /\ (r \in Creating(d) => r = q)

\* Every edge beyond the first is of a request that had deleted the edges and
\* not yet written its own.
FewEdgesOf(d) == \A t \in Tags : doc.edges[d][t] + Cardinality(Attaching(d)) <= Cardinality(Slots)
FewEdges == \A d \in Docs : FewEdgesOf(d)

\* Title and pin.
TitlesKept == \A d \in Docs \ docLog.stale : doc.node[d] = docLog.want[d]

\* The edges are the tags asked for once nobody is at work on them.
EdgesOf(S) == [t \in Tags |-> IF t \in S THEN 1 ELSE 0]
TagKept(d) ==
  /\ ~doc.node[d].there => docLog.tags[d] = {}
  /\ d \notin docLog.torn =>
       /\ Tagging(d) = {} => doc.edges[d] = EdgesOf(docLog.tags[d])
       /\ \A q \in Slots : Tagging(d) = {q} /\ doc.node[d].there =>
            docLog.tags[d] = Tagged(req[q].ask.tags)
       /\ \A q \in Slots : Tagging(d) = {q} /\ q \in Attaching(d) => doc.edges[d] = NoEdges
TagsKept == \A d \in Docs : TagKept(d)

\* Nothing is where no comment or thread has been written yet, and a comment is
\* in the thread it was written in or in none.
Numbered ==
  /\ \A t \in Threads : docLog.threads < t => doc.thread[t] = NoThread
  /\ \A c \in Comments : docLog.comments < c =>
       doc.comment[c] = NoComment /\ docLog.home[c] = 0 /\ docLog.acks[c] = {}
  /\ \A c \in Comments : /\ docLog.home[c] <= docLog.threads
                         /\ doc.comment[c].thread \in {0, docLog.home[c]}
  /\ \A q \in Slots : req[q].at \in {"comment.thread", "comment.delete"} =>
       docLog.home[req[q].c] = req[q].t

DocTypes == doc \in DocRecord /\ docLog \in DocLogRecord

DocInv == /\ DocTypes /\ Attached /\ Births /\ FewEdges
          /\ TitlesKept /\ TagsKept /\ Numbered /\ ThreadsHoldComments

-----------------------------------------------------------------------------
(* The catalogue.                                                          *)

CatRecord == [node : [Entries -> EntryNode], type : SUBSET Types]
CatLogRecord == [want : [Entries -> EntryNode], stale : SUBSET Entries,
                 kept : SUBSET (Entries \X TagSlugs), doubled : BOOLEAN, met : BOOLEAN, owed : SUBSET Types]

\* Handlers of one kind are called.
OneKind == \A q \in Slots :
  /\ req[q].at \in PlainLabels => mix \cap {"named", "webhooks", "mcp"} # {}
  /\ req[q].at \in TemplateLabels => "templates" \in mix
  /\ req[q].at \in PolicyLabels => "policies" \in mix
  /\ req[q].at \in BlueprintLabels => "blueprints" \in mix

\* An entry has the slug it was made with, or none; its links are live.
Linked ==
  /\ \A e \in Entries : Here(e) <=> cat.node[e].slug # None
  /\ \A e \in Entries : cat.node[e].links \subseteq
       cat.type \cup {t \in Tags : doc.tag[t].slug # None}
  /\ "blueprints" \in mix => cat.type = Types

Unique == ~catLog.doubled =>
  /\ \A e, o \in Entries : Here(e) /\ Here(o) /\ cat.node[e].slug = cat.node[o].slug => e = o
  /\ \A q \in Slots : At(q, "tpl.create") => Named(req[q].slug) = {}

\* What a request will queue before it ends, unless it is met.
Will(l) ==
  CASE l.at = "pol.link" -> Covers(l.links) \cup (IF l.fresh THEN {} ELSE Covers(l.was))
    [] l.at = "pol.clear" -> Covers(l.was)
    [] l.at \in {"pol.reload", "pol.requeue"} -> Covers(l.seen) \cup (IF l.fresh THEN {} ELSE Covers(l.was))
    [] l.at = "pol.requeue.was" -> Covers(l.was)
    [] l.at = "blu.requeue" -> Covers(l.links)
    [] OTHER -> {}

Owing ==
  /\ catLog.owed \subseteq cat.type
  /\ catLog.doubled => "templates" \in mix
  /\ \A q \in Slots : /\ req[q].at \in {"pol.check", "pol.set", "pol.clear"} => ~req[q].fresh
                      /\ req[q].at = "pol.create" => req[q].seen = {}
  /\ faults = 0 /\ ~catLog.met => catLog.owed \subseteq UNION {Will(req[q]) : q \in Slots}

CatTypes == cat \in CatRecord /\ catLog \in CatLogRecord

CatInv == CatTypes /\ OneKind /\ Linked /\ Unique /\ EntriesAsAsked /\ Owing

-----------------------------------------------------------------------------
(* Uploads.                                                                *)

Making == {"up.file", "up.thumbnail", "up.save"}
Dropping == {"up.drop", "up.drop.thumbnail"}
On(q, f) == req[q].at \in UpLabels /\ req[q].f = f

UpTypes == up \in [known : SUBSET Files, record : [Files -> UpRecord], stored : [Files -> SUBSET Objects]]

\* An upload is made by one request, which is alone with it until there is a
\* record, and the store holds what this request has put there.
Made1(q) == LET l == req[q] IN
  /\ up.record[l.f] = NoRecord
  /\ \A r \in Slots : On(r, l.f) => r = q
  /\ "file" \in l.new.keys
  /\ l.at = "up.file" => up.stored[l.f] = {} /\ l.new = [keys |-> {"file"}, has |-> FALSE]
  /\ l.at = "up.thumbnail" => up.stored[l.f] = {"file"} /\ l.new = [keys |-> {"file"}, has |-> FALSE]
  /\ l.at = "up.save" => /\ "file" \in up.stored[l.f] /\ up.stored[l.f] \subseteq l.new.keys
                         /\ l.new.has => "thumbnail" \in up.stored[l.f]

\* What a request on an upload knows of it.
WorkingOf(q) == req[q].at \in UpLabels =>
  /\ req[q].f \in up.known
  /\ req[q].at \in Making => Made1(q)
  /\ req[q].at = "up.delete" => up.record[req[q].f] \in {req[q].new, NoRecord}
  /\ req[q].at \in Dropping => up.record[req[q].f] = NoRecord
Working == \A q \in Slots : WorkingOf(q)

\* What a request will put into a record or take back.
Pending(l) == CASE l.at = "up.drop.thumbnail" -> {"thumbnail"}
                [] l.at = "up.delete" -> {}
                [] OTHER -> l.new.keys

KeptOf(f) ==
  /\ f \notin up.known => up.record[f] = NoRecord /\ up.stored[f] = {}
  /\ Served(f) \subseteq up.stored[f]
  /\ f \notin upLost => \A o \in up.stored[f] :
       o \in up.record[f].keys \/ \E q \in Slots : On(q, f) /\ o \in Pending(req[q])
Kept == \A f \in Files : KeptOf(f)

UpInv == UpTypes /\ Working /\ Kept

WorkInv == PoolInv /\ DocInv /\ CatInv /\ UpInv

-----------------------------------------------------------------------------
(* How a handler moves.                                                    *)

\* The handler q goes on with `next`; the others hold what they held.
Moves(q, next) ==
  /\ req'[q] = next
  /\ \A r \in Slots : r # q => req'[r] = req[r]
  /\ PoolTypeOK' /\ mix' = mix
  /\ faults' = faults \/ faults' = faults + 1

LEMMA BeginMoves ==
    ASSUME PoolInv, NEW q \in Slots, NEW next, Begin(q, next)
    PROVE  Moves(q, next) /\ req[q] = Idle /\ req[q].at = "idle"
<1>1. req' = [req EXCEPT ![q] = next] /\ DOMAIN req = Slots
  BY DEF Begin, PoolInv, PoolTypeOK
<1>2. req'[q] = next /\ DOMAIN req' = Slots
  BY <1>1
<1>3. \A r \in Slots : r # q => req'[r] = req[r]
  BY <1>1
<1>4. PoolTypeOK'
  BY <1>2, RequestAssumption DEF Begin, PoolInv, PoolTypeOK
<1> QED BY <1>2, <1>3, <1>4 DEF Begin, Moves, Idle

LEMMA StepMoves ==
    ASSUME PoolInv, NEW q \in Slots, NEW next, NEW label, Step(q, label, next)
    PROVE  Moves(q, next) /\ req[q].at = label
<1>1. req' = [req EXCEPT ![q] = next] /\ DOMAIN req = Slots
  BY DEF Step, PoolInv, PoolTypeOK
<1>2. req'[q] = next /\ DOMAIN req' = Slots
  BY <1>1
<1>3. \A r \in Slots : r # q => req'[r] = req[r]
  BY <1>1
<1>4. PoolTypeOK'
  BY <1>2 DEF Step, PoolInv, PoolTypeOK
<1> QED BY <1>2, <1>3, <1>4 DEF Step, At, Moves

LEMMA RaisesMoves ==
    ASSUME PoolInv, NEW q \in Slots, NEW next, NEW label, Raises(q, label, next)
    PROVE  Moves(q, next) /\ req[q].at = label
<1>1. req' = [req EXCEPT ![q] = next] /\ DOMAIN req = Slots
  BY DEF Raises, PoolInv, PoolTypeOK
<1>2. req'[q] = next /\ DOMAIN req' = Slots
  BY <1>1
<1>3. \A r \in Slots : r # q => req'[r] = req[r]
  BY <1>1
<1>4. PoolTypeOK'
  BY <1>2, RequestAssumption DEF Raises, PoolInv, PoolTypeOK
<1> QED BY <1>2, <1>3, <1>4 DEF Raises, At, Moves

LEMMA DieMoves ==
    ASSUME PoolInv, NEW q \in Slots, Die(q)
    PROVE  Moves(q, Idle) /\ faults' = faults + 1
<1>1. req' = [req EXCEPT ![q] = Idle] /\ DOMAIN req = Slots
  BY DEF Die, PoolInv, PoolTypeOK
<1>2. req'[q] = Idle /\ DOMAIN req' = Slots
  BY <1>1
<1>3. \A r \in Slots : r # q => req'[r] = req[r]
  BY <1>1
<1>4. PoolTypeOK'
  BY <1>2, RequestAssumption DEF Die, PoolInv, PoolTypeOK
<1> QED BY <1>2, <1>3, <1>4 DEF Die, Moves

LEMMA PoolKept ==
    ASSUME PoolInv, NEW q \in Slots, NEW next, Moves(q, next), Locals(next)
    PROVE  PoolInv'
BY DEF PoolInv, Moves

\* Where a handler stands says what it holds.
LEMMA WhereItStands ==
    ASSUME NEW l, Locals(l)
    PROVE  /\ l.at \in DocLabels => DocLocals(l)
           /\ l.at \in CatLabels => CatLocals(l)
           /\ l.at \in UpLabels => UpLocals(l)
           /\ l.at \in DocLabels \cup CatLabels \cup UpLabels \cup {"idle"}
<1> USE DEF DocLabels, CatLabels, PlainLabels, UpLabels, AskLabels, CommentLabels, ThreadLabels, NamedLabels,
            WebhookLabels, McpLabels, TemplateLabels, PolicyLabels, BlueprintLabels
<1>1. CASE l = Idle
  BY <1>1 DEF Idle
<1>2. CASE DocLocals(l)
  BY <1>2 DEF DocLocals
<1>3. CASE CatLocals(l)
  BY <1>3 DEF CatLocals
<1>4. CASE UpLocals(l)
  BY <1>4 DEF UpLocals
<1> QED BY <1>1, <1>2, <1>3, <1>4 DEF Locals

LEMMA IdleOK == Locals(Idle) /\ Idle.at = "idle" /\ "idle" \notin DocLabels \cup CatLabels \cup UpLabels
BY DEF Idle, Locals, DocLabels, CatLabels, PlainLabels, UpLabels, AskLabels, CommentLabels, ThreadLabels, NamedLabels,
       WebhookLabels, McpLabels, TemplateLabels, PolicyLabels, BlueprintLabels

LEMMA GroupsApart ==
    /\ DocLabels \cap CatLabels = {} /\ DocLabels \cap UpLabels = {} /\ CatLabels \cap UpLabels = {}
BY DEF DocLabels, CatLabels, PlainLabels, UpLabels, AskLabels, CommentLabels, ThreadLabels, NamedLabels,
       WebhookLabels, McpLabels, TemplateLabels, PolicyLabels, BlueprintLabels

-----------------------------------------------------------------------------
(* What is said of documents, when a step moves a request.                  *)

\* Where a request is at work on the tags of a document.
AtTags(l) == l.at \in {"doc.detach", "doc.attach"}

LEMMA TaggingStays ==
    ASSUME NEW q \in Slots, NEW next, Moves(q, next), ~AtTags(req[q]), ~AtTags(next)
    PROVE  \A d \in Docs : Tagging(d)' = Tagging(d) /\ Attaching(d)' = Attaching(d)
BY DEF Moves, AtTags, Tagging, Attaching, Detaching, At

LEMMA TaggedStays ==
    ASSUME NEW S, UNCHANGED doc
    PROVE  Tagged(S)' = Tagged(S)
BY DEF Tagged

\* A request leaves the tags, and what is known of documents and their tags.
LEMMA TagPartsStay ==
    ASSUME DocInv, NEW q \in Slots, NEW next, Moves(q, next), ~AtTags(req[q]), ~AtTags(next),
           doc'.node = doc.node, doc'.edges = doc.edges, doc'.tag = doc.tag,
           docLog'.born = docLog.born, docLog'.want = docLog.want, docLog'.stale = docLog.stale,
           docLog'.tags = docLog.tags, docLog'.torn = docLog.torn,
           next.at = "doc.create" => /\ next.d \notin docLog.born
                                     /\ \A r \in Slots : r # q => r \notin Creating(next.d)
    PROVE  Births' /\ FewEdges' /\ TitlesKept' /\ TagsKept'
<1> USE DEF DocInv
<1>1. \A d \in Docs : Tagging(d)' = Tagging(d) /\ Attaching(d)' = Attaching(d)
  BY TaggingStays
<1>2. \A r \in Slots : r # q => req'[r] = req[r]
  BY DEF Moves
<1>3. Births'
  <2>1. ASSUME NEW d \in Docs, NEW r \in Slots, r \in Creating(d)'
        PROVE  d \notin docLog.born /\ \A s \in Slots : s \in Creating(d)' => s = r
    BY <1>2, <2>1 DEF Births, Creating, At, Moves
  <2>2. ASSUME NEW d \in Docs, NEW r \in Slots, NEW s \in Slots, r \in Creating(d)'
        PROVE  d \notin docLog'.born /\ (s \in Creating(d)' => s = r)
    BY <2>1, <2>2
  <2>3. ASSUME NEW d \in Docs \ docLog'.born
        PROVE  /\ doc'.node[d] = NoDoc /\ docLog'.want[d] = NoDoc
               /\ doc'.edges[d] = NoEdges /\ docLog'.tags[d] = {}
               /\ Tagging(d)' = {}
    BY <1>1 DEF Births
  <2> QED BY <2>2, <2>3 DEF Births
<1>4. FewEdges'
  BY <1>1 DEF FewEdges, FewEdgesOf
<1>5. TitlesKept'
  BY DEF TitlesKept
<1>6. TagsKept'
  <2>1. ASSUME NEW r \in Slots, NEW d \in Docs, r \in Tagging(d) PROVE req'[r] = req[r]
    BY <1>2, <2>1 DEF Tagging, Attaching, Detaching, At, AtTags
  <2>2. \A S : Tagged(S)' = Tagged(S)
    BY DEF Tagged
  <2> QED BY <1>1, <2>1, <2>2 DEF TagsKept, TagKept
<1> QED BY <1>3, <1>4, <1>5, <1>6

\* The same of comments.
LEMMA CommentPartsStay ==
    ASSUME DocInv, NEW q \in Slots, NEW next, Moves(q, next),
           doc'.comment = doc.comment,
           \A t \in Threads : /\ doc'.thread[t].there = doc.thread[t].there
                              /\ doc.thread[t] = NoThread => doc'.thread[t] = NoThread,
           docLog'.threads = docLog.threads, docLog'.comments = docLog.comments,
           docLog'.home = docLog.home, docLog'.acks = docLog.acks,
           docLog'.lost = docLog.lost, docLog'.crossed = docLog.crossed,
           next.at \in {"comment.thread", "comment.delete"} => docLog.home[next.c] = next.t
    PROVE  Numbered' /\ ThreadsHoldComments'
<1> USE DEF DocInv
<1>1. Numbered'
  <2>1. \A r \in Slots : req'[r].at \in {"comment.thread", "comment.delete"} =>
           docLog'.home[req'[r].c] = req'[r].t
    BY DEF Numbered, Moves
  <2>2. \A t \in Threads : docLog'.threads < t => doc'.thread[t] = NoThread
    BY DEF Numbered
  <2> QED BY <2>1, <2>2 DEF Numbered
<1>2. ThreadsHoldComments'
  BY DEF ThreadsHoldComments, InThread
<1> QED BY <1>1, <1>2

\* A step that writes nothing of a document.
LEMMA DocFrame ==
    ASSUME DocInv, NEW q \in Slots, NEW next, Moves(q, next), UNCHANGED <<doc, docLog>>,
           ~AtTags(req[q]), ~AtTags(next),
           next.at = "doc.create" => /\ next.d \notin docLog.born
                                     /\ \A r \in Slots : r # q => r \notin Creating(next.d),
           next.at \in {"comment.thread", "comment.delete"} => docLog.home[next.c] = next.t
    PROVE  DocInv'
<1>1. Births' /\ FewEdges' /\ TitlesKept' /\ TagsKept'
  BY TagPartsStay
<1>2. Numbered' /\ ThreadsHoldComments'
  BY CommentPartsStay
<1>3. DocTypes' /\ Attached'
  BY DEF DocInv, DocTypes, Attached
<1> QED BY <1>1, <1>2, <1>3 DEF DocInv

-----------------------------------------------------------------------------
(* Documents: the handlers that write nothing yet.                          *)

\* A handler of Documents moves.
DocGoes(q) == \E next :
  /\ Moves(q, next)
  /\ next = Idle \/ DocLocals(next)
  /\ req[q].at \in DocLabels \cup {"idle"}

DocsInv == PoolInv /\ DocInv

LEMMA LookDKeeps ==
    ASSUME DocsInv, NEW q \in Slots, NEW next, LookD(q, next), DocLocals(next), ~AtTags(next),
           next.at = "doc.create" => /\ next.d \notin docLog.born
                                     /\ \A r \in Slots : r # q => r \notin Creating(next.d),
           next.at \in {"comment.thread", "comment.delete"} => docLog.home[next.c] = next.t
    PROVE  DocGoes(q) /\ DocInv'
<1>1. Begin(q, next) /\ UNCHANGED <<doc, docLog>>
  BY DEF LookD
<1>2. Moves(q, next) /\ req[q].at = "idle"
  BY <1>1, BeginMoves DEF DocsInv
<1>3. DocInv'
  BY <1>1, <1>2, DocFrame DEF DocsInv, AtTags
<1> QED BY <1>2, <1>3 DEF DocGoes

LEMMA WaitDKeeps ==
    ASSUME DocsInv, NEW q \in Slots, NEW next, NEW label, WaitD(q, label, next),
           label \in DocLabels \ {"doc.detach", "doc.attach"}, next = Idle \/ DocLocals(next), ~AtTags(next),
           next.at # "doc.create",
           next.at \in {"comment.thread", "comment.delete"} => docLog.home[next.c] = next.t
    PROVE  DocGoes(q) /\ DocInv'
<1>1. Step(q, label, next) /\ UNCHANGED <<doc, docLog>>
  BY DEF WaitD
<1>2. Moves(q, next) /\ req[q].at = label
  BY <1>1, StepMoves DEF DocsInv
<1>3. DocInv'
  BY <1>1, <1>2, DocFrame DEF DocsInv, AtTags
<1> QED BY <1>2, <1>3 DEF DocGoes

\* It gives up.
LEMMA WaitDEnds ==
    ASSUME DocsInv, NEW q \in Slots, NEW label, WaitD(q, label, Idle),
           label \in DocLabels \ {"doc.detach", "doc.attach"}
    PROVE  DocGoes(q) /\ DocInv'
BY WaitDKeeps DEF Idle, AtTags

LEMMA LooksKeep ==
    ASSUME DocsInv, NEW q \in Slots,
           \/ CreateDocument(q) \/ PatchDocument(q) \/ PatchTag(q) \/ CreateCommentThread(q)
           \/ PatchCommentThread(q) \/ PatchComment(q) \/ AcknowledgeComment(q) \/ DeleteComment(q)
    PROVE  DocGoes(q) /\ DocInv'
<1> USE DEF AskLabels, TagLabels, CommentLabels, ThreadLabels, DocLabels, AtTags
<1>1. CASE CreateDocument(q)
  <2>1. PICK d \in Docs \ docLog.born, slugs \in SUBSET SlugsInUse :
          /\ \A o \in Slots : At(o, "doc.create") => req[o].d # d
          /\ LookD(q, [at |-> "doc.create", d |-> d, ask |-> [f |-> "tags", v |-> 1, tags |-> slugs]])
    BY <1>1 DEF CreateDocument
  <2> DEFINE next == [at |-> "doc.create", d |-> d, ask |-> [f |-> "tags", v |-> 1, tags |-> slugs]]
  <2>2. slugs \in SUBSET TagSlugs
    BY DEF SlugsInUse, DocsInv, DocInv, DocTypes, DocRecord, TagNode
  <2>3. [f |-> "tags", v |-> 1, tags |-> slugs] \in Asks
    BY <2>2 DEF Asks
  <2>4. DocLocals(next)
    BY <2>3 DEF DocLocals
  <2>5. \A r \in Slots : r # q => r \notin Creating(d)
    BY <2>1 DEF Creating
  <2> QED BY <2>1, <2>4, <2>5, LookDKeeps
<1>2. CASE PatchDocument(q)
  <2>1. PICK d \in Docs, ask \in Asks :
          /\ Readable(d)
          /\ LookD(q, [at |-> IF ask.tags = {} THEN "doc.set" ELSE "doc.check",
                       d |-> d, ask |-> ask, read |-> doc.node[d]])
    BY <1>2 DEF PatchDocument
  <2> DEFINE next == [at |-> IF ask.tags = {} THEN "doc.set" ELSE "doc.check",
                      d |-> d, ask |-> ask, read |-> doc.node[d]]
  <2>2. doc.node[d] \in DocNode /\ doc.node[d].there
    BY <2>1 DEF Readable, DocsInv, DocInv, DocTypes, DocRecord
  <2>3. DocLocals(next) /\ next.at \in {"doc.set", "doc.check"}
    BY <2>2 DEF DocLocals
  <2> QED BY <2>1, <2>3, LookDKeeps
<1>3. CASE PatchTag(q)
  <2>1. PICK t \in Tags, s \in TagSlugs, v \in Texts :
          /\ doc.tag[t].slug # None
          /\ LookD(q, [at |-> "tag.save", old |-> doc.tag[t].slug, new |-> [slug |-> s, about |-> v]])
    BY <1>3 DEF PatchTag
  <2> DEFINE next == [at |-> "tag.save", old |-> doc.tag[t].slug, new |-> [slug |-> s, about |-> v]]
  <2>2. doc.tag[t].slug \in TagSlugs
    BY <2>1 DEF DocsInv, DocInv, DocTypes, DocRecord, TagNode
  <2>3. DocLocals(next)
    BY <2>2 DEF DocLocals, TagNode
  <2> QED BY <2>1, <2>3, LookDKeeps
<1>4. CASE CreateCommentThread(q)
  <2>1. PICK d \in Docs : LookD(q, [at |-> "thread.create", d |-> d])
    BY <1>4 DEF CreateCommentThread
  <2>2. DocLocals([at |-> "thread.create", d |-> d])
    BY DEF DocLocals
  <2> QED BY <2>1, <2>2, LookDKeeps
<1>5. CASE PatchCommentThread(q)
  <2>1. PICK t \in Threads, by \in Users \cup {None} : LookD(q, [at |-> "thread.save", t |-> t, by |-> by])
    BY <1>5 DEF PatchCommentThread
  <2>2. DocLocals([at |-> "thread.save", t |-> t, by |-> by])
    BY DEF DocLocals
  <2> QED BY <2>1, <2>2, LookDKeeps
<1>6. CASE PatchComment(q)
  <2>1. PICK c \in Comments, v \in Texts : LookD(q, [at |-> "comment.save", c |-> c, v |-> v])
    BY <1>6 DEF PatchComment
  <2>2. DocLocals([at |-> "comment.save", c |-> c, v |-> v])
    BY DEF DocLocals
  <2> QED BY <2>1, <2>2, LookDKeeps
<1>7. CASE AcknowledgeComment(q)
  <2>1. PICK c \in Comments, u \in Users :
          LookD(q, [at |-> "ack.save", c |-> c, u |-> u, read |-> doc.comment[c].acks])
    BY <1>7 DEF AcknowledgeComment
  <2>2. doc.comment[c].acks \in SUBSET Users
    BY DEF DocsInv, DocInv, DocTypes, DocRecord, CommentNode
  <2>3. DocLocals([at |-> "ack.save", c |-> c, u |-> u, read |-> doc.comment[c].acks])
    BY <2>2 DEF DocLocals
  <2> QED BY <2>1, <2>3, LookDKeeps
<1>8. CASE DeleteComment(q)
  <2>1. PICK c \in Comments : /\ CommentRead(c)
          /\ LookD(q, [at |-> "comment.thread", c |-> c, t |-> doc.comment[c].thread])
    BY <1>8 DEF DeleteComment
  <2>2. doc.comment[c].thread \in Threads /\ docLog.home[c] = doc.comment[c].thread
    <3>1. doc.comment[c].thread \in 0..MaxThreads /\ doc.comment[c].thread # 0
      BY <2>1 DEF CommentRead, DocsInv, DocInv, DocTypes, DocRecord, CommentNode
    <3>2. doc.comment[c].thread \in {0, docLog.home[c]}
      BY DEF DocsInv, DocInv, Numbered
    <3> QED BY <3>1, <3>2, DocumentsAssumption DEF Threads
  <2>3. DocLocals([at |-> "comment.thread", c |-> c, t |-> doc.comment[c].thread])
    BY <2>2 DEF DocLocals
  <2> QED BY <2>1, <2>2, <2>3, LookDKeeps
<1> QED BY <1>1, <1>2, <1>3, <1>4, <1>5, <1>6, <1>7, <1>8

\* What a handler of Documents holds, where it stands.
LEMMA DocStands ==
    ASSUME DocsInv, NEW q \in Slots, req[q].at \in DocLabels
    PROVE  DocLocals(req[q])
BY WhereItStands DEF DocsInv, PoolInv

LEMMA ReadsKeep ==
    ASSUME DocsInv, NEW q \in Slots, ValidateTagSlugs(q) \/ ReadThread(q)
    PROVE  DocGoes(q) /\ DocInv'
<1> USE DEF AskLabels, TagLabels, CommentLabels, ThreadLabels, DocLabels, AtTags
<1>1. CASE ValidateTagSlugs(q)
  <2>1. req[q].at = "doc.check"
    BY <1>1 DEF ValidateTagSlugs, WaitD, Step, At
  <2>2. DocLocals(req[q])
    BY <2>1, DocStands
  <2>3. DocLocals(To(q, "doc.set")) /\ To(q, "doc.set").at = "doc.set"
    BY <2>1, <2>2 DEF DocLocals, To
  <2>4. WaitD(q, "doc.check", Idle) \/ WaitD(q, "doc.check", To(q, "doc.set"))
    BY <1>1 DEF ValidateTagSlugs
  <2> QED BY <2>3, <2>4, WaitDEnds, WaitDKeeps
<1>2. CASE ReadThread(q)
  <2>1. req[q].at = "comment.thread"
    BY <1>2 DEF ReadThread, At
  <2>2. DocLocals(req[q])
    BY <2>1, DocStands
  <2> DEFINE next == With(To(q, "comment.delete"), [seen |-> InThread(req[q].t)])
  <2>3. InThread(req[q].t) \in SUBSET Comments
    BY DEF InThread
  <2>4. /\ DOMAIN next = DOMAIN req[q] \cup {"seen"}
        /\ next.at = "comment.delete" /\ next.c = req[q].c /\ next.t = req[q].t
        /\ next.seen = InThread(req[q].t)
    BY <2>1, <2>2 DEF DocLocals, To, With
  <2>5. DocLocals(next)
    BY <2>1, <2>2, <2>3, <2>4 DEF DocLocals
  <2>6. docLog.home[next.c] = next.t
    BY <2>1, <2>4 DEF DocsInv, DocInv, Numbered
  <2>7. WaitD(q, "comment.thread", Idle) \/ WaitD(q, "comment.thread", next)
    BY <1>2 DEF ReadThread
  <2> QED BY <2>4, <2>5, <2>6, <2>7, WaitDEnds, WaitDKeeps
<1> QED BY <1>1, <1>2

-----------------------------------------------------------------------------
(* Documents: the handlers of comments.                                     *)

\* What a step on comments leaves alone.
LEMMA CommentStep ==
    ASSUME DocsInv, NEW q \in Slots, NEW next, Moves(q, next),
           ~AtTags(req[q]), ~AtTags(next), next.at # "doc.create",
           doc'.node = doc.node, doc'.edges = doc.edges, doc'.tag = doc.tag,
           docLog'.born = docLog.born, docLog'.want = docLog.want, docLog'.stale = docLog.stale,
           docLog'.tags = docLog.tags, docLog'.torn = docLog.torn,
           DocTypes', Attached', Numbered', ThreadsHoldComments'
    PROVE  DocInv'
BY TagPartsStay DEF DocsInv, DocInv

\* The numbering goes on when a handler moves to where it knows no thread.
LEMMA KnownThreads ==
    ASSUME DocsInv, NEW q \in Slots, NEW next, Moves(q, next),
           next.at \notin {"comment.thread", "comment.delete"},
           \A r \in Slots : r # q /\ req[r].at \in {"comment.thread", "comment.delete"} =>
             docLog'.home[req[r].c] = docLog.home[req[r].c]
    PROVE  \A r \in Slots : req'[r].at \in {"comment.thread", "comment.delete"} =>
             docLog'.home[req'[r].c] = req'[r].t
BY DEF DocsInv, DocInv, Numbered, Moves

LEMMA SavesKeep ==
    ASSUME DocsInv, NEW q \in Slots, PatchThreadSave(q) \/ PatchCommentSave(q) \/ AcknowledgeSave(q)
    PROVE  DocGoes(q) /\ DocInv'
<1> USE DEF AskLabels, TagLabels, CommentLabels, ThreadLabels, DocLabels, AtTags
<1>0. Idle.at = "idle"
  BY IdleOK
<1>1. CASE PatchThreadSave(q)
  <2>1. req[q].at = "thread.save"
    BY <1>1 DEF PatchThreadSave, At
  <2>2. DocLocals(req[q])
    BY <2>1, DocStands
  <2>3. CASE WaitD(q, "thread.save", Idle)
    BY <2>3, WaitDEnds
  <2>4. CASE /\ Step(q, "thread.save", Idle) /\ ThreadRead(req[q].t)
             /\ doc' = [doc EXCEPT !.thread[req[q].t].resolved = req[q].by]
             /\ UNCHANGED docLog
    <3>1. Moves(q, Idle)
      BY <2>4, StepMoves DEF DocsInv
    <3>2. PICK t \in Threads, by \in Users \cup {None} :
            t = req[q].t /\ by = req[q].by
      BY <2>1, <2>2 DEF DocLocals
    <3>3. /\ doc' = [doc EXCEPT !.thread[t].resolved = by]
          /\ doc \in DocRecord
      BY <2>4, <3>2 DEF DocsInv, DocInv, DocTypes
    <3>4. doc'.thread = [doc.thread EXCEPT ![t].resolved = by]
          /\ doc'.node = doc.node /\ doc'.edges = doc.edges /\ doc'.tag = doc.tag
          /\ doc'.comment = doc.comment
      BY <3>3 DEF DocRecord
    <3>5. DocTypes'
      <4>1. doc' \in DocRecord
        BY ZenonT(30), <3>3 DEF DocRecord, ThreadNode
      <4> QED BY <2>4, <4>1 DEF DocsInv, DocInv, DocTypes
    <3>6. /\ \A u \in Threads : /\ doc'.thread[u].there = doc.thread[u].there
                                /\ doc'.thread[u].doc = doc.thread[u].doc
          /\ doc.thread[t].there
          /\ \A u \in Threads : u # t => doc'.thread[u] = doc.thread[u]
      BY <2>4, <3>2, <3>4 DEF DocsInv, DocInv, DocTypes, DocRecord, ThreadNode, ThreadRead
    <3>7. Attached'
      <4>1. \A c \in Comments : doc.comment[c].thread # 0 => doc.comment[c].thread \in Threads
        BY DocumentsAssumption DEF DocsInv, DocInv, DocTypes, DocRecord, CommentNode, Threads
      <4> QED BY <3>4, <3>6, <4>1 DEF DocsInv, DocInv, Attached
    <3>8. \A u \in Threads : doc.thread[u] = NoThread => doc'.thread[u] = NoThread
      BY <3>6 DEF NoThread
    <3>9. Numbered' /\ ThreadsHoldComments'
      BY <1>0, <2>4, <3>1, <3>4, <3>6, <3>8, CommentPartsStay DEF DocsInv
    <3>10. DocInv'
      BY <1>0, <2>1, <2>4, <3>1, <3>4, <3>5, <3>7, <3>9, CommentStep
    <3> QED BY <2>1, <3>1, <3>10 DEF DocGoes
  <2> QED BY <1>1, <2>3, <2>4 DEF PatchThreadSave
<1>2. CASE PatchCommentSave(q)
  <2>1. req[q].at = "comment.save"
    BY <1>2 DEF PatchCommentSave, At
  <2>2. DocLocals(req[q])
    BY <2>1, DocStands
  <2>3. CASE WaitD(q, "comment.save", Idle)
    BY <2>3, WaitDEnds
  <2>4. CASE /\ Step(q, "comment.save", Idle) /\ CommentRead(req[q].c)
             /\ doc' = [doc EXCEPT !.comment[req[q].c].body = req[q].v]
             /\ UNCHANGED docLog
    <3>1. Moves(q, Idle)
      BY <2>4, StepMoves DEF DocsInv
    <3>2. PICK c \in Comments, v \in Texts :
            c = req[q].c /\ v = req[q].v
      BY <2>1, <2>2 DEF DocLocals
    <3>3. /\ doc' = [doc EXCEPT !.comment[c].body = v]
          /\ doc \in DocRecord
      BY <2>4, <3>2 DEF DocsInv, DocInv, DocTypes
    <3>4. doc'.comment = [doc.comment EXCEPT ![c].body = v]
          /\ doc'.node = doc.node /\ doc'.edges = doc.edges /\ doc'.tag = doc.tag
          /\ doc'.thread = doc.thread
      BY <3>3 DEF DocRecord
    <3>5. DocTypes'
      <4>1. doc' \in DocRecord
        BY <3>3 DEF DocRecord, CommentNode
      <4> QED BY <2>4, <4>1 DEF DocsInv, DocInv, DocTypes
    <3>6. /\ \A u \in Comments : /\ doc'.comment[u].there = doc.comment[u].there
                                 /\ doc'.comment[u].thread = doc.comment[u].thread
                                 /\ doc'.comment[u].acks = doc.comment[u].acks
          /\ doc.comment[c].there
          /\ \A u \in Comments : u # c => doc'.comment[u] = doc.comment[u]
      BY <2>4, <3>2, <3>4 DEF DocsInv, DocInv, DocTypes, DocRecord, CommentNode, CommentRead
    <3>7. Attached'
      BY <3>4, <3>6 DEF DocsInv, DocInv, Attached
    <3>8. Numbered'
      <4>1. \A u \in Comments : doc.comment[u] = NoComment => doc'.comment[u] = NoComment
        BY <3>6 DEF NoComment
      <4>2. \A r \in Slots : req'[r].at \in {"comment.thread", "comment.delete"} =>
             docLog'.home[req'[r].c] = req'[r].t
        BY <1>0, <2>4, <3>1, KnownThreads
      <4>3. Numbered /\ docLog' = docLog
        BY <2>4 DEF DocsInv, DocInv
      <4> QED BY ONLY <3>4, <3>6, <4>1, <4>2, <4>3 DEF Numbered
    <3>9. ThreadsHoldComments'
      <4>1. \A t : InThread(t)' = InThread(t)
        BY <3>6 DEF InThread
      <4>2. ThreadsHoldComments /\ docLog' = docLog
        BY <2>4 DEF DocsInv, DocInv
      <4> QED BY ONLY <3>4, <3>6, <4>1, <4>2 DEF ThreadsHoldComments
    <3>10. DocInv'
      BY <1>0, <2>1, <2>4, <3>1, <3>4, <3>5, <3>7, <3>8, <3>9, CommentStep
    <3> QED BY <2>1, <3>1, <3>10 DEF DocGoes
  <2> QED BY <1>2, <2>3, <2>4 DEF PatchCommentSave
<1>3. CASE AcknowledgeSave(q)
  <2>1. req[q].at = "ack.save"
    BY <1>3 DEF AcknowledgeSave, At
  <2>2. DocLocals(req[q])
    BY <2>1, DocStands
  <2>3. CASE WaitD(q, "ack.save", Idle)
    BY <2>3, WaitDEnds
  <2>4. CASE /\ Step(q, "ack.save", Idle) /\ CommentRead(req[q].c)
             /\ doc' = [doc EXCEPT !.comment[req[q].c].acks = Toggle(req[q].read, req[q].u)]
             /\ docLog' = [docLog EXCEPT
                  !.acks[req[q].c] = Toggle(@, req[q].u),
                  !.lost = IF doc.comment[req[q].c].acks = req[q].read THEN @ ELSE @ \cup {req[q].c}]
    <3>1. Moves(q, Idle)
      BY <2>4, StepMoves DEF DocsInv
    <3>2. PICK c \in Comments, u \in Users, had \in SUBSET Users :
            c = req[q].c /\ u = req[q].u /\ had = req[q].read
      BY <2>1, <2>2 DEF DocLocals
    <3>3. /\ doc' = [doc EXCEPT !.comment[c].acks = Toggle(had, u)]
          /\ docLog' = [docLog EXCEPT
                !.acks[c] = Toggle(@, u),
                !.lost = IF doc.comment[c].acks = had THEN @ ELSE @ \cup {c}]
          /\ doc \in DocRecord /\ docLog \in DocLogRecord
      BY <2>4, <3>2 DEF DocsInv, DocInv, DocTypes
    <3>4. /\ doc'.comment = [doc.comment EXCEPT ![c].acks = Toggle(had, u)]
          /\ doc'.node = doc.node /\ doc'.edges = doc.edges /\ doc'.tag = doc.tag
          /\ doc'.thread = doc.thread
          /\ docLog'.acks = [docLog.acks EXCEPT ![c] = Toggle(@, u)]
          /\ docLog'.lost = IF doc.comment[c].acks = had THEN docLog.lost ELSE docLog.lost \cup {c}
          /\ docLog'.born = docLog.born /\ docLog'.want = docLog.want /\ docLog'.stale = docLog.stale
          /\ docLog'.tags = docLog.tags /\ docLog'.torn = docLog.torn
          /\ docLog'.home = docLog.home /\ docLog'.crossed = docLog.crossed
          /\ docLog'.threads = docLog.threads /\ docLog'.comments = docLog.comments
      BY <3>3 DEF DocRecord, DocLogRecord
    <3>5. DocTypes'
      <4>1. Toggle(had, u) \in SUBSET Users /\ Toggle(docLog.acks[c], u) \in SUBSET Users
        BY <3>3 DEF Toggle, DocLogRecord
      <4>2. doc' \in DocRecord
        BY ZenonT(30), <3>3, <4>1 DEF DocRecord, CommentNode
      <4>3. docLog' \in DocLogRecord
        BY <3>3, <4>1 DEF DocLogRecord
      <4> QED BY <4>2, <4>3 DEF DocTypes
    <3>6. /\ \A o \in Comments : /\ doc'.comment[o].there = doc.comment[o].there
                                 /\ doc'.comment[o].thread = doc.comment[o].thread
          /\ doc.comment[c].there
          /\ \A o \in Comments : o # c => doc'.comment[o] = doc.comment[o]
          /\ doc'.comment[c].acks = Toggle(had, u)
      <4>1. doc.comment \in [Comments -> CommentNode]
        BY <3>3 DEF DocRecord
      <4>2. doc.comment[c].there
        BY <2>4, <3>2 DEF CommentRead
      <4> QED BY ONLY <3>2, <3>4, <4>1, <4>2 DEF CommentNode
    <3>7. Attached'
      BY <3>4, <3>6 DEF DocsInv, DocInv, Attached
    <3>8. Numbered'
      <4>1. c <= docLog.comments
        <5>1. ~(docLog.comments < c)
          BY <3>6 DEF DocsInv, DocInv, Numbered, NoComment
        <5> QED BY <3>3, <5>1, DocumentsAssumption DEF DocLogRecord, Comments
      <4>2. \A r \in Slots : req'[r].at \in {"comment.thread", "comment.delete"} =>
             docLog'.home[req'[r].c] = req'[r].t
        BY <1>0, <3>1, <3>4, KnownThreads
      <4>3. \A o \in Comments : docLog'.comments < o =>
              doc'.comment[o] = NoComment /\ docLog'.home[o] = 0 /\ docLog'.acks[o] = {}
        BY <3>3, <3>4, <3>6, <4>1, DocumentsAssumption
           DEF DocsInv, DocInv, Numbered, DocLogRecord, Comments
      <4> QED BY <3>4, <3>6, <4>2, <4>3 DEF DocsInv, DocInv, Numbered
    <3>9. ThreadsHoldComments'
      <4>1. \A t : InThread(t)' = InThread(t)
        BY <3>6 DEF InThread
      <4>2. \A o \in Comments \ docLog'.lost : doc'.comment[o].acks = docLog'.acks[o]
        BY <3>3, <3>4, <3>6 DEF DocsInv, DocInv, ThreadsHoldComments, DocLogRecord
      <4> QED BY <3>4, <3>6, <4>1, <4>2 DEF DocsInv, DocInv, ThreadsHoldComments
    <3>10. DocInv'
      BY <1>0, <2>1, <3>1, <3>4, <3>5, <3>7, <3>8, <3>9, CommentStep
    <3> QED BY <2>1, <3>1, <3>10 DEF DocGoes
  <2> QED BY <1>3, <2>3, <2>4 DEF AcknowledgeSave
<1> QED BY <1>1, <1>2, <1>3

\* A comment is written: in a thread that is there, or in a new one.
LEMMA CommentWritten ==
    ASSUME DocsInv, NEW q \in Slots, Moves(q, Idle),
           NEW t \in Threads, NEW c \in Comments, c = docLog.comments + 1,
           doc'.comment = [doc.comment EXCEPT ![c] = NewComment(t)],
           \A u \in Threads : u # t => doc'.thread[u] = doc.thread[u],
           doc'.thread[t].there,
           docLog'.comments = c, docLog'.home = [docLog.home EXCEPT ![c] = t],
           docLog'.threads = docLog.threads \/ docLog'.threads = docLog.threads + 1,
           t <= docLog'.threads,
           t <= docLog.threads => doc.thread[t].there,
           docLog'.acks = docLog.acks, docLog'.lost = docLog.lost, docLog'.crossed = docLog.crossed
    PROVE  Numbered' /\ ThreadsHoldComments'
<1> USE DEF DocsInv, DocInv, DocTypes
<1>1. /\ docLog.home \in [Comments -> 0..MaxThreads] /\ docLog.comments \in Nat
      /\ docLog.threads \in Nat /\ doc.comment \in [Comments -> CommentNode]
      /\ \A o \in Comments : o \in Nat
      /\ \A u \in Threads : u \in Nat /\ u # 0
  BY DocumentsAssumption DEF DocRecord, DocLogRecord, Comments, Threads
<1>2. /\ doc'.comment[c] = NewComment(t) /\ docLog'.home[c] = t
      /\ \A o \in Comments : o # c => doc'.comment[o] = doc.comment[o] /\ docLog'.home[o] = docLog.home[o]
  BY <1>1
<1>3. doc.comment[c] = NoComment /\ docLog.home[c] = 0 /\ docLog.acks[c] = {}
  BY <1>1 DEF Numbered
<1>4. /\ NewComment(t).there /\ NewComment(t).thread = t /\ NewComment(t).acks = {}
      /\ ~NoComment.there /\ NoComment.thread = 0 /\ NoComment.acks = {}
  BY DEF NewComment, NoComment
<1>5. Numbered'
  <2>1. Idle.at \notin {"comment.thread", "comment.delete"}
    BY IdleOK DEF Idle
  <2>2. \A r \in Slots : r # q /\ req[r].at \in {"comment.thread", "comment.delete"} =>
          docLog'.home[req[r].c] = docLog.home[req[r].c]
    <3>1. ASSUME NEW r \in Slots, req[r].at \in {"comment.thread", "comment.delete"}
          PROVE  docLog'.home[req[r].c] = docLog.home[req[r].c]
      <4>1. DocLocals(req[r])
        BY <3>1, DocStands DEF DocLabels, AskLabels, CommentLabels, ThreadLabels
      <4>2. req[r].c \in Comments /\ req[r].t \in Threads
        BY <3>1, <4>1 DEF DocLocals, CommentLabels, ThreadLabels
      <4>3. docLog.home[req[r].c] = req[r].t
        BY <3>1 DEF Numbered
      <4>4. req[r].c # c
        BY <1>1, <1>3, <4>2, <4>3
      <4> QED BY <1>2, <4>2, <4>4
    <3> QED BY <3>1
  <2>3. \A r \in Slots : req'[r].at \in {"comment.thread", "comment.delete"} =>
          docLog'.home[req'[r].c] = req'[r].t
    BY <2>1, <2>2, KnownThreads
  <2>4. \A u \in Threads : docLog'.threads < u => doc'.thread[u] = NoThread
    BY <1>1 DEF Numbered
  <2>5. \A o \in Comments : docLog'.comments < o =>
          doc'.comment[o] = NoComment /\ docLog'.home[o] = 0 /\ docLog'.acks[o] = {}
    BY <1>1, <1>2 DEF Numbered
  <2>6. \A o \in Comments : /\ docLog'.home[o] <= docLog'.threads
                            /\ doc'.comment[o].thread \in {0, docLog'.home[o]}
    BY <1>1, <1>2, <1>4 DEF Numbered
  <2> QED BY <2>3, <2>4, <2>5, <2>6 DEF Numbered
<1>6. ThreadsHoldComments'
  <2>1. ASSUME NEW u \in Threads \ docLog'.crossed, doc'.thread[u].there PROVE InThread(u)' # {}
    <3>1. CASE u = t
      <4>1. c \in InThread(t)'
        BY <1>2, <1>4 DEF InThread
      <4> QED BY <3>1, <4>1
    <3>2. CASE u # t
      <4>1. InThread(u) # {}
        BY <2>1, <3>2 DEF ThreadsHoldComments
      <4>2. InThread(u) \subseteq InThread(u)'
        BY <1>2, <1>3, <1>4 DEF InThread
      <4> QED BY <4>1, <4>2
    <3> QED BY <3>1, <3>2
  <2>2. ASSUME NEW u \in Threads \ docLog'.crossed, NEW o \in Comments,
               docLog'.home[o] = u, doc'.comment[o].there
        PROVE  doc'.comment[o].thread = u
    BY <1>2, <1>4, <2>2 DEF ThreadsHoldComments
  <2>3. ASSUME NEW o \in Comments \ docLog'.lost PROVE doc'.comment[o].acks = docLog'.acks[o]
    <3>1. CASE o = c
      BY <1>2, <1>3, <1>4, <3>1
    <3>2. CASE o # c
      BY <1>2, <2>3, <3>2 DEF ThreadsHoldComments
    <3> QED BY <3>1, <3>2
  <2> QED BY <2>1, <2>2, <2>3 DEF ThreadsHoldComments
<1> QED BY <1>5, <1>6

LEMMA WritesKeep ==
    ASSUME DocsInv, NEW q \in Slots, CreateThreadNode(q) \/ CreateReply(q)
    PROVE  DocGoes(q) /\ DocInv'
<1> USE DEF AskLabels, TagLabels, CommentLabels, ThreadLabels, DocLabels, AtTags
<1>0. Idle.at = "idle"
  BY IdleOK
<1>a. /\ docLog.threads \in Threads /\ docLog.comments \in Comments
      /\ doc \in DocRecord /\ docLog \in DocLogRecord
      /\ \A u \in Threads : u \in Nat /\ u # 0
      /\ \A o \in Comments : o \in Nat
  BY DocumentsAssumption DEF DocsInv, DocInv, DocTypes, DocLogRecord, Threads, Comments
<1>b. \A o \in Comments : doc.comment[o].thread # 0 => doc.comment[o].thread \in Threads
  BY DocumentsAssumption DEF DocsInv, DocInv, DocTypes, DocRecord, CommentNode, Threads
<1>c. \A u \in Threads : NewComment(u) \in CommentNode
  BY DocumentsAssumption DEF NewComment, CommentNode, Threads, Texts
<1>1. CASE CreateThreadNode(q)
  <2>1. req[q].at = "thread.create"
    BY <1>1 DEF CreateThreadNode, At
  <2>2. DocLocals(req[q])
    BY <2>1, DocStands
  <2>3. CASE WaitD(q, "thread.create", Idle)
    BY <2>3, WaitDEnds
  <2>4. ASSUME NEW t, t = docLog.threads + 1, NEW c, c = docLog.comments + 1,
               Readable(req[q].d), t \in Threads, c \in Comments,
               Step(q, "thread.create", Idle),
               doc' = [doc EXCEPT !.thread[t] = [there |-> TRUE, doc |-> req[q].d, resolved |-> None],
                                  !.comment[c] = NewComment(t)],
               docLog' = [docLog EXCEPT !.threads = t, !.comments = c, !.home[c] = t]
        PROVE  DocGoes(q) /\ DocInv'
    <3>1. Moves(q, Idle)
      BY <2>4, StepMoves DEF DocsInv
    <3>2. PICK d \in Docs : d = req[q].d
      BY <2>1, <2>2 DEF DocLocals
    <3> DEFINE new == [there |-> TRUE, doc |-> d, resolved |-> None]
    <3>3. new \in ThreadNode /\ new.there /\ new.doc = d
      BY DEF ThreadNode
    <3>4. /\ doc'.thread = [doc.thread EXCEPT ![t] = new]
          /\ doc'.comment = [doc.comment EXCEPT ![c] = NewComment(t)]
          /\ doc'.node = doc.node /\ doc'.edges = doc.edges /\ doc'.tag = doc.tag
          /\ docLog'.threads = t /\ docLog'.comments = c
          /\ docLog'.home = [docLog.home EXCEPT ![c] = t]
          /\ docLog'.born = docLog.born /\ docLog'.want = docLog.want /\ docLog'.stale = docLog.stale
          /\ docLog'.tags = docLog.tags /\ docLog'.torn = docLog.torn
          /\ docLog'.acks = docLog.acks /\ docLog'.lost = docLog.lost /\ docLog'.crossed = docLog.crossed
      BY <1>a, <2>4, <3>2 DEF DocRecord, DocLogRecord
    <3> HIDE DEF new
    <3>5. DocTypes'
      <4>1. doc' \in DocRecord
        BY <1>a, <1>c, <2>4, <3>2, <3>3 DEF DocRecord, new
      <4>2. t \in 0..MaxThreads
        BY <2>4, DocumentsAssumption DEF Threads
      <4>3. docLog' \in DocLogRecord
        BY <1>a, <2>4, <4>2 DEF DocLogRecord
      <4> QED BY <4>1, <4>3 DEF DocTypes
    <3>6. doc'.thread[t] = new /\ \A u \in Threads : u # t => doc'.thread[u] = doc.thread[u]
      BY <1>a, <2>4, <3>4 DEF DocRecord
    <3>7. Attached'
      <4>1. doc.node[d].there
        BY <2>4, <3>2 DEF Readable
      <4>2. \A u \in Threads : doc'.thread[u].doc # None => doc'.node[doc'.thread[u].doc].there
        BY <3>3, <3>4, <3>6, <4>1 DEF DocsInv, DocInv, Attached
      <4>3. ASSUME NEW o \in Comments, doc'.comment[o].thread # 0
            PROVE  doc'.thread[doc'.comment[o].thread].there
        <5>1. CASE o = c
          <6>1. doc'.comment[o].thread = t
            BY <1>a, <2>4, <3>4, <5>1 DEF DocRecord, NewComment
          <6> QED BY <3>3, <3>6, <6>1
        <5>2. CASE o # c
          <6>1. doc'.comment[o] = doc.comment[o]
            BY <1>a, <2>4, <3>4, <5>2 DEF DocRecord
          <6>2. doc.comment[o].thread \in Threads /\ doc.thread[doc.comment[o].thread].there
            BY <1>b, <4>3, <6>1 DEF DocsInv, DocInv, Attached
          <6> QED BY <3>3, <3>6, <6>1, <6>2
        <5> QED BY <5>1, <5>2
      <4> QED BY <3>4, <4>2, <4>3 DEF DocsInv, DocInv, Attached
    <3>8. Numbered' /\ ThreadsHoldComments'
      <4>1. ~(t <= docLog.threads) /\ t <= docLog'.threads
        BY <1>a, <2>4, <3>4
      <4> QED BY <2>4, <3>1, <3>3, <3>4, <3>6, <4>1, CommentWritten
    <3>9. DocInv'
      BY <1>0, <2>1, <3>1, <3>4, <3>5, <3>7, <3>8, CommentStep
    <3> QED BY <2>1, <3>1, <3>9 DEF DocGoes
  <2> QED BY <1>1, <2>3, <2>4 DEF CreateThreadNode
<1>2. CASE CreateReply(q)
  <2>1. PICK t \in Threads :
           /\ ThreadRead(t) /\ docLog.comments < MaxComments
           /\ LET c == docLog.comments + 1 IN
              /\ Begin(q, Idle)
              /\ doc' = [doc EXCEPT !.comment[c] = NewComment(t)]
              /\ docLog' = [docLog EXCEPT !.comments = c, !.home[c] = t]
    BY <1>2 DEF CreateReply
  <2>2. PICK c \in Comments : c = docLog.comments + 1
    BY <1>a, <2>1, DocumentsAssumption DEF Comments
  <2>3. /\ Begin(q, Idle) /\ doc.thread[t].there
        /\ doc' = [doc EXCEPT !.comment[c] = NewComment(t)]
        /\ docLog' = [docLog EXCEPT !.comments = c, !.home[c] = t]
    BY <2>1, <2>2 DEF ThreadRead
  <2>4. Moves(q, Idle) /\ req[q].at = "idle"
    BY <2>3, BeginMoves DEF DocsInv
  <2>5. /\ doc'.thread = doc.thread
        /\ doc'.comment = [doc.comment EXCEPT ![c] = NewComment(t)]
        /\ doc'.node = doc.node /\ doc'.edges = doc.edges /\ doc'.tag = doc.tag
        /\ docLog'.threads = docLog.threads /\ docLog'.comments = c
        /\ docLog'.home = [docLog.home EXCEPT ![c] = t]
        /\ docLog'.born = docLog.born /\ docLog'.want = docLog.want /\ docLog'.stale = docLog.stale
        /\ docLog'.tags = docLog.tags /\ docLog'.torn = docLog.torn
        /\ docLog'.acks = docLog.acks /\ docLog'.lost = docLog.lost /\ docLog'.crossed = docLog.crossed
    BY <1>a, <2>3 DEF DocRecord, DocLogRecord
  <2>6. DocTypes'
    <3>1. doc' \in DocRecord
      BY <1>a, <1>c, <2>3 DEF DocRecord
    <3>2. t \in 0..MaxThreads
      BY DocumentsAssumption DEF Threads
    <3>3. docLog' \in DocLogRecord
      BY <1>a, <2>3, <3>2 DEF DocLogRecord
    <3> QED BY <3>1, <3>3 DEF DocTypes
  <2>7. Attached'
    <3>1. ASSUME NEW o \in Comments, doc'.comment[o].thread # 0
          PROVE  doc'.thread[doc'.comment[o].thread].there
      <4>1. CASE o = c
        <5>1. doc'.comment[o].thread = t
          BY <1>a, <2>5, <4>1 DEF DocRecord, NewComment
        <5> QED BY <2>3, <2>5, <5>1
      <4>2. CASE o # c
        <5>1. doc'.comment[o] = doc.comment[o]
          BY <1>a, <2>5, <4>2 DEF DocRecord
        <5> QED BY <2>5, <3>1, <5>1 DEF DocsInv, DocInv, Attached
      <4> QED BY <4>1, <4>2
    <3> QED BY <2>5, <3>1 DEF DocsInv, DocInv, Attached
  <2>8. Numbered' /\ ThreadsHoldComments'
    <3>1. t <= docLog.threads
      <4>1. ~(docLog.threads < t)
        BY <2>3 DEF DocsInv, DocInv, Numbered, NoThread
      <4> QED BY <1>a, <4>1
    <3> QED BY <2>2, <2>3, <2>4, <2>5, <3>1, CommentWritten
  <2>9. DocInv'
    BY <1>0, <2>4, <2>5, <2>6, <2>7, <2>8, CommentStep
  <2> QED BY <2>4, <2>9 DEF DocGoes
<1> QED BY <1>1, <1>2

\* A set that is not a single root has another element beside any of its own.
LEMMA AnotherComment ==
    ASSUME NEW S \in SUBSET Comments, NEW c \in S, ~(IsRoot(c, S) /\ IsOnly(S))
    PROVE  \E o \in S : o # c
<1>1. SUFFICES ASSUME S = {c} PROVE FALSE
  OBVIOUS
<1>2. Cardinality(S) = 1
  BY <1>1, FS_Singleton
<1>3. c \in Nat
  BY DocumentsAssumption DEF Comments
<1>4. Min({c}) = c
  BY <1>3 DEF Min
<1> QED BY <1>1, <1>2, <1>4 DEF IsRoot, IsOnly

\* A comment goes, and its thread with it when it was found to be the only one.
LEMMA CommentGoes ==
    ASSUME DocsInv, NEW q \in Slots, DeleteCommentNode(q)
    PROVE  DocGoes(q) /\ DocInv'
<1> USE DEF AskLabels, TagLabels, CommentLabels, ThreadLabels, DocLabels, AtTags
<1>0. Idle.at = "idle"
  BY IdleOK
<1>1. req[q].at = "comment.delete"
  BY DEF DeleteCommentNode, At
<1>2. DocLocals(req[q])
  BY <1>1, DocStands
<1>3. CASE WaitD(q, "comment.delete", Idle)
  BY <1>3, WaitDEnds
<1>4. ASSUME NEW whole, whole = (IsRoot(req[q].c, req[q].seen) /\ IsOnly(req[q].seen)),
             CommentRead(req[q].c), Step(q, "comment.delete", Idle),
             doc' = [doc EXCEPT
               !.comment = [c \in Comments |->
                  IF c = req[q].c THEN NoComment
                  ELSE IF whole /\ doc.comment[c].thread = req[q].t
                       THEN [doc.comment[c] EXCEPT !.thread = 0] ELSE doc.comment[c]],
               !.thread[req[q].t] = IF whole THEN NoThread ELSE @],
             docLog' = [docLog EXCEPT
               !.acks[req[q].c] = {},
               !.crossed = IF InThread(req[q].t) = req[q].seen THEN @ ELSE @ \cup {req[q].t}]
      PROVE  DocGoes(q) /\ DocInv'
  <2>1. Moves(q, Idle)
    BY <1>4, StepMoves DEF DocsInv
  <2>2. PICK x \in Comments, t \in Threads, seen \in SUBSET Comments :
          x = req[q].c /\ t = req[q].t /\ seen = req[q].seen
    BY <1>1, <1>2 DEF DocLocals
  <2>3. /\ docLog.home[x] = t /\ doc.comment[x].thread = t
        /\ doc.comment[x].there /\ doc.thread[t].there
    BY <1>1, <1>4, <2>2 DEF DocsInv, DocInv, Numbered, CommentRead, ThreadRead
  <2>4. doc \in DocRecord /\ docLog \in DocLogRecord
    BY DEF DocsInv, DocInv, DocTypes
  <2> DEFINE rest(c) == IF c = x THEN NoComment
                        ELSE IF whole /\ doc.comment[c].thread = t
                             THEN [doc.comment[c] EXCEPT !.thread = 0] ELSE doc.comment[c]
  <2>5. /\ doc'.comment = [c \in Comments |-> rest(c)]
        /\ doc'.thread = [doc.thread EXCEPT ![t] = IF whole THEN NoThread ELSE @]
        /\ doc'.node = doc.node /\ doc'.edges = doc.edges /\ doc'.tag = doc.tag
        /\ doc'.anchored = doc.anchored
    BY <1>4, <2>2, <2>4 DEF DocRecord
  <2>6. /\ docLog'.acks = [docLog.acks EXCEPT ![x] = {}]
        /\ docLog'.crossed = IF InThread(t) = seen THEN docLog.crossed ELSE docLog.crossed \cup {t}
        /\ docLog'.threads = docLog.threads /\ docLog'.comments = docLog.comments
        /\ docLog'.home = docLog.home /\ docLog'.lost = docLog.lost
        /\ docLog'.born = docLog.born /\ docLog'.want = docLog.want /\ docLog'.stale = docLog.stale
        /\ docLog'.tags = docLog.tags /\ docLog'.torn = docLog.torn
    BY <1>4, <2>2, <2>4 DEF DocLogRecord
  <2>7. /\ NoComment \in CommentNode /\ NoThread \in ThreadNode
        /\ ~NoComment.there /\ NoComment.thread = 0 /\ NoComment.acks = {}
        /\ ~NoThread.there /\ NoThread.doc = None
    BY DocumentsAssumption DEF NoComment, NoThread, CommentNode, ThreadNode, Texts
  <2>8. \A c \in Comments : /\ doc.comment[c] \in CommentNode
                            /\ doc.comment[c].thread # 0 => doc.comment[c].thread \in Threads
    BY <2>4, DocumentsAssumption DEF DocRecord, CommentNode, Threads
  <2>9. \A c \in Comments : rest(c) \in CommentNode
    BY <2>7, <2>8, DocumentsAssumption DEF CommentNode
  <2>10. \A c \in Comments : c # x => /\ rest(c).there = doc.comment[c].there
                                      /\ rest(c).acks = doc.comment[c].acks
                                      /\ rest(c).thread = IF whole /\ doc.comment[c].thread = t THEN 0
                                                          ELSE doc.comment[c].thread
    BY <2>8 DEF CommentNode
  <2>11. rest(x) = NoComment
    OBVIOUS
  <2> HIDE DEF rest
  <2>12. DocTypes'
    <3>1. doc'.thread \in [Threads -> ThreadNode]
      BY <2>4, <2>5, <2>7 DEF DocRecord
    <3>2. doc'.comment \in [Comments -> CommentNode]
      BY <2>5, <2>9
    <3>3. doc' \in DocRecord
      BY <1>4, <2>4, <3>1, <3>2 DEF DocRecord
    <3>4. docLog' \in DocLogRecord
      BY <1>4, <2>2, <2>4 DEF DocLogRecord
    <3> QED BY <3>3, <3>4 DEF DocTypes
  <2>13. /\ \A u \in Threads : u # t => doc'.thread[u] = doc.thread[u]
         /\ doc'.thread[t] = IF whole THEN NoThread ELSE doc.thread[t]
    BY <2>4, <2>5 DEF DocRecord
  <2>14. \A c \in Comments : doc'.comment[c] = rest(c)
    BY <2>5
  <2>15. Attached'
    <3>0. \A u \in Threads : doc.thread[u].doc # None => doc.node[doc.thread[u].doc].there
      BY DEF DocsInv, DocInv, Attached
    <3>1. ASSUME NEW u \in Threads, doc'.thread[u].doc # None PROVE doc'.node[doc'.thread[u].doc].there
      <4>1. doc'.thread[u] = doc.thread[u]
        BY <2>7, <2>13, <3>1
      <4> QED BY <2>5, <3>0, <3>1, <4>1
    <3>2. ASSUME NEW c \in Comments, doc'.comment[c].thread # 0
          PROVE  doc'.thread[doc'.comment[c].thread].there
      <4>1. c # x
        BY <2>7, <2>11, <2>14, <3>2
      <4>2. /\ doc'.comment[c].thread = doc.comment[c].thread
            /\ ~(whole /\ doc.comment[c].thread = t)
        BY <2>10, <2>14, <3>2, <4>1
      <4>3. doc.thread[doc.comment[c].thread].there /\ doc.comment[c].thread \in Threads
        BY <2>8, <3>2, <4>2 DEF DocsInv, DocInv, Attached
      <4> QED BY <2>13, <4>2, <4>3
    <3>3. /\ \A d \in Docs, u \in Tags : doc'.edges[d][u] > 0 => doc'.node[d].there /\ doc'.tag[u].slug # None
          /\ \A u, v \in Tags : doc'.tag[u].slug = doc'.tag[v].slug => u = v \/ doc'.tag[u].slug = None
      BY <2>5 DEF DocsInv, DocInv, Attached
    <3> QED BY <3>1, <3>2, <3>3 DEF Attached
  <2>16. Numbered'
    <3>1. \A u \in Threads : docLog'.threads < u => doc'.thread[u] = NoThread
      BY <2>6, <2>7, <2>13, <2>3 DEF DocsInv, DocInv, Numbered
    <3>2. ASSUME NEW c \in Comments, docLog'.comments < c
          PROVE  doc'.comment[c] = NoComment /\ docLog'.home[c] = 0 /\ docLog'.acks[c] = {}
      <4>1. doc.comment[c] = NoComment /\ docLog.home[c] = 0 /\ docLog.acks[c] = {}
        BY <2>6, <3>2 DEF DocsInv, DocInv, Numbered
      <4>2. c # x
        BY <2>3, <2>7, <4>1
      <4>3. rest(c) = NoComment
        BY <2>7, <4>1, <4>2, DocumentsAssumption DEF rest, Threads
      <4> QED BY <2>6, <2>14, <4>1, <4>2, <4>3, <2>4 DEF DocLogRecord
    <3>3. \A c \in Comments : /\ docLog'.home[c] <= docLog'.threads
                              /\ doc'.comment[c].thread \in {0, docLog'.home[c]}
      BY <2>6, <2>7, <2>10, <2>11, <2>14 DEF DocsInv, DocInv, Numbered
    <3>4. \A r \in Slots : req'[r].at \in {"comment.thread", "comment.delete"} =>
            docLog'.home[req'[r].c] = req'[r].t
      BY <1>0, <2>1, <2>6, KnownThreads
    <3> QED BY <3>1, <3>2, <3>3, <3>4 DEF Numbered
  <2>17. ThreadsHoldComments'
    <3>1. ASSUME NEW u \in Threads \ docLog'.crossed, doc'.thread[u].there PROVE InThread(u)' # {}
      <4>1. u \notin docLog.crossed
        BY <2>6, <3>1
      <4>2. doc.thread[u].there
        BY <2>7, <2>13, <3>1
      <4>3. InThread(u) # {}
        BY <4>1, <4>2 DEF DocsInv, DocInv, ThreadsHoldComments
      <4>4. CASE u = t
        <5>1. ~whole
          BY <2>7, <2>13, <3>1, <4>4
        <5>2. InThread(t) = seen
          BY <2>6, <3>1, <4>4
        <5>3. x \in InThread(t)
          BY <2>3 DEF InThread
        <5>4. PICK o \in InThread(t) : o # x
          BY ZenonT(30), <1>4, <2>2, <5>1, <5>2, <5>3, AnotherComment
        <5>5. o \in Comments /\ doc.comment[o].there /\ doc.comment[o].thread = t
          BY DEF InThread
        <5>6. o \in InThread(t)'
          BY <2>10, <2>14, <5>1, <5>4, <5>5 DEF InThread
        <5> QED BY <4>4, <5>6
      <4>5. CASE u # t
        <5>1. PICK o \in Comments : doc.comment[o].there /\ doc.comment[o].thread = u
          BY <4>3 DEF InThread
        <5>2. o # x
          BY <2>3, <4>5, <5>1
        <5>3. o \in InThread(u)'
          BY <2>10, <2>14, <4>5, <5>1, <5>2 DEF InThread
        <5> QED BY <5>3
      <4> QED BY <4>4, <4>5
    <3>2. ASSUME NEW u \in Threads \ docLog'.crossed, NEW c \in Comments,
                 docLog'.home[c] = u, doc'.comment[c].there
          PROVE  doc'.comment[c].thread = u
      <4>1. u \notin docLog.crossed /\ docLog.home[c] = u
        BY <2>6, <3>2
      <4>2. c # x
        BY <2>7, <2>11, <2>14, <3>2
      <4>3. doc.comment[c].there
        BY <2>10, <2>14, <3>2, <4>2
      <4>4. doc.comment[c].thread = u
        BY <4>1, <4>3 DEF DocsInv, DocInv, ThreadsHoldComments
      <4>5. ~(whole /\ u = t)
        <5> SUFFICES ASSUME whole, u = t PROVE FALSE
          OBVIOUS
        <5>1. InThread(t) = seen /\ x \in InThread(t) /\ c \in InThread(t)
          BY <2>3, <2>6, <3>2, <4>3, <4>4 DEF InThread
        <5>2. IsFiniteSet(seen) /\ Cardinality(seen) <= 1
          <6>1. IsFiniteSet(Comments)
            BY FS_Interval, DocumentsAssumption DEF Comments
          <6> QED BY <1>4, <2>2, <6>1, FS_Subset DEF IsOnly
        <5>3. Cardinality({c, x}) <= Cardinality(seen)
          BY <5>1, <5>2, FS_Subset
        <5>4. Cardinality({c, x}) = 2
          <6>1. Cardinality({x}) = 1 /\ IsFiniteSet({x})
            BY FS_Singleton
          <6>2. Cardinality({x} \cup {c}) = Cardinality({x}) + 1
            BY <4>2, <6>1, FS_AddElement
          <6>3. {x} \cup {c} = {c, x}
            OBVIOUS
          <6> QED BY <6>1, <6>2, <6>3
        <5> QED BY <5>2, <5>3, <5>4, FS_CardinalityType
      <4> QED BY <2>10, <2>14, <4>2, <4>4, <4>5
    <3>3. ASSUME NEW c \in Comments \ docLog'.lost PROVE doc'.comment[c].acks = docLog'.acks[c]
      <4>1. CASE c = x
        BY <2>4, <2>6, <2>7, <2>11, <2>14, <4>1 DEF DocLogRecord
      <4>2. CASE c # x
        BY <2>4, <2>6, <2>10, <2>14, <3>3, <4>2 DEF DocLogRecord, DocsInv, DocInv, ThreadsHoldComments
      <4> QED BY <4>1, <4>2
    <3> QED BY <3>1, <3>2, <3>3 DEF ThreadsHoldComments
  <2>18. DocInv'
    BY <1>0, <1>1, <2>1, <2>5, <2>6, <2>12, <2>15, <2>16, <2>17, CommentStep
  <2> QED BY <1>1, <2>1, <2>18 DEF DocGoes
<1> QED BY ZenonT(30), <1>3, <1>4 DEF DeleteCommentNode

-----------------------------------------------------------------------------
(* Documents: the handlers of documents and tags.                           *)

\* Who is at work on the tags of a document after a move.
LEMMA TaggingMoves ==
    ASSUME NEW q \in Slots, NEW next, Moves(q, next), NEW d \in Docs
    PROVE  /\ Attaching(d)' = (Attaching(d) \ {q}) \cup
                (IF next.at = "doc.attach" /\ next.d = d THEN {q} ELSE {})
           /\ Tagging(d)' = (Tagging(d) \ {q}) \cup
                (IF AtTags(next) /\ next.d = d THEN {q} ELSE {})
           /\ Creating(d)' = (Creating(d) \ {q}) \cup
                (IF next.at = "doc.create" /\ next.d = d THEN {q} ELSE {})
BY DEF Moves, Attaching, Detaching, Tagging, Creating, At, AtTags

\* Who is at work on the tags of a document is replacing them.
LEMMA TaggingRetags ==
    ASSUME DocsInv, NEW d \in Docs
    PROVE  Tagging(d) \subseteq Retagging(d)
<1> SUFFICES ASSUME NEW r \in Tagging(d) PROVE r \in Retagging(d)
  OBVIOUS
<1>1. r \in Slots /\ req[r].at \in {"doc.detach", "doc.attach"} /\ req[r].d = d
  BY DEF Tagging, Attaching, Detaching, At
<1>2. req[r].ask.f = "tags"
  BY <1>1, DocStands DEF DocLocals, DocLabels, AskLabels, TagLabels
<1> QED BY <1>1, <1>2 DEF Retagging

\* The edges of a document that a step does not touch.
LEMMA OtherTagsStay ==
    ASSUME DocsInv, NEW q \in Slots, NEW next, Moves(q, next), NEW d \in Docs,
           q \notin Tagging(d), ~(AtTags(next) /\ next.d = d),
           doc'.node[d].there <=> doc.node[d].there, doc'.edges[d] = doc.edges[d],
           doc'.tag = doc.tag, docLog'.tags[d] = docLog.tags[d],
           d \notin docLog'.torn => d \notin docLog.torn
    PROVE  TagKept(d)' /\ FewEdgesOf(d)'
<1>1. Tagging(d)' = Tagging(d) /\ Attaching(d)' = Attaching(d)
  <2>1. q \notin Attaching(d)
    BY DEF Tagging
  <2>2. /\ Attaching(d)' = (Attaching(d) \ {q}) \cup
             (IF next.at = "doc.attach" /\ next.d = d THEN {q} ELSE {})
        /\ Tagging(d)' = (Tagging(d) \ {q}) \cup
             (IF AtTags(next) /\ next.d = d THEN {q} ELSE {})
    BY TaggingMoves
  <2>3. ~(next.at = "doc.attach" /\ next.d = d)
    BY DEF AtTags
  <2> QED BY <2>1, <2>2, <2>3
<1>2. ASSUME NEW r \in Slots, r \in Tagging(d) PROVE req'[r] = req[r]
  BY <1>2 DEF Moves
<1>3. \A S : Tagged(S)' = Tagged(S)
  BY DEF Tagged
<1>4. TagKept(d) /\ FewEdgesOf(d)
  BY DEF DocsInv, DocInv, TagsKept, FewEdges
<1>5. TagKept(d)'
  BY <1>1, <1>2, <1>3, <1>4 DEF TagKept
<1>6. FewEdgesOf(d)'
  BY <1>1, <1>4 DEF FewEdgesOf
<1> QED BY <1>5, <1>6

\* Nothing more is created.
LEMMA BirthsStay ==
    ASSUME DocsInv, NEW q \in Slots, NEW next, Moves(q, next), next.at # "doc.create",
           docLog.born \subseteq docLog'.born,
           \A d \in Docs, r \in Slots : r # q /\ r \in Creating(d) => d \notin docLog'.born,
           \A d \in Docs \ docLog'.born :
             /\ doc'.node[d] = doc.node[d] /\ docLog'.want[d] = docLog.want[d]
             /\ doc'.edges[d] = doc.edges[d] /\ docLog'.tags[d] = docLog.tags[d]
             /\ ~(AtTags(next) /\ next.d = d)
    PROVE  Births'
<1>1. ASSUME NEW d \in Docs, NEW r \in Slots, NEW s \in Slots, r \in Creating(d)'
      PROVE  d \notin docLog'.born /\ (s \in Creating(d)' => s = r)
  <2>1. Creating(d)' = Creating(d) \ {q}
    BY TaggingMoves
  <2> QED BY <1>1, <2>1 DEF DocsInv, DocInv, Births
<1>2. ASSUME NEW d \in Docs \ docLog'.born
      PROVE  /\ doc'.node[d] = NoDoc /\ docLog'.want[d] = NoDoc
             /\ doc'.edges[d] = NoEdges /\ docLog'.tags[d] = {}
             /\ Tagging(d)' = {}
  <2>1. Tagging(d) = {} /\ d \notin docLog.born
    BY DEF DocsInv, DocInv, Births
  <2>2. Tagging(d)' = {}
    BY <2>1, TaggingMoves
  <2> QED BY <2>1, <2>2 DEF DocsInv, DocInv, Births
<1> QED BY <1>1, <1>2 DEF Births

\* Counting who is about to write edges.
LEMMA CountOn ==
    ASSUME NEW d \in Docs, NEW q \in Slots
    PROVE  /\ IsFiniteSet(Attaching(d)) /\ Cardinality(Attaching(d)) \in Nat
           /\ Cardinality(Slots) \in Nat
           /\ Cardinality(Attaching(d)) <= Cardinality(Slots)
           /\ Cardinality(Attaching(d) \cup {q}) <= Cardinality(Slots)
           /\ Cardinality(Attaching(d) \ {q}) =
                Cardinality(Attaching(d)) - (IF q \in Attaching(d) THEN 1 ELSE 0)
<1>1. IsFiniteSet(Slots) /\ Cardinality(Slots) \in Nat
  BY DocumentsAssumption, FS_CardinalityType
<1>2. Attaching(d) \subseteq Slots
  BY DEF Attaching
<1>3. IsFiniteSet(Attaching(d)) /\ Cardinality(Attaching(d)) <= Cardinality(Slots)
  BY <1>1, <1>2, FS_Subset
<1>4. Cardinality(Attaching(d) \cup {q}) <= Cardinality(Slots)
  BY <1>1, <1>2, FS_Subset
<1>5. Cardinality(Attaching(d) \ {q}) =
        Cardinality(Attaching(d)) - (IF q \in Attaching(d) THEN 1 ELSE 0)
  <2>1. CASE q \in Attaching(d)
    BY <1>3, <2>1, FS_RemoveElement
  <2>2. CASE q \notin Attaching(d)
    <3>1. Attaching(d) \ {q} = Attaching(d)
      BY <2>2
    <3>2. Cardinality(Attaching(d)) \in Nat
      BY <1>3, FS_CardinalityType
    <3>3. Cardinality(Attaching(d) \ {q}) = Cardinality(Attaching(d))
      BY <3>1
    <3> QED BY <2>2, <3>2, <3>3
  <2> QED BY <2>1, <2>2
<1> QED BY <1>1, <1>3, <1>4, <1>5, FS_CardinalityType

LEMMA NoEdgesAre ==
    /\ EdgesOf({}) = NoEdges
    /\ \A t \in Tags : NoEdges[t] = 0
    /\ Tagged({}) = {}
    /\ NoEdges \in [Tags -> Nat]
BY DEF EdgesOf, NoEdges, Tagged

LEMMA BornNode ==
    /\ [NoDoc EXCEPT !.there = TRUE] \in DocNode
    /\ [NoDoc EXCEPT !.there = TRUE].there
<1>1. NoDoc \in DocNode
  BY DEF NoDoc, DocNode, Texts
<1> QED BY <1>1 DEF DocNode

LEMMA DocumentCreated ==
    ASSUME DocsInv, NEW q \in Slots, CreateDocumentNode(q)
    PROVE  DocGoes(q) /\ DocInv'
<1> USE DEF AskLabels, TagLabels, CommentLabels, ThreadLabels, DocLabels, AtTags
<1>0. Idle.at = "idle"
  BY IdleOK
<1>1. req[q].at = "doc.create"
  BY DEF CreateDocumentNode, At
<1>2. DocLocals(req[q])
  BY <1>1, DocStands
<1>3. CASE WaitD(q, "doc.create", Idle)
  BY <1>3, WaitDEnds
<1>4. ASSUME NEW next, next = (IF req[q].ask.tags = {} THEN Idle ELSE To(q, "doc.attach")),
             Step(q, "doc.create", next),
             doc' = [doc EXCEPT !.node[req[q].d] = [NoDoc EXCEPT !.there = TRUE]],
             docLog' = [docLog EXCEPT !.born = @ \cup {req[q].d},
                                      !.want[req[q].d] = [NoDoc EXCEPT !.there = TRUE],
                                      !.tags[req[q].d] = Tagged(req[q].ask.tags)]
      PROVE  DocGoes(q) /\ DocInv'
  <2>1. Moves(q, next)
    BY <1>4, StepMoves DEF DocsInv
  <2>2. PICK d \in Docs, asked \in SUBSET TagSlugs : d = req[q].d /\ asked = req[q].ask.tags
    <3>1. req[q].ask \in Asks /\ req[q].d \in Docs
      BY <1>1, <1>2 DEF DocLocals
    <3> QED BY <3>1 DEF Asks
  <2> DEFINE node == [NoDoc EXCEPT !.there = TRUE]
  <2>3. node \in DocNode /\ node.there
    BY BornNode
  <2>4. doc \in DocRecord /\ docLog \in DocLogRecord
    BY DEF DocsInv, DocInv, DocTypes
  <2>5. /\ doc'.node = [doc.node EXCEPT ![d] = node]
        /\ doc'.edges = doc.edges /\ doc'.tag = doc.tag /\ doc'.thread = doc.thread
        /\ doc'.comment = doc.comment
    BY <1>4, <2>2, <2>4 DEF DocRecord
  <2>6. /\ docLog'.born = docLog.born \cup {d}
        /\ docLog'.want = [docLog.want EXCEPT ![d] = node]
        /\ docLog'.tags = [docLog.tags EXCEPT ![d] = Tagged(asked)]
        /\ docLog'.stale = docLog.stale /\ docLog'.kept = docLog.kept /\ docLog'.torn = docLog.torn
        /\ docLog'.threads = docLog.threads /\ docLog'.comments = docLog.comments
        /\ docLog'.home = docLog.home /\ docLog'.acks = docLog.acks
        /\ docLog'.lost = docLog.lost /\ docLog'.crossed = docLog.crossed
    BY <1>4, <2>2, <2>4 DEF DocLogRecord
  <2>7. /\ Tagged(asked) \in SUBSET Tags
        /\ \A S : Tagged(S)' = Tagged(S)
    BY <2>5 DEF Tagged
  <2>8. DocTypes'
    <3>1. doc' \in DocRecord
      BY <1>4, <2>2, <2>3, <2>4 DEF DocRecord
    <3>2. docLog' \in DocLogRecord
      BY <1>4, <2>2, <2>3, <2>4, <2>7 DEF DocLogRecord
    <3> QED BY <3>1, <3>2 DEF DocTypes
  <2> HIDE DEF node
  <2>9. q \in Creating(d)
    BY <1>1, <2>2 DEF Creating, At
  <2>10. d \notin docLog.born
    BY <2>9 DEF DocsInv, DocInv, Births
  <2>11. /\ doc.edges[d] = NoEdges /\ Tagging(d) = {} /\ Attaching(d) = {}
    BY <2>10 DEF DocsInv, DocInv, Births, Tagging
  <2>12. /\ doc'.node[d] = node /\ docLog'.want[d] = node /\ docLog'.tags[d] = Tagged(asked)
         /\ \A e \in Docs : e # d => /\ doc'.node[e] = doc.node[e] /\ docLog'.want[e] = docLog.want[e]
                                     /\ docLog'.tags[e] = docLog.tags[e]
    BY <2>4, <2>5, <2>6 DEF DocRecord, DocLogRecord
  <2>14. /\ next = Idle \/ DocLocals(next)
         /\ next.at \in {"idle", "doc.attach"}
         /\ next.at = "idle" <=> asked = {}
         /\ next.at = "doc.attach" => next.d = d /\ next.ask = req[q].ask
    BY <1>0, <1>1, <1>2, <1>4, <2>2 DEF DocLocals, To
  <2>15. Attached'
    BY <2>3, <2>5, <2>12 DEF DocsInv, DocInv, Attached
  <2>16. Births'
    BY <2>1, <2>5, <2>6, <2>9, <2>12, <2>14, BirthsStay DEF DocsInv, DocInv, Births
  <2>17. TitlesKept'
    BY <2>6, <2>12 DEF DocsInv, DocInv, TitlesKept
  <2>18. ASSUME NEW e \in Docs PROVE TagKept(e)' /\ FewEdgesOf(e)'
    <3>1. CASE e # d
      <4>1. q \notin Tagging(e)
        BY <1>1 DEF Tagging, Attaching, Detaching, At
      <4> QED BY <2>1, <2>5, <2>6, <2>12, <2>14, <3>1, <4>1, OtherTagsStay
    <3>2. CASE e = d
      <4>1. /\ Attaching(d)' = IF asked = {} THEN {} ELSE {q}
            /\ Tagging(d)' = IF asked = {} THEN {} ELSE {q}
        BY <2>1, <2>11, <2>14, TaggingMoves
      <4>2. doc'.edges[d] = NoEdges /\ doc'.node[d].there /\ docLog'.tags[d] = Tagged(asked)
        BY <2>3, <2>5, <2>11, <2>12
      <4>3. FewEdgesOf(d)'
        <5>1. Cardinality(Attaching(d)') <= Cardinality(Slots) /\ Cardinality(Attaching(d)') \in Nat
          <6>1. Attaching(d)' \subseteq Slots
            BY <4>1
          <6> QED BY <6>1, DocumentsAssumption, FS_Subset, FS_CardinalityType
        <5> QED BY <4>2, <5>1, NoEdgesAre DEF FewEdgesOf
      <4>4. TagKept(d)'
        <5>1. CASE asked = {}
          BY <4>1, <4>2, <5>1, NoEdgesAre DEF TagKept, EdgesOf
        <5>2. CASE asked # {}
          <6>1. Tagging(d)' = {q} /\ req'[q].ask.tags = asked
            BY <2>1, <2>2, <2>14, <4>1, <5>2 DEF Moves
          <6>2. Tagged(asked)' = Tagged(asked)
            BY <2>7
          <6> QED BY <4>2, <6>1, <6>2 DEF TagKept
        <5> QED BY <5>1, <5>2
      <4> QED BY <3>2, <4>3, <4>4
    <3> QED BY <3>1, <3>2
  <2>19. Numbered' /\ ThreadsHoldComments'
    BY <2>1, <2>5, <2>6, <2>14, CommentPartsStay DEF DocsInv
  <2>20. DocInv'
    BY <2>8, <2>15, <2>16, <2>17, <2>18, <2>19 DEF DocInv, TagsKept, FewEdges
  <2> QED BY <1>1, <2>1, <2>14, <2>20 DEF DocGoes
<1> QED BY <1>3, <1>4 DEF CreateDocumentNode

LEMMA EditedOK ==
    ASSUME NEW n \in DocNode, NEW ask \in Asks
    PROVE  Edited(n, ask) \in DocNode /\ Edited(n, ask).there = n.there
BY DEF Edited, DocNode, Asks

LEMMA DocumentSet ==
    ASSUME DocsInv, NEW q \in Slots, SetDocument(q)
    PROVE  DocGoes(q) /\ DocInv'
<1> USE DEF AskLabels, TagLabels, CommentLabels, ThreadLabels, DocLabels, AtTags
<1>0. Idle.at = "idle"
  BY IdleOK
<1>1. req[q].at = "doc.set"
  BY DEF SetDocument, At
<1>2. DocLocals(req[q])
  BY <1>1, DocStands
<1>3. CASE WaitD(q, "doc.set", Idle)
  BY <1>3, WaitDEnds
<1>4. ASSUME NEW next, next = (IF req[q].ask.f = "tags" THEN To(q, "doc.detach") ELSE Idle),
             Step(q, "doc.set", next), Readable(req[q].d),
             doc' = [doc EXCEPT !.node[req[q].d] = Edited(req[q].read, req[q].ask)],
             docLog' = [docLog EXCEPT
               !.want[req[q].d] = Edited(@, req[q].ask),
               !.tags[req[q].d] = IF req[q].ask.f = "tags" THEN Tagged(req[q].ask.tags) ELSE @,
               !.stale = IF doc.node[req[q].d] = req[q].read THEN @ ELSE @ \cup {req[q].d}]
      PROVE  DocGoes(q) /\ DocInv'
  <2>1. Moves(q, next)
    BY <1>4, StepMoves DEF DocsInv
  <2>2. PICK d \in Docs, ask \in Asks, read \in DocNode :
          d = req[q].d /\ ask = req[q].ask /\ read = req[q].read /\ read.there
    BY <1>1, <1>2 DEF DocLocals
  <2>3. doc \in DocRecord /\ docLog \in DocLogRecord
    BY DEF DocsInv, DocInv, DocTypes
  <2>4. /\ Edited(read, ask) \in DocNode /\ Edited(read, ask).there
        /\ docLog.want[d] \in DocNode /\ Edited(docLog.want[d], ask) \in DocNode
    BY <2>2, <2>3, EditedOK DEF DocLogRecord
  <2> DEFINE tags == IF ask.f = "tags" THEN Tagged(ask.tags) ELSE docLog.tags[d]
  <2>5. /\ doc'.node = [doc.node EXCEPT ![d] = Edited(read, ask)]
        /\ doc'.edges = doc.edges /\ doc'.tag = doc.tag /\ doc'.thread = doc.thread
        /\ doc'.comment = doc.comment
    BY <1>4, <2>2, <2>3 DEF DocRecord
  <2>6. /\ docLog'.born = docLog.born
        /\ docLog'.want = [docLog.want EXCEPT ![d] = Edited(@, ask)]
        /\ docLog'.tags = [docLog.tags EXCEPT ![d] = tags]
        /\ docLog'.stale = IF doc.node[d] = read THEN docLog.stale ELSE docLog.stale \cup {d}
        /\ docLog'.torn = docLog.torn
        /\ docLog'.threads = docLog.threads /\ docLog'.comments = docLog.comments
        /\ docLog'.home = docLog.home /\ docLog'.acks = docLog.acks
        /\ docLog'.lost = docLog.lost /\ docLog'.crossed = docLog.crossed
    BY <1>4, <2>2, <2>3 DEF DocLogRecord
  <2>7. /\ tags \in SUBSET Tags
        /\ \A S : Tagged(S)' = Tagged(S)
    BY <2>3, <2>5 DEF Tagged, DocLogRecord
  <2>8. DocTypes'
    <3>1. doc' \in DocRecord
      BY <1>4, <2>2, <2>3, <2>4 DEF DocRecord
    <3>2. docLog' \in DocLogRecord
      BY <1>4, <2>2, <2>3, <2>4, <2>7 DEF DocLogRecord
    <3> QED BY <3>1, <3>2 DEF DocTypes
  <2>9. doc.node[d].there /\ d \in docLog.born
    <3>1. doc.node[d].there
      BY <1>4, <2>2 DEF Readable
    <3> QED BY <3>1 DEF DocsInv, DocInv, Births, NoDoc
  <2>10. /\ doc'.node[d] = Edited(read, ask) /\ docLog'.tags[d] = tags
         /\ docLog'.want[d] = Edited(docLog.want[d], ask)
         /\ \A e \in Docs : e # d => /\ doc'.node[e] = doc.node[e] /\ docLog'.want[e] = docLog.want[e]
                                     /\ docLog'.tags[e] = docLog.tags[e]
    BY <2>3, <2>5, <2>6 DEF DocRecord, DocLogRecord
  <2>11. /\ next = Idle \/ DocLocals(next)
         /\ ask.f = "tags" => next.at = "doc.detach" /\ next.d = d /\ next.ask = ask
         /\ ask.f # "tags" => next.at = "idle"
         /\ next.at \in {"idle", "doc.detach"}
    BY <1>0, <1>1, <1>2, <1>4, <2>2 DEF DocLocals, To
  <2>12. ask.f = "tags" => tags = Tagged(ask.tags)
    OBVIOUS
  <2>13. ask.f # "tags" => tags = docLog.tags[d]
    OBVIOUS
  <2> HIDE DEF tags
  <2>14. Attached'
    BY <2>4, <2>5, <2>10 DEF DocsInv, DocInv, Attached
  <2>15. Births'
    BY <2>1, <2>5, <2>6, <2>9, <2>10, <2>11, BirthsStay DEF DocsInv, DocInv, Births
  <2>16. TitlesKept'
    BY <2>2, <2>6, <2>10 DEF DocsInv, DocInv, TitlesKept
  <2>17. q \notin Tagging(d) /\ \A e \in Docs : q \notin Tagging(e)
    BY <1>1 DEF Tagging, Attaching, Detaching, At
  <2>18. ASSUME NEW e \in Docs PROVE TagKept(e)' /\ FewEdgesOf(e)'
    <3>1. CASE e # d \/ ask.f # "tags"
      <4>1. /\ ~(AtTags(next) /\ next.d = e)
            /\ doc'.node[e].there <=> doc.node[e].there
            /\ docLog'.tags[e] = docLog.tags[e]
        BY <2>4, <2>9, <2>10, <2>11, <2>13, <3>1
      <4> QED BY <2>1, <2>5, <2>6, <2>17, <4>1, OtherTagsStay
    <3>2. CASE e = d /\ ask.f = "tags"
      <4>1. Attaching(d)' = Attaching(d) /\ Tagging(d)' = Tagging(d) \cup {q}
        <5>1. q \notin Attaching(d)
          BY <2>17 DEF Tagging
        <5> QED BY <2>1, <2>11, <2>17, <3>2, <5>1, TaggingMoves
      <4>2. FewEdgesOf(d)'
        BY <2>5, <4>1 DEF DocsInv, DocInv, FewEdges, FewEdgesOf
      <4>3. TagKept(d)'
        <5>1. Tagging(d)' # {} /\ q \in Tagging(d)' /\ q \notin Attaching(d)'
          BY <2>17, <4>1 DEF Tagging
        <5>2. req'[q].ask = ask
          BY <2>1, <2>11, <3>2 DEF Moves
        <5>3. docLog'.tags[d] = Tagged(ask.tags)'
          BY <2>7, <2>10, <2>12, <3>2
        <5>4. doc'.node[d].there
          BY <2>4, <2>10
        <5> QED BY <5>1, <5>2, <5>3, <5>4 DEF TagKept
      <4> QED BY <3>2, <4>2, <4>3
    <3> QED BY <3>1, <3>2
  <2>19. Numbered' /\ ThreadsHoldComments'
    BY <2>1, <2>5, <2>6, <2>11, CommentPartsStay DEF DocsInv
  <2>20. DocInv'
    BY <2>8, <2>14, <2>15, <2>16, <2>18, <2>19 DEF DocInv, TagsKept, FewEdges
  <2> QED BY <1>1, <2>1, <2>11, <2>20 DEF DocGoes
<1> QED BY <1>3, <1>4 DEF SetDocument

\* A handler alone with the tags of a document: what it has made of them.
LEMMA AloneWithTags ==
    ASSUME DocsInv, NEW q \in Slots, NEW d \in Docs, q \in Tagging(d),
           d \notin docLog.torn, Retagging(d) \subseteq {q}
    PROVE  /\ Tagging(d) = {q}
           /\ doc.node[d].there => docLog.tags[d] = Tagged(req[q].ask.tags)
           /\ ~doc.node[d].there => docLog.tags[d] = {}
           /\ q \in Attaching(d) => doc.edges[d] = NoEdges
<1>1. Tagging(d) = {q}
  BY TaggingRetags
<1> QED BY <1>1 DEF DocsInv, DocInv, TagsKept, TagKept

\* The log after a step that several may be taking.
LEMMA EntangledLog ==
    ASSUME DocsInv, NEW q \in Slots, NEW d \in Docs, docLog' = Entangled(docLog, q, d)
    PROVE  /\ docLog' \in DocLogRecord
           /\ d \notin docLog'.torn => d \notin docLog.torn /\ Retagging(d) \subseteq {q}
           /\ \A e \in Docs : e \notin docLog'.torn => e \notin docLog.torn
           /\ docLog'.born = docLog.born /\ docLog'.want = docLog.want /\ docLog'.stale = docLog.stale
           /\ docLog'.tags = docLog.tags
           /\ docLog'.threads = docLog.threads /\ docLog'.comments = docLog.comments
           /\ docLog'.home = docLog.home /\ docLog'.acks = docLog.acks
           /\ docLog'.lost = docLog.lost /\ docLog'.crossed = docLog.crossed
<1>1. docLog \in DocLogRecord
  BY DEF DocsInv, DocInv, DocTypes
<1>2. CASE Retagging(d) \subseteq {q}
  BY <1>1, <1>2 DEF Entangled
<1>3. CASE ~(Retagging(d) \subseteq {q})
  <2>1. docLog' = [docLog EXCEPT !.torn = @ \cup {d}]
    BY <1>3 DEF Entangled
  <2> QED BY <1>1, <1>3, <2>1 DEF DocLogRecord
<1> QED BY <1>2, <1>3

LEMMA TagsDetached ==
    ASSUME DocsInv, NEW q \in Slots, DetachAllTags(q)
    PROVE  DocGoes(q) /\ DocInv'
<1> USE DEF AskLabels, TagLabels, CommentLabels, ThreadLabels, DocLabels, AtTags
<1>0. Idle.at = "idle"
  BY IdleOK
<1>1. req[q].at = "doc.detach"
  BY DEF DetachAllTags, Step, At
<1>2. DocLocals(req[q])
  BY <1>1, DocStands
<1>3. PICK d \in Docs, asked \in SUBSET TagSlugs : d = req[q].d /\ asked = req[q].ask.tags
  <2>1. req[q].ask \in Asks /\ req[q].d \in Docs
    BY <1>1, <1>2 DEF DocLocals
  <2> QED BY <2>1 DEF Asks
<1>4. PICK next : /\ next = (IF asked = {} THEN Idle ELSE To(q, "doc.attach"))
                  /\ Step(q, "doc.detach", next)
  BY <1>3 DEF DetachAllTags
<1>5. Moves(q, next)
  BY <1>4, StepMoves DEF DocsInv
<1>6. doc \in DocRecord /\ docLog \in DocLogRecord
  BY DEF DocsInv, DocInv, DocTypes
<1>7. doc' = [doc EXCEPT !.edges[d] = NoEdges] /\ docLog' = Entangled(docLog, q, d)
  BY <1>3 DEF DetachAllTags
<1>8. /\ doc'.edges = [doc.edges EXCEPT ![d] = NoEdges]
      /\ doc'.node = doc.node /\ doc'.tag = doc.tag /\ doc'.thread = doc.thread
      /\ doc'.comment = doc.comment
  BY <1>6, <1>7 DEF DocRecord
<1>9. /\ docLog' \in DocLogRecord
      /\ d \notin docLog'.torn => d \notin docLog.torn /\ Retagging(d) \subseteq {q}
      /\ \A e \in Docs : e \notin docLog'.torn => e \notin docLog.torn
      /\ docLog'.born = docLog.born /\ docLog'.want = docLog.want /\ docLog'.stale = docLog.stale
      /\ docLog'.tags = docLog.tags
      /\ docLog'.threads = docLog.threads /\ docLog'.comments = docLog.comments
      /\ docLog'.home = docLog.home /\ docLog'.acks = docLog.acks
      /\ docLog'.lost = docLog.lost /\ docLog'.crossed = docLog.crossed
  BY <1>7, EntangledLog
<1>10. DocTypes'
  <2>1. doc' \in DocRecord
    BY <1>6, <1>7, NoEdgesAre DEF DocRecord
  <2> QED BY <1>9, <2>1 DEF DocTypes
<1>11. doc'.edges[d] = NoEdges /\ \A e \in Docs : e # d => doc'.edges[e] = doc.edges[e]
  BY <1>6, <1>8 DEF DocRecord
<1>12. Attached'
  <2>1. \A e \in Docs, t \in Tags : doc'.edges[e][t] > 0 => doc'.node[e].there /\ doc'.tag[t].slug # None
    BY <1>8, <1>11, NoEdgesAre DEF DocsInv, DocInv, Attached
  <2> QED BY <1>8, <2>1 DEF DocsInv, DocInv, Attached
<1>13. /\ next = Idle \/ DocLocals(next)
       /\ asked = {} => next.at = "idle"
       /\ asked # {} => next.at = "doc.attach" /\ next.d = d /\ next.ask = req[q].ask
       /\ next.at \in {"idle", "doc.attach"}
  BY <1>0, <1>1, <1>2, <1>3, <1>4 DEF DocLocals, To
<1>14. q \in Tagging(d) /\ q \notin Attaching(d) /\ \A e \in Docs : e # d => q \notin Tagging(e)
  BY <1>1, <1>3 DEF Tagging, Attaching, Detaching, At
<1>15. Births'
  <2>1. d \in docLog.born
    BY <1>14 DEF DocsInv, DocInv, Births
  <2> QED BY <1>5, <1>8, <1>9, <1>11, <1>13, <2>1, BirthsStay DEF DocsInv, DocInv, Births
<1>16. TitlesKept'
  BY <1>8, <1>9 DEF DocsInv, DocInv, TitlesKept
<1>17. ASSUME NEW e \in Docs PROVE TagKept(e)' /\ FewEdgesOf(e)'
  <2>1. CASE e # d
    BY <1>5, <1>8, <1>9, <1>11, <1>13, <1>14, <2>1, OtherTagsStay
  <2>2. CASE e = d
    <3>1. /\ Attaching(d)' = Attaching(d) \cup (IF asked = {} THEN {} ELSE {q})
          /\ Tagging(d)' = (Tagging(d) \ {q}) \cup (IF asked = {} THEN {} ELSE {q})
      <4>1. Attaching(d) \ {q} = Attaching(d)
        BY <1>14
      <4> QED BY <1>5, <1>13, <4>1, TaggingMoves
    <3>2. FewEdgesOf(d)'
      <4>1. Attaching(d)' \in {Attaching(d), Attaching(d) \cup {q}}
        BY <3>1
      <4>2. Cardinality(Attaching(d)') <= Cardinality(Slots) /\ Cardinality(Attaching(d)') \in Nat
        <5>1. Attaching(d)' \subseteq Slots
          BY <3>1 DEF Attaching
        <5> QED BY <5>1, DocumentsAssumption, FS_Subset, FS_CardinalityType
      <4> QED BY <1>11, <4>2, NoEdgesAre DEF FewEdgesOf
    <3>3. TagKept(d)'
      <4>1. ~doc'.node[d].there => docLog'.tags[d] = {}
        BY <1>8, <1>9 DEF DocsInv, DocInv, TagsKept, TagKept
      <4>2. ASSUME d \notin docLog'.torn
            PROVE  /\ Tagging(d) = {q}
                   /\ doc'.node[d].there => docLog'.tags[d] = Tagged(asked)
                   /\ ~doc'.node[d].there => docLog'.tags[d] = {}
        BY <1>3, <1>8, <1>9, <1>14, <4>2, AloneWithTags
      <4>3. Tagged(asked)' = Tagged(asked)
        BY <1>8 DEF Tagged
      <4>4. CASE asked = {}
        BY <1>11, <3>1, <4>1, <4>2, <4>4, NoEdgesAre DEF TagKept, EdgesOf
      <4>5. CASE asked # {}
        <5>1. req'[q].ask.tags = asked
          BY <1>3, <1>5, <1>13, <4>5 DEF Moves
        <5>2. d \notin docLog'.torn => Tagging(d)' = {q}
          BY <3>1, <4>2, <4>5
        <5> QED BY <1>11, <4>1, <4>2, <4>3, <5>1, <5>2 DEF TagKept
      <4> QED BY <4>4, <4>5
    <3> QED BY <2>2, <3>2, <3>3
  <2> QED BY <2>1, <2>2
<1>18. Numbered' /\ ThreadsHoldComments'
  BY <1>5, <1>8, <1>9, <1>13, CommentPartsStay DEF DocsInv
<1>19. DocInv'
  BY <1>10, <1>12, <1>15, <1>16, <1>17, <1>18 DEF DocInv, TagsKept, FewEdges
<1> QED BY <1>1, <1>5, <1>13, <1>19 DEF DocGoes

LEMMA TagsAttached ==
    ASSUME DocsInv, NEW q \in Slots, AttachTags(q)
    PROVE  DocGoes(q) /\ DocInv'
<1> USE DEF AskLabels, TagLabels, CommentLabels, ThreadLabels, DocLabels, AtTags
<1>0. Idle.at = "idle"
  BY IdleOK
<1>1. req[q].at = "doc.attach"
  BY DEF AttachTags, Step, At
<1>2. DocLocals(req[q])
  BY <1>1, DocStands
<1>3. PICK d \in Docs, asked \in SUBSET TagSlugs : d = req[q].d /\ asked = req[q].ask.tags
  <2>1. req[q].ask \in Asks /\ req[q].d \in Docs
    BY <1>1, <1>2 DEF DocLocals
  <2> QED BY <2>1 DEF Asks
<1>5. Moves(q, Idle)
  BY StepMoves DEF DocsInv, AttachTags
<1>6. doc \in DocRecord /\ docLog \in DocLogRecord
  BY DEF DocsInv, DocInv, DocTypes
<1> DEFINE more == [t \in Tags |-> doc.edges[d][t] + Cardinality({t} \cap Tagged(asked))]
<1>7. /\ docLog' = Entangled(docLog, q, d)
      /\ ~doc.node[d].there => doc' = doc
      /\ doc.node[d].there => doc' = [doc EXCEPT !.edges[d] = more]
  BY <1>3 DEF AttachTags
<1>a. \A t \in Tags : Cardinality({t} \cap Tagged(asked)) = (IF t \in Tagged(asked) THEN 1 ELSE 0)
  <2>1. ASSUME NEW t \in Tags
        PROVE  Cardinality({t} \cap Tagged(asked)) = (IF t \in Tagged(asked) THEN 1 ELSE 0)
    <3>1. CASE t \in Tagged(asked)
      <4>1. {t} \cap Tagged(asked) = {t}
        BY <3>1
      <4>2. Cardinality({t}) = 1
        BY FS_Singleton
      <4> QED BY <3>1, <4>1, <4>2
    <3>2. CASE t \notin Tagged(asked)
      <4>1. {t} \cap Tagged(asked) = {}
        BY <3>2
      <4> QED BY <3>2, <4>1, FS_EmptySet
    <3> QED BY <3>1, <3>2
  <2> QED BY <2>1
<1>b. /\ more \in [Tags -> Nat]
      /\ \A t \in Tags : more[t] = doc.edges[d][t] + (IF t \in Tagged(asked) THEN 1 ELSE 0)
  BY <1>6, <1>a DEF DocRecord
<1> HIDE DEF more
<1>8. /\ doc'.node = doc.node /\ doc'.tag = doc.tag /\ doc'.thread = doc.thread
      /\ doc'.comment = doc.comment /\ doc'.edges \in [Docs -> [Tags -> Nat]]
      /\ doc'.edges[d] = IF doc.node[d].there THEN more ELSE doc.edges[d]
      /\ \A e \in Docs : e # d => doc'.edges[e] = doc.edges[e]
  <2>1. CASE doc.node[d].there
    <3>1. doc' = [doc EXCEPT !.edges[d] = more]
      BY <1>7, <2>1
    <3>2. /\ doc'.edges = [doc.edges EXCEPT ![d] = more]
          /\ doc'.node = doc.node /\ doc'.tag = doc.tag /\ doc'.thread = doc.thread
          /\ doc'.comment = doc.comment
      BY <1>6, <3>1 DEF DocRecord
    <3>3. doc.edges \in [Docs -> [Tags -> Nat]]
      BY <1>6 DEF DocRecord
    <3> QED BY <1>b, <2>1, <3>2, <3>3
  <2>2. CASE ~doc.node[d].there
    BY <1>6, <1>7, <2>2 DEF DocRecord
  <2> QED BY <2>1, <2>2
<1>9. /\ docLog' \in DocLogRecord
      /\ d \notin docLog'.torn => d \notin docLog.torn /\ Retagging(d) \subseteq {q}
      /\ \A e \in Docs : e \notin docLog'.torn => e \notin docLog.torn
      /\ docLog'.born = docLog.born /\ docLog'.want = docLog.want /\ docLog'.stale = docLog.stale
      /\ docLog'.tags = docLog.tags
      /\ docLog'.threads = docLog.threads /\ docLog'.comments = docLog.comments
      /\ docLog'.home = docLog.home /\ docLog'.acks = docLog.acks
      /\ docLog'.lost = docLog.lost /\ docLog'.crossed = docLog.crossed
  BY <1>7, EntangledLog
<1>10. DocTypes'
  <2>1. doc' \in DocRecord
    <3>1. CASE doc.node[d].there
      <4>1. doc' = [doc EXCEPT !.edges[d] = more]
        BY <1>7, <3>1
      <4> QED BY <1>6, <1>b, <4>1 DEF DocRecord
    <3>2. CASE ~doc.node[d].there
      BY <1>6, <1>7, <3>2
    <3> QED BY <3>1, <3>2
  <2> QED BY <1>9, <2>1 DEF DocTypes
<1>12. Attached'
  <2>0. \A e \in Docs, t \in Tags : doc.edges[e][t] > 0 => doc.node[e].there /\ doc.tag[t].slug # None
    BY DEF DocsInv, DocInv, Attached
  <2>1. ASSUME NEW e \in Docs, NEW t \in Tags, doc'.edges[e][t] > 0
        PROVE  doc'.node[e].there /\ doc'.tag[t].slug # None
    <3>1. CASE e = d /\ doc.node[d].there
      <4>1. t \in Tagged(asked) \/ doc.edges[d][t] > 0
        BY <1>6, <1>8, <1>b, <2>1, <3>1 DEF DocRecord
      <4>2. t \in Tagged(asked) => doc.tag[t].slug # None
        BY DocumentsAssumption DEF Tagged
      <4> QED BY <1>8, <2>0, <3>1, <4>1, <4>2
    <3>2. CASE ~(e = d /\ doc.node[d].there)
      BY <1>8, <2>0, <2>1, <3>2
    <3> QED BY <3>1, <3>2
  <2> QED BY <1>8, <2>1 DEF DocsInv, DocInv, Attached
<1>14. q \in Tagging(d) /\ q \in Attaching(d) /\ \A e \in Docs : e # d => q \notin Tagging(e)
  BY <1>1, <1>3 DEF Tagging, Attaching, Detaching, At
<1>15. Births'
  <2>1. d \in docLog.born
    BY <1>14 DEF DocsInv, DocInv, Births
  <2> QED BY <1>0, <1>5, <1>8, <1>9, <2>1, BirthsStay DEF DocsInv, DocInv, Births
<1>16. TitlesKept'
  BY <1>8, <1>9 DEF DocsInv, DocInv, TitlesKept
<1>17. ASSUME NEW e \in Docs PROVE TagKept(e)' /\ FewEdgesOf(e)'
  <2>1. CASE e # d
    BY <1>0, <1>5, <1>8, <1>9, <1>14, <2>1, OtherTagsStay
  <2>2. CASE e = d
    <3>1. Attaching(d)' = Attaching(d) \ {q} /\ Tagging(d)' = Tagging(d) \ {q}
      BY <1>0, <1>5, TaggingMoves
    <3>2. FewEdgesOf(d)'
      <4>1. FewEdgesOf(d)
        BY DEF DocsInv, DocInv, FewEdges
      <4>2. /\ Cardinality(Attaching(d)') = Cardinality(Attaching(d)) - 1
            /\ Cardinality(Attaching(d)) \in Nat /\ Cardinality(Slots) \in Nat
        <5>1. /\ Cardinality(Attaching(d) \ {q}) = Cardinality(Attaching(d)) - 1
              /\ Cardinality(Attaching(d)) \in Nat /\ Cardinality(Slots) \in Nat
          BY <1>14, CountOn
        <5> QED BY <3>1, <5>1
      <4>3. ASSUME NEW t \in Tags
            PROVE  doc'.edges[d][t] + Cardinality(Attaching(d)') <= Cardinality(Slots)
        <5>1. doc.edges[d][t] + Cardinality(Attaching(d)) <= Cardinality(Slots)
          BY <4>1 DEF FewEdgesOf
        <5>2. doc.edges[d][t] \in Nat /\ doc'.edges[d][t] \in Nat
          BY <1>6, <1>8 DEF DocRecord
        <5>3. doc'.edges[d][t] <= doc.edges[d][t] + 1
          BY <1>8, <1>b, <5>2
        <5> QED BY <4>2, <5>1, <5>2, <5>3
      <4> QED BY <4>3 DEF FewEdgesOf
    <3>3. TagKept(d)'
      <4>1. ~doc'.node[d].there => docLog'.tags[d] = {}
        BY <1>8, <1>9 DEF DocsInv, DocInv, TagsKept, TagKept
      <4>2. ASSUME d \notin docLog'.torn
            PROVE  Tagging(d)' = {} /\ doc'.edges[d] = EdgesOf(docLog'.tags[d])
        <5>1. /\ Tagging(d) = {q} /\ doc.edges[d] = NoEdges
              /\ doc.node[d].there => docLog.tags[d] = Tagged(asked)
              /\ ~doc.node[d].there => docLog.tags[d] = {}
          BY <1>3, <1>9, <1>14, <4>2, AloneWithTags
        <5>2. Tagging(d)' = {}
          BY <3>1, <5>1
        <5>3. CASE doc.node[d].there
          <6>1. more = EdgesOf(Tagged(asked))
            <7>1. \A t \in Tags : more[t] = EdgesOf(Tagged(asked))[t]
              BY <1>b, <5>1, NoEdgesAre DEF EdgesOf
            <7>2. DOMAIN more = Tags /\ more = [t \in Tags |-> more[t]]
              BY <1>b
            <7> QED BY <7>1, <7>2 DEF EdgesOf
          <6> QED BY <1>8, <1>9, <5>1, <5>2, <5>3, <6>1
        <5>4. CASE ~doc.node[d].there
          BY <1>8, <1>9, <5>1, <5>2, <5>4, NoEdgesAre
        <5> QED BY <5>3, <5>4
      <4> QED BY <4>1, <4>2 DEF TagKept
    <3> QED BY <2>2, <3>2, <3>3
  <2> QED BY <2>1, <2>2
<1>18. Numbered' /\ ThreadsHoldComments'
  BY <1>0, <1>5, <1>8, <1>9, CommentPartsStay DEF DocsInv
<1>19. DocInv'
  BY <1>10, <1>12, <1>15, <1>16, <1>17, <1>18 DEF DocInv, TagsKept, FewEdges
<1> QED BY <1>1, <1>5, <1>19 DEF DocGoes

LEMMA DocumentGone ==
    ASSUME DocsInv, NEW q \in Slots, DeleteDocument(q)
    PROVE  DocGoes(q) /\ DocInv'
<1> USE DEF AtTags
<1>0. Idle.at = "idle"
  BY IdleOK
<1>1. PICK d \in Docs :
        /\ Readable(d) /\ Begin(q, Idle)
        /\ doc' = [doc EXCEPT !.node[d] = NoDoc, !.edges[d] = NoEdges,
               !.thread = [t \in Threads |-> IF doc.thread[t].doc = d
                             THEN [doc.thread[t] EXCEPT !.doc = None] ELSE doc.thread[t]]]
        /\ docLog' = [docLog EXCEPT !.want[d] = NoDoc, !.tags[d] = {}]
  BY DEF DeleteDocument
<1>2. Moves(q, Idle) /\ req[q].at = "idle"
  BY <1>1, BeginMoves DEF DocsInv
<1>3. doc \in DocRecord /\ docLog \in DocLogRecord
  BY DEF DocsInv, DocInv, DocTypes
<1> DEFINE left(t) == IF doc.thread[t].doc = d THEN [doc.thread[t] EXCEPT !.doc = None] ELSE doc.thread[t]
<1>4. /\ doc'.node = [doc.node EXCEPT ![d] = NoDoc]
      /\ doc'.edges = [doc.edges EXCEPT ![d] = NoEdges]
      /\ doc'.thread = [t \in Threads |-> left(t)]
      /\ doc'.tag = doc.tag /\ doc'.comment = doc.comment /\ doc'.anchored = doc.anchored
  BY <1>1, <1>3 DEF DocRecord
<1>5. /\ docLog'.want = [docLog.want EXCEPT ![d] = NoDoc]
      /\ docLog'.tags = [docLog.tags EXCEPT ![d] = {}]
      /\ docLog'.born = docLog.born /\ docLog'.stale = docLog.stale /\ docLog'.kept = docLog.kept /\ docLog'.torn = docLog.torn
      /\ docLog'.threads = docLog.threads /\ docLog'.comments = docLog.comments
      /\ docLog'.home = docLog.home /\ docLog'.acks = docLog.acks
      /\ docLog'.lost = docLog.lost /\ docLog'.crossed = docLog.crossed
  BY <1>1, <1>3 DEF DocLogRecord
<1>6. /\ NoDoc \in DocNode /\ ~NoDoc.there
  BY DEF NoDoc, DocNode, Texts
<1>7. \A t \in Threads : /\ left(t) \in ThreadNode /\ left(t).there = doc.thread[t].there
                         /\ left(t).doc # d
                         /\ left(t).doc # None => left(t).doc = doc.thread[t].doc
                         /\ doc.thread[t] = NoThread => left(t) = NoThread
  <2>1. ASSUME NEW t \in Threads
        PROVE  /\ left(t) \in ThreadNode /\ left(t).there = doc.thread[t].there
               /\ left(t).doc # d
               /\ left(t).doc # None => left(t).doc = doc.thread[t].doc
               /\ doc.thread[t] = NoThread => left(t) = NoThread
    <3>1. doc.thread[t] \in ThreadNode
      BY <1>3 DEF DocRecord
    <3>2. CASE doc.thread[t].doc = d
      <4>1. left(t) = [doc.thread[t] EXCEPT !.doc = None]
        BY <3>2
      <4> QED BY <3>1, <3>2, <4>1, DocumentsAssumption DEF ThreadNode, NoThread
    <3>3. CASE doc.thread[t].doc # d
      BY <3>1, <3>3
    <3> QED BY <3>2, <3>3
  <2> QED BY <2>1
<1>8. DocTypes'
  <2>1. doc'.thread \in [Threads -> ThreadNode]
    BY <1>4, <1>7
  <2>2. doc' \in DocRecord
    BY <1>1, <1>3, <1>6, <2>1, NoEdgesAre DEF DocRecord
  <2>3. docLog' \in DocLogRecord
    BY <1>1, <1>3, <1>6 DEF DocLogRecord
  <2> QED BY <2>2, <2>3 DEF DocTypes
<1>9. \A t \in Threads : doc'.thread[t] = left(t)
  BY <1>4
<1> HIDE DEF left
<1>10. /\ doc'.node[d] = NoDoc /\ doc'.edges[d] = NoEdges
       /\ docLog'.want[d] = NoDoc /\ docLog'.tags[d] = {}
       /\ \A e \in Docs : e # d => /\ doc'.node[e] = doc.node[e] /\ doc'.edges[e] = doc.edges[e]
                                   /\ docLog'.want[e] = docLog.want[e] /\ docLog'.tags[e] = docLog.tags[e]
  BY <1>3, <1>4, <1>5 DEF DocRecord, DocLogRecord
<1>11. d \in docLog.born
  BY <1>1 DEF Readable, DocsInv, DocInv, Births, NoDoc
<1>12. Attached'
  <2>1. ASSUME NEW e \in Docs, NEW t \in Tags, doc'.edges[e][t] > 0
        PROVE  doc'.node[e].there /\ doc'.tag[t].slug # None
    <3>1. e # d
      BY <1>10, <2>1, NoEdgesAre
    <3> QED BY <1>4, <1>10, <2>1, <3>1 DEF DocsInv, DocInv, Attached
  <2>2. \A s, t \in Tags : doc'.tag[s].slug = doc'.tag[t].slug => s = t \/ doc'.tag[s].slug = None
    BY <1>4 DEF DocsInv, DocInv, Attached
  <2>3. ASSUME NEW t \in Threads, doc'.thread[t].doc # None
        PROVE  doc'.node[doc'.thread[t].doc].there
    <3>1. /\ doc'.thread[t].doc = doc.thread[t].doc /\ doc.thread[t].doc # d
          /\ doc.thread[t].doc \in Docs
      BY <1>3, <1>7, <1>9, <2>3 DEF DocRecord, ThreadNode
    <3>2. doc.node[doc.thread[t].doc].there
      BY <2>3, <3>1 DEF DocsInv, DocInv, Attached
    <3> QED BY <1>10, <3>1, <3>2
  <2>4. ASSUME NEW c \in Comments, doc'.comment[c].thread # 0
        PROVE  doc'.thread[doc'.comment[c].thread].there
    <3>1. doc.comment[c].thread \in Threads
      BY <1>3, <1>4, <2>4, DocumentsAssumption DEF DocRecord, CommentNode, Threads
    <3>2. doc.thread[doc.comment[c].thread].there
      BY <1>4, <2>4 DEF DocsInv, DocInv, Attached
    <3> QED BY <1>4, <1>7, <1>9, <3>1, <3>2
  <2> QED BY <2>1, <2>2, <2>3, <2>4 DEF Attached
<1>13. Births'
  BY <1>0, <1>2, <1>5, <1>10, <1>11, BirthsStay DEF DocsInv, DocInv, Births
<1>14. TitlesKept'
  BY <1>5, <1>10 DEF DocsInv, DocInv, TitlesKept
<1>15. \A e \in Docs : q \notin Tagging(e)
  BY <1>2 DEF Tagging, Attaching, Detaching, At
<1>16. ASSUME NEW e \in Docs PROVE TagKept(e)' /\ FewEdgesOf(e)'
  <2>1. CASE e # d
    BY <1>0, <1>2, <1>4, <1>5, <1>10, <1>15, <2>1, OtherTagsStay
  <2>2. CASE e = d
    <3>1. Attaching(d)' = Attaching(d) /\ Tagging(d)' = Tagging(d)
      BY <1>0, <1>2, TaggingStays
    <3>2. Cardinality(Attaching(d)) <= Cardinality(Slots) /\ Cardinality(Attaching(d)) \in Nat
      BY CountOn
    <3>3. FewEdgesOf(d)'
      BY <1>10, <3>1, <3>2, NoEdgesAre DEF FewEdgesOf
    <3>4. TagKept(d)'
      <4>1. EdgesOf({})' = NoEdges
        BY NoEdgesAre DEF EdgesOf
      <4> QED BY <1>6, <1>10, <4>1, NoEdgesAre DEF TagKept, EdgesOf
    <3> QED BY <2>2, <3>3, <3>4
  <2> QED BY <2>1, <2>2
<1>17. Numbered' /\ ThreadsHoldComments'
  BY <1>0, <1>2, <1>4, <1>5, <1>7, <1>9, CommentPartsStay DEF DocsInv
<1>18. DocInv'
  BY <1>8, <1>12, <1>13, <1>14, <1>16, <1>17 DEF DocInv, TagsKept, FewEdges
<1> QED BY <1>2, <1>18 DEF DocGoes

LEMMA AttachmentGone ==
    ASSUME DocsInv, NEW q \in Slots, DeleteAttachment(q)
    PROVE  DocGoes(q) /\ DocInv'
<1>0. Idle.at = "idle"
  BY IdleOK
<1>1. /\ Begin(q, Idle)
      /\ doc' = [doc EXCEPT !.anchored = FALSE]
      /\ docLog' = docLog
  BY DEF DeleteAttachment
<1>2. Moves(q, Idle) /\ req[q].at = "idle"
  BY <1>1, BeginMoves DEF DocsInv
<1>3. doc \in DocRecord /\ docLog \in DocLogRecord
  BY DEF DocsInv, DocInv, DocTypes
<1>4. /\ doc'.node = doc.node /\ doc'.edges = doc.edges /\ doc'.tag = doc.tag
      /\ doc'.thread = doc.thread /\ doc'.comment = doc.comment
  BY <1>1, <1>3 DEF DocRecord
<1>5. DocTypes'
  BY <1>1, <1>3 DEF DocTypes, DocRecord
<1>6. Attached'
  BY <1>4 DEF DocsInv, DocInv, Attached
<1>7. Births' /\ FewEdges' /\ TitlesKept' /\ TagsKept'
  BY <1>0, <1>1, <1>2, <1>4, TagPartsStay DEF DocsInv, AtTags
<1>8. Numbered' /\ ThreadsHoldComments'
  BY <1>0, <1>1, <1>2, <1>4, CommentPartsStay DEF DocsInv
<1> QED BY <1>2, <1>5, <1>6, <1>7, <1>8 DEF DocInv, DocGoes

-----------------------------------------------------------------------------
(* Documents: the tags themselves.                                          *)

\* The tags change: of documents whose tags are being replaced nothing is said
\* any more.
LEMMA TagsShifted ==
    ASSUME DocsInv, NEW q \in Slots, Moves(q, Idle), ~AtTags(req[q]),
           doc'.node = doc.node, doc'.edges = doc.edges, doc'.comment = doc.comment,
           doc'.thread = doc.thread, docLog' = TagsShift(docLog),
           doc' \in DocRecord, Attached'
    PROVE  DocInv'
<1> USE DEF AtTags
<1>0. Idle.at = "idle"
  BY IdleOK
<1>1. docLog \in DocLogRecord
  BY DEF DocsInv, DocInv, DocTypes
<1>2. docLog' = [docLog EXCEPT !.torn = @ \cup {d \in Docs : Retagging(d) # {}}]
  BY DEF TagsShift
<1>3. /\ docLog' \in DocLogRecord
      /\ docLog'.torn = docLog.torn \cup {d \in Docs : Retagging(d) # {}}
      /\ docLog'.born = docLog.born /\ docLog'.want = docLog.want /\ docLog'.stale = docLog.stale
      /\ docLog'.tags = docLog.tags
      /\ docLog'.threads = docLog.threads /\ docLog'.comments = docLog.comments
      /\ docLog'.home = docLog.home /\ docLog'.acks = docLog.acks
      /\ docLog'.lost = docLog.lost /\ docLog'.crossed = docLog.crossed
  BY <1>1, <1>2 DEF DocLogRecord
<1>4. ASSUME NEW d \in Docs PROVE TagKept(d)' /\ FewEdgesOf(d)'
  <2>1. Attaching(d)' = Attaching(d) /\ Tagging(d)' = Tagging(d)
    BY <1>0, TaggingStays
  <2>2. TagKept(d) /\ FewEdgesOf(d)
    BY DEF DocsInv, DocInv, TagsKept, FewEdges
  <2>3. FewEdgesOf(d)'
    BY <2>1, <2>2 DEF FewEdgesOf
  <2>4. d \notin docLog'.torn => d \notin docLog.torn /\ Tagging(d) = {}
    BY <1>3, TaggingRetags
  <2>5. TagKept(d)'
    BY <1>3, <2>1, <2>2, <2>4 DEF TagKept, EdgesOf
  <2> QED BY <2>3, <2>5
<1>5. Births'
  BY <1>0, <1>3, BirthsStay DEF DocsInv, DocInv, Births
<1>6. TitlesKept'
  BY <1>3 DEF DocsInv, DocInv, TitlesKept
<1>7. Numbered' /\ ThreadsHoldComments'
  BY <1>0, <1>3, CommentPartsStay DEF DocsInv
<1> QED BY <1>3, <1>4, <1>5, <1>6, <1>7 DEF DocInv, DocTypes, TagsKept, FewEdges

LEMMA TagsKeep ==
    ASSUME DocsInv, NEW q \in Slots, CreateTag(q) \/ PatchTagSave(q) \/ DeleteTag(q)
    PROVE  DocGoes(q) /\ DocInv'
<1> USE DEF AtTags
<1>0. Idle.at = "idle"
  BY IdleOK
<1>a. doc \in DocRecord /\ docLog \in DocLogRecord
  BY DEF DocsInv, DocInv, DocTypes
<1>b. 1 \in Texts
  BY DEF Texts
<1>c. /\ \A d \in Docs, t \in Tags : doc.edges[d][t] > 0 => doc.node[d].there /\ doc.tag[t].slug # None
      /\ \A s, t \in Tags : doc.tag[s].slug = doc.tag[t].slug => s = t \/ doc.tag[s].slug = None
      /\ \A t \in Threads : doc.thread[t].doc # None => doc.node[doc.thread[t].doc].there
      /\ \A c \in Comments : doc.comment[c].thread # 0 => doc.thread[doc.comment[c].thread].there
  BY DEF DocsInv, DocInv, Attached
<1>1. CASE CreateTag(q)
  <2>1. PICK t \in Tags, s \in TagSlugs \ SlugsInUse :
          /\ doc.tag[t].slug = None /\ Begin(q, Idle)
          /\ doc' = [doc EXCEPT !.tag[t] = [slug |-> s, about |-> 1]]
          /\ docLog' = TagsShift(docLog)
    BY <1>1 DEF CreateTag
  <2>2. Moves(q, Idle) /\ req[q].at = "idle"
    BY <2>1, BeginMoves DEF DocsInv
  <2>3. /\ doc'.tag = [doc.tag EXCEPT ![t] = [slug |-> s, about |-> 1]]
        /\ doc'.node = doc.node /\ doc'.edges = doc.edges /\ doc'.comment = doc.comment
        /\ doc'.thread = doc.thread
    BY <1>a, <2>1 DEF DocRecord
  <2>4. doc' \in DocRecord
    BY <1>a, <1>b, <2>1 DEF DocRecord, TagNode
  <2>5. doc'.tag[t].slug = s /\ \A u \in Tags : u # t => doc'.tag[u] = doc.tag[u]
    BY <1>a, <2>3 DEF DocRecord
  <2>6. Attached'
    <3>1. s # None /\ \A u \in Tags : doc.tag[u].slug # s
      BY DocumentsAssumption DEF SlugsInUse
    <3>2. \A u, v \in Tags : doc'.tag[u].slug = doc'.tag[v].slug => u = v \/ doc'.tag[u].slug = None
      BY <1>c, <2>5, <3>1
    <3>3. \A d \in Docs, u \in Tags : doc'.edges[d][u] > 0 => doc'.node[d].there /\ doc'.tag[u].slug # None
      BY <1>c, <2>1, <2>3, <2>5
    <3> QED BY <1>c, <2>3, <3>2, <3>3 DEF Attached
  <2>7. DocInv'
    BY <2>1, <2>2, <2>3, <2>4, <2>6, TagsShifted
  <2> QED BY <2>2, <2>7 DEF DocGoes
<1>2. CASE PatchTagSave(q)
  <2>1. req[q].at = "tag.save"
    BY <1>2 DEF PatchTagSave, At
  <2>2. req[q].at \in DocLabels \ {"doc.detach", "doc.attach"}
    BY <2>1 DEF DocLabels, AskLabels
  <2>3. DocLocals(req[q])
    BY <2>2, DocStands
  <2>4. CASE WaitD(q, "tag.save", Idle)
    BY <2>1, <2>2, <2>4, WaitDEnds
  <2>5. CASE /\ ~(req[q].old \notin SlugsInUse
                   \/ (req[q].new.slug # req[q].old /\ req[q].new.slug \in SlugsInUse))
             /\ Step(q, "tag.save", Idle)
             /\ doc' = [doc EXCEPT !.tag = [t \in Tags |-> IF doc.tag[t].slug = req[q].old
                                                           THEN req[q].new ELSE doc.tag[t]]]
             /\ docLog' = TagsShift(docLog)
    <3>1. PICK old \in TagSlugs, new \in TagNode :
            old = req[q].old /\ new = req[q].new /\ new.slug \in TagSlugs
      BY <2>1, <2>3 DEF DocLocals
    <3>2. Moves(q, Idle)
      BY <2>5, StepMoves DEF DocsInv
    <3>3. /\ doc'.tag = [t \in Tags |-> IF doc.tag[t].slug = old THEN new ELSE doc.tag[t]]
          /\ doc'.node = doc.node /\ doc'.edges = doc.edges /\ doc'.comment = doc.comment
          /\ doc'.thread = doc.thread /\ doc'.anchored = doc.anchored
      BY <1>a, <2>5, <3>1 DEF DocRecord
    <3>4. doc'.tag \in [Tags -> TagNode]
      BY <1>a, <3>3 DEF DocRecord
    <3>5. doc' \in DocRecord
      BY <1>a, <2>5, <3>4 DEF DocRecord
    <3>6. \A t \in Tags : doc'.tag[t] = IF doc.tag[t].slug = old THEN new ELSE doc.tag[t]
      BY <3>3
    <3>7. new.slug = old \/ \A u \in Tags : doc.tag[u].slug # new.slug
      BY <2>5, <3>1, DocumentsAssumption DEF SlugsInUse
    <3>8. old # None /\ new.slug # None
      BY <3>1, DocumentsAssumption
    <3>9. Attached'
      <4>1. ASSUME NEW u \in Tags, NEW v \in Tags, doc'.tag[u].slug = doc'.tag[v].slug, u # v
            PROVE  doc'.tag[u].slug = None
        <5>1. CASE doc.tag[u].slug = old
          <6>1. doc.tag[v].slug # old
            BY <1>c, <3>8, <4>1, <5>1
          <6> QED BY <3>6, <3>7, <4>1, <5>1, <6>1
        <5>2. CASE doc.tag[u].slug # old /\ doc.tag[v].slug = old
          BY <3>6, <3>7, <4>1, <5>2
        <5>3. CASE doc.tag[u].slug # old /\ doc.tag[v].slug # old
          BY <1>c, <3>6, <4>1, <5>3
        <5> QED BY <5>1, <5>2, <5>3
      <4>2. \A d \in Docs, u \in Tags : doc'.edges[d][u] > 0 => doc'.node[d].there /\ doc'.tag[u].slug # None
        BY <1>c, <3>3, <3>6, <3>8
      <4> QED BY <1>c, <3>3, <4>1, <4>2 DEF Attached
    <3>10. DocInv'
      BY <2>1, <2>5, <3>2, <3>3, <3>5, <3>9, TagsShifted
    <3> QED BY <2>2, <3>2, <3>10 DEF DocGoes
  <2> QED BY <1>2, <2>4, <2>5 DEF PatchTagSave
<1>3. CASE DeleteTag(q)
  <2>1. PICK t \in Tags :
          /\ doc.tag[t].slug # None /\ Begin(q, Idle)
          /\ doc' = [doc EXCEPT !.tag[t] = [slug |-> None, about |-> 1],
                                !.edges = [d \in Docs |-> [doc.edges[d] EXCEPT ![t] = 0]]]
          /\ docLog' = [docLog EXCEPT !.tags = [d \in Docs |-> docLog.tags[d] \ {t}]]
    BY <1>3 DEF DeleteTag
  <2>2. Moves(q, Idle) /\ req[q].at = "idle"
    BY <2>1, BeginMoves DEF DocsInv
  <2>3. /\ doc'.tag = [doc.tag EXCEPT ![t] = [slug |-> None, about |-> 1]]
        /\ doc'.edges = [d \in Docs |-> [doc.edges[d] EXCEPT ![t] = 0]]
        /\ doc'.node = doc.node /\ doc'.comment = doc.comment /\ doc'.thread = doc.thread
    BY <1>a, <2>1 DEF DocRecord
  <2>4. /\ docLog'.tags = [d \in Docs |-> docLog.tags[d] \ {t}]
        /\ docLog'.born = docLog.born /\ docLog'.want = docLog.want /\ docLog'.stale = docLog.stale
        /\ docLog'.torn = docLog.torn
        /\ docLog'.threads = docLog.threads /\ docLog'.comments = docLog.comments
        /\ docLog'.home = docLog.home /\ docLog'.acks = docLog.acks
        /\ docLog'.lost = docLog.lost /\ docLog'.crossed = docLog.crossed
    BY <1>a, <2>1 DEF DocLogRecord
  <2>5. DocTypes'
    <3>1. doc'.edges \in [Docs -> [Tags -> Nat]]
      BY <1>a, <2>3 DEF DocRecord
    <3>2. doc' \in DocRecord
      BY <1>a, <1>b, <2>1, <3>1 DEF DocRecord, TagNode
    <3>3. docLog' \in DocLogRecord
      BY <1>a, <2>1 DEF DocLogRecord
    <3> QED BY <3>2, <3>3 DEF DocTypes
  <2>6. /\ doc'.tag[t].slug = None /\ \A u \in Tags : u # t => doc'.tag[u] = doc.tag[u]
        /\ \A d \in Docs : /\ doc'.edges[d] = [doc.edges[d] EXCEPT ![t] = 0]
                           /\ docLog'.tags[d] = docLog.tags[d] \ {t}
        /\ \A d \in Docs, u \in Tags : doc'.edges[d][u] = IF u = t THEN 0 ELSE doc.edges[d][u]
    BY <1>a, <2>3, <2>4 DEF DocRecord
  <2>7. Attached'
    <3>1. \A u, v \in Tags : doc'.tag[u].slug = doc'.tag[v].slug => u = v \/ doc'.tag[u].slug = None
      BY <1>c, <2>6
    <3>2. \A d \in Docs, u \in Tags : doc'.edges[d][u] > 0 => doc'.node[d].there /\ doc'.tag[u].slug # None
      BY <1>c, <2>3, <2>6
    <3> QED BY <1>c, <2>3, <3>1, <3>2 DEF Attached
  <2>8. Births'
    <3>1. \A d \in Docs \ docLog.born : doc.edges[d] = NoEdges /\ docLog.tags[d] = {}
      BY DEF DocsInv, DocInv, Births
    <3>2. [NoEdges EXCEPT ![t] = 0] = NoEdges
      BY DEF NoEdges
    <3>3. \A d \in Docs \ docLog.born : doc'.edges[d] = doc.edges[d] /\ docLog'.tags[d] = docLog.tags[d]
      BY <2>6, <3>1, <3>2
    <3> QED BY <1>0, <2>2, <2>3, <2>4, <3>3, BirthsStay DEF DocsInv, DocInv, Births
  <2>9. TitlesKept'
    BY <2>3, <2>4 DEF DocsInv, DocInv, TitlesKept
  <2>10. ASSUME NEW d \in Docs PROVE TagKept(d)' /\ FewEdgesOf(d)'
    <3>1. Attaching(d)' = Attaching(d) /\ Tagging(d)' = Tagging(d)
      BY <1>0, <2>2, TaggingStays
    <3>2. TagKept(d) /\ FewEdgesOf(d)
      BY DEF DocsInv, DocInv, TagsKept, FewEdges
    <3>3. FewEdgesOf(d)'
      <4>1. Cardinality(Attaching(d)) <= Cardinality(Slots) /\ Cardinality(Attaching(d)) \in Nat
        BY CountOn
      <4> QED BY <2>6, <3>1, <3>2, <4>1 DEF FewEdgesOf
    <3>4. \A S \in SUBSET TagSlugs : Tagged(S)' = Tagged(S) \ {t}
      BY <2>6, DocumentsAssumption DEF Tagged
    <3>5. EdgesOf(docLog.tags[d] \ {t}) = [EdgesOf(docLog.tags[d]) EXCEPT ![t] = 0]
      BY DEF EdgesOf
    <3>6. ASSUME NEW r \in Slots, r \in Tagging(d)
          PROVE  req'[r] = req[r] /\ req[r].ask.tags \in SUBSET TagSlugs
      <4>1. req[r].at \in {"doc.detach", "doc.attach"} /\ r # q
        BY <2>2, <3>6 DEF Tagging, Attaching, Detaching, At
      <4>2. req[r].ask \in Asks
        BY <4>1, DocStands DEF DocLocals, DocLabels, AskLabels
      <4> QED BY <2>2, <4>1, <4>2 DEF Asks, Moves
    <3>7. [NoEdges EXCEPT ![t] = 0] = NoEdges
      BY DEF NoEdges
    <3>8. TagKept(d)'
      <4>1. ~doc'.node[d].there => docLog'.tags[d] = {}
        BY <2>3, <2>6, <3>2 DEF TagKept
      <4>2. ASSUME d \notin docLog'.torn, Tagging(d)' = {}
            PROVE  doc'.edges[d] = EdgesOf(docLog'.tags[d])
        <5>1. doc.edges[d] = EdgesOf(docLog.tags[d])
          BY <2>4, <3>1, <3>2, <4>2 DEF TagKept
        <5> QED BY <2>6, <3>5, <5>1
      <4>3. ASSUME d \notin docLog'.torn, NEW r \in Slots, Tagging(d)' = {r}
            PROVE  /\ doc'.node[d].there => docLog'.tags[d] = Tagged(req[r].ask.tags)'
                   /\ r \in Attaching(d)' => doc'.edges[d] = NoEdges
        <5>1. /\ doc.node[d].there => docLog.tags[d] = Tagged(req[r].ask.tags)
              /\ r \in Attaching(d) => doc.edges[d] = NoEdges
          BY <2>4, <3>1, <3>2, <4>3 DEF TagKept
        <5>2. PICK asked \in SUBSET TagSlugs : asked = req[r].ask.tags /\ req'[r] = req[r]
          BY <3>1, <3>6, <4>3
        <5>3. Tagged(asked)' = Tagged(asked) \ {t}
          BY <3>4
        <5>4. Tagged(req[r].ask.tags)' = Tagged(asked)'
          BY <5>2 DEF Tagged
        <5> QED BY <2>3, <2>6, <3>1, <3>7, <5>1, <5>2, <5>3, <5>4
      <4> QED BY <4>1, <4>2, <4>3 DEF TagKept
    <3> QED BY <3>3, <3>8
  <2>11. Numbered' /\ ThreadsHoldComments'
    BY <1>0, <2>2, <2>3, <2>4, CommentPartsStay DEF DocsInv
  <2>12. DocInv'
    BY <2>5, <2>7, <2>8, <2>9, <2>10, <2>11 DEF DocInv, TagsKept, FewEdges
  <2> QED BY <2>2, <2>12 DEF DocGoes
<1> QED BY <1>1, <1>2, <1>3

\* Every handler of Documents keeps what holds of documents.
LEMMA DocumentsKeep ==
    ASSUME DocsInv, DocumentsNext
    PROVE  DocInv' /\ \E q \in Slots : DocGoes(q)
<1>1. PICK q \in Slots : DocumentCalls(q) \/ TagCalls(q) \/ CommentCalls(q) \/ DocumentsStep(q)
  BY DEF DocumentsNext
<1>2. CASE DocumentCalls(q)
  BY <1>2, LooksKeep, DocumentGone, AttachmentGone DEF DocumentCalls
<1>3. CASE TagCalls(q)
  BY <1>3, LooksKeep, TagsKeep DEF TagCalls
<1>4. CASE CommentCalls(q)
  BY <1>4, LooksKeep, WritesKeep DEF CommentCalls
<1>5. CASE DocumentsStep(q)
  BY <1>5, ReadsKeep, SavesKeep, WritesKeep, CommentGoes, DocumentCreated, DocumentSet,
     TagsDetached, TagsAttached, TagsKeep DEF DocumentsStep
<1> QED BY <1>1, <1>2, <1>3, <1>4, <1>5

\* A request dies; the tags it was replacing stay as they are.
LEMMA DocumentsDie ==
    ASSUME DocsInv, NEW q \in Slots, DieW(q)
    PROVE  DocInv'
<1> USE DEF AtTags
<1>0. Idle.at = "idle"
  BY IdleOK
<1>1. Moves(q, Idle)
  BY DieMoves DEF DieW, DocsInv
<1>2. doc' = doc /\ doc \in DocRecord /\ docLog \in DocLogRecord
  BY DEF DieW, DocsInv, DocInv, DocTypes
<1>3. CASE ~AtTags(req[q])
  <2>1. UNCHANGED <<doc, docLog>>
    BY <1>3 DEF DieW
  <2> QED BY <1>0, <1>1, <1>3, <2>1, DocFrame DEF DocsInv
<1>4. CASE AtTags(req[q])
  <2>1. req[q].at \in {"doc.detach", "doc.attach"}
    BY <1>4
  <2>2. DocLocals(req[q])
    BY <2>1, DocStands DEF DocLabels, AskLabels
  <2>3. PICK d \in Docs : d = req[q].d
    BY <2>1, <2>2 DEF DocLocals, AskLabels
  <2>4. docLog' = [docLog EXCEPT !.torn = @ \cup {d}]
    BY <2>1, <2>3 DEF DieW
  <2>5. /\ docLog'.torn = docLog.torn \cup {d}
        /\ docLog'.born = docLog.born /\ docLog'.want = docLog.want /\ docLog'.stale = docLog.stale
        /\ docLog'.tags = docLog.tags
        /\ docLog'.threads = docLog.threads /\ docLog'.comments = docLog.comments
        /\ docLog'.home = docLog.home /\ docLog'.acks = docLog.acks
        /\ docLog'.lost = docLog.lost /\ docLog'.crossed = docLog.crossed
    BY <1>2, <2>4 DEF DocLogRecord
  <2>6. DocTypes'
    <3>1. docLog' \in DocLogRecord
      BY <1>2, <2>4 DEF DocLogRecord
    <3> QED BY <1>2, <3>1 DEF DocTypes
  <2>7. Attached'
    BY <1>2 DEF DocsInv, DocInv, Attached
  <2>8. Births'
    BY <1>0, <1>1, <1>2, <2>5, BirthsStay DEF DocsInv, DocInv, Births
  <2>9. TitlesKept'
    BY <1>2, <2>5 DEF DocsInv, DocInv, TitlesKept
  <2>10. ASSUME NEW e \in Docs PROVE TagKept(e)' /\ FewEdgesOf(e)'
    <3>1. CASE e # d
      <4>1. q \notin Tagging(e)
        BY <2>3, <3>1 DEF Tagging, Attaching, Detaching
      <4> QED BY <1>0, <1>1, <1>2, <2>5, <3>1, <4>1, OtherTagsStay
    <3>2. CASE e = d
      <4>1. TagKept(d)'
        BY <1>2, <2>5 DEF DocsInv, DocInv, TagsKept, TagKept
      <4>2. Attaching(d)' = Attaching(d) \ {q}
        BY <1>0, <1>1, TaggingMoves
      <4>3. Cardinality(Attaching(d)') <= Cardinality(Attaching(d)) /\ Cardinality(Attaching(d)') \in Nat
            /\ Cardinality(Attaching(d)) \in Nat /\ Cardinality(Slots) \in Nat
        <5>1. Attaching(d)' \subseteq Attaching(d)
          BY <4>2
        <5> QED BY <5>1, CountOn, FS_Subset, FS_CardinalityType
      <4>4. \A t \in Tags : doc.edges[d][t] \in Nat
                            /\ doc.edges[d][t] + Cardinality(Attaching(d)) <= Cardinality(Slots)
        BY <1>2 DEF DocsInv, DocInv, FewEdges, FewEdgesOf, DocRecord
      <4>5. \A t \in Tags : doc.edges[d][t] + Cardinality(Attaching(d)') <= Cardinality(Slots)
        BY <4>3, <4>4
      <4>6. FewEdgesOf(d)'
        BY <1>2, <4>5 DEF FewEdgesOf
      <4> QED BY <3>2, <4>1, <4>6
    <3> QED BY <3>1, <3>2
  <2>11. Numbered' /\ ThreadsHoldComments'
    BY <1>0, <1>1, <1>2, <2>5, CommentPartsStay DEF DocsInv
  <2> QED BY <2>6, <2>7, <2>8, <2>9, <2>10, <2>11 DEF DocInv, TagsKept, FewEdges
<1> QED BY <1>3, <1>4

\* A handler that is not of Documents leaves documents alone.
LEMMA DocumentsRest ==
    ASSUME DocsInv, NEW q \in Slots, NEW next, Moves(q, next), UNCHANGED <<doc, docLog>>,
           req[q].at \notin DocLabels, next.at \notin DocLabels
    PROVE  DocInv'
<1>1. ~AtTags(req[q]) /\ ~AtTags(next) /\ next.at # "doc.create"
      /\ next.at \notin {"comment.thread", "comment.delete"}
  BY DEF AtTags, DocLabels, AskLabels, CommentLabels
<1> QED BY <1>1, DocFrame DEF DocsInv

-----------------------------------------------------------------------------
(* The catalogue: what holds of it, when a step moves a request.            *)

\* A handler of the catalogue moves.
CatGoes(q) == \E next :
  /\ Moves(q, next)
  /\ next = Idle \/ CatLocals(next)
  /\ req[q].at \in CatLabels \cup {"idle"}

CatsInv == PoolInv /\ DocInv /\ CatInv

\* What the next await says of the kind of entries, and of the request there.
Fits(next) ==
  /\ next.at \in PlainLabels => mix \cap {"named", "webhooks", "mcp"} # {}
  /\ next.at \in TemplateLabels => "templates" \in mix
  /\ next.at \in PolicyLabels => "policies" \in mix
  /\ next.at \in BlueprintLabels => "blueprints" \in mix
  /\ next.at \in {"pol.check", "pol.set", "pol.clear"} => ~next.fresh
  /\ next.at = "pol.create" => next.seen = {}

LEMMA IdleFits == Fits(Idle) /\ Will(Idle) = {} /\ Idle.at = "idle" /\ Idle.at # "tpl.create"
BY DEF Fits, Idle, Will, PlainLabels, NamedLabels, WebhookLabels, McpLabels, TemplateLabels, PolicyLabels,
       BlueprintLabels

\* What a request that has not written yet will queue.
QuietLabels == PlainLabels \cup TemplateLabels
               \cup {"idle", "pol.create", "pol.check", "pol.set", "pol.delete", "blu.create", "blu.save",
                     "blu.delete"}

LEMMA QuietWill ==
    ASSUME NEW l, l.at \in QuietLabels
    PROVE  Will(l) = {}
BY DEF Will, QuietLabels, PlainLabels, NamedLabels, WebhookLabels, McpLabels, TemplateLabels

\* A kind rules the others out.
LEMMA KindsApart ==
    ASSUME CatsInv
    PROVE  /\ "templates" \in mix => /\ mix \cap {"named", "webhooks", "mcp"} = {}
                                     /\ "policies" \notin mix /\ "blueprints" \notin mix
           /\ "policies" \in mix => "blueprints" \notin mix /\ mix \cap {"named", "webhooks", "mcp"} = {}
<1>1. \A a, b \in mix \cap Kinds : a = b
  BY CatalogueAssumption DEF CatsInv, PoolInv, PoolTypeOK
<1> QED BY <1>1 DEF Kinds

LEMMA CoversLive ==
    ASSUME NEW S
    PROVE  Covers(S) \subseteq cat.type
BY DEF Covers

\* The debts after a step: what is owed anew is what this request will queue,
\* and what it no longer will queue is not owed.
LEMMA OwingGoes ==
    ASSUME CatsInv, NEW q \in Slots, NEW next, Moves(q, next), Fits(next),
           cat'.type = cat.type, catLog'.owed \subseteq cat.type,
           catLog'.doubled => "templates" \in mix,
           ~catLog'.met => ~catLog.met /\ \A x \in catLog'.owed :
             x \in Will(next) \/ (x \in catLog.owed /\ x \notin Will(req[q]))
    PROVE  Owing' /\ OneKind'
<1>1. \A l : Will(l)' = Will(l)
  BY DEF Will, Covers
<1>2. ASSUME faults' = 0, ~catLog'.met, NEW x \in catLog'.owed
      PROVE  \E r \in Slots : x \in Will(req'[r])
  <2>1. faults = 0
    BY <1>2 DEF Moves, CatsInv, PoolInv, PoolTypeOK
  <2>2. CASE x \in Will(next)
    BY <2>2 DEF Moves
  <2>3. CASE x \in catLog.owed /\ x \notin Will(req[q])
    <3>1. PICK r \in Slots : x \in Will(req[r])
      BY <1>2, <2>1, <2>3 DEF CatsInv, CatInv, Owing
    <3> QED BY <2>3, <3>1 DEF Moves
  <2> QED BY <1>2, <2>2, <2>3
<1>3. faults' = 0 /\ ~catLog'.met => catLog'.owed \subseteq UNION {Will(req[r])' : r \in Slots}
  <2>1. \A r \in Slots : Will(req[r])' = Will(req'[r])
    BY DEF Will, Covers
  <2> QED BY <1>2, <2>1
<1>4. \A r \in Slots : /\ req'[r].at \in {"pol.check", "pol.set", "pol.clear"} => ~req'[r].fresh
                       /\ req'[r].at = "pol.create" => req'[r].seen = {}
  BY DEF Moves, Fits, CatsInv, CatInv, Owing
<1>5. mix' = mix
  BY DEF Moves
<1>6. OneKind'
  BY <1>5 DEF Moves, Fits, CatsInv, CatInv, OneKind
<1> QED BY <1>3, <1>4, <1>5, <1>6 DEF Owing

\* Slugs name one entry after a step, too, and none of those about to be made.
NamesGo(q) == ~catLog'.doubled =>
  /\ \A e, o \in Entries :
       cat'.node[e].there /\ cat'.node[o].there /\ cat'.node[e].slug = cat'.node[o].slug => e = o
  /\ \A r \in Slots, e \in Entries : r # q /\ req[r].at = "tpl.create" =>
       ~(cat'.node[e].there /\ cat'.node[e].slug = req[r].slug)

\* Entries are as they were, but for links, or gone.
NodesSound == \A e \in Entries :
  /\ cat'.node[e].there <=> cat'.node[e].slug # None
  /\ cat'.node[e].links \subseteq cat.node[e].links \cup cat.type \cup {t \in Tags : doc.tag[t].slug # None}

LEMMA NodesKeep ==
    ASSUME CatsInv, NEW q \in Slots, NEW next, Moves(q, next), Fits(next), next.at # "tpl.create",
           doc' = doc, cat' \in CatRecord, catLog' \in CatLogRecord, cat'.type = cat.type,
           NodesSound, NamesGo(q), EntriesAsAsked', Owing'
    PROVE  CatInv'
<1>1. OneKind'
  BY DEF Moves, Fits, CatsInv, CatInv, OneKind
<1>2. Linked'
  <2>1. mix' = mix
    BY DEF Moves
  <2>2. \A e \in Entries : cat'.node[e].links \subseteq cat'.type \cup {t \in Tags : doc'.tag[t].slug # None}
    BY DEF CatsInv, CatInv, Linked, NodesSound
  <2> QED BY <2>1, <2>2 DEF CatsInv, CatInv, Linked, NodesSound, Here
<1>3. Unique'
  <2>1. ASSUME ~catLog'.doubled, NEW r \in Slots, req'[r].at = "tpl.create"
        PROVE  \A e \in Entries : ~(cat'.node[e].there /\ cat'.node[e].slug = req'[r].slug)
    BY <2>1 DEF Moves, NamesGo
  <2>2. ASSUME ~catLog'.doubled, NEW r \in Slots, req'[r].at = "tpl.create"
        PROVE  Named(req[r].slug)' = {}
    BY <2>1, <2>2 DEF Named, Here
  <2> QED BY <2>2 DEF Unique, NamesGo, Here, At
<1> QED BY <1>1, <1>2, <1>3 DEF CatInv, CatTypes

\* No entry has a slug it had not.
LEMMA NamesFewer ==
    ASSUME CatsInv, NEW q \in Slots, catLog.doubled => catLog'.doubled,
           \A e \in Entries : cat'.node[e].there =>
             cat.node[e].there /\ cat'.node[e].slug = cat.node[e].slug
    PROVE  NamesGo(q)
<1>1. ASSUME ~catLog'.doubled, NEW r \in Slots, req[r].at = "tpl.create", NEW e \in Entries
      PROVE  ~(cat.node[e].there /\ cat.node[e].slug = req[r].slug)
  <2>1. Named(req[r].slug) = {}
    BY <1>1 DEF CatsInv, CatInv, Unique, At
  <2> QED BY <2>1 DEF Named, Here
<1> QED BY <1>1 DEF NamesGo, CatsInv, CatInv, Unique, Here

\* One entry takes a slug that no other has.
LEMMA OneNamed ==
    ASSUME CatsInv, NEW q \in Slots, catLog.doubled => catLog'.doubled, "templates" \notin mix,
           NEW e \in Entries, Named(cat'.node[e].slug) \ {e} = {},
           \A o \in Entries : o # e => cat'.node[o] = cat.node[o]
    PROVE  NamesGo(q)
<1>1. \A r \in Slots : req[r].at # "tpl.create"
  BY DEF CatsInv, CatInv, OneKind, TemplateLabels
<1>2. \A o \in Entries : o # e /\ cat.node[o].there => cat.node[o].slug # cat'.node[e].slug
  BY DEF Named, Here
<1>3. ASSUME ~catLog'.doubled, NEW a \in Entries, NEW b \in Entries,
             cat'.node[a].there, cat'.node[b].there, cat'.node[a].slug = cat'.node[b].slug, a # b
      PROVE  FALSE
  <2>1. CASE a # e /\ b # e
    BY <1>3, <2>1 DEF CatsInv, CatInv, Unique, Here
  <2>2. CASE a = e \/ b = e
    BY <1>2, <1>3, <2>2
  <2> QED BY <2>1, <2>2
<1> QED BY <1>1, <1>3 DEF NamesGo

\* An entry is written as asked: made, or gone.
LEMMA Placed ==
    ASSUME CatsInv, NEW e \in Entries, NEW n \in EntryNode,
           n.there <=> n.slug # None, n.links \subseteq cat.type,
           cat' = [cat EXCEPT !.node[e] = n],
           catLog' \in CatLogRecord, catLog'.want = [catLog.want EXCEPT ![e] = n],
           catLog.stale \subseteq catLog'.stale \cup {e}, \A k \in catLog.kept : k[1] # e => k \in catLog'.kept
    PROVE  /\ cat' \in CatRecord /\ cat'.type = cat.type /\ cat'.node[e] = n
           /\ \A o \in Entries : o # e => cat'.node[o] = cat.node[o]
           /\ NodesSound /\ EntriesAsAsked'
<1>1. cat \in CatRecord /\ catLog \in CatLogRecord
  BY DEF CatsInv, CatInv, CatTypes
<1>2. cat' \in CatRecord
  BY <1>1 DEF CatRecord
<1>3. cat'.node = [cat.node EXCEPT ![e] = n] /\ cat'.type = cat.type
  BY <1>1 DEF CatRecord
<1>4. cat'.node[e] = n /\ \A o \in Entries : o # e => cat'.node[o] = cat.node[o]
  BY <1>1, <1>3 DEF CatRecord
<1>5. catLog'.want[e] = n /\ \A o \in Entries : o # e => catLog'.want[o] = catLog.want[o]
  BY <1>1 DEF CatLogRecord
<1>6. NodesSound
  BY <1>4 DEF NodesSound, CatsInv, CatInv, Linked, Here
<1>7. EntriesAsAsked'
  BY <1>4, <1>5 DEF EntriesAsAsked, BearsAsked, CatsInv, CatInv, Here
<1> QED BY <1>2, <1>3, <1>4, <1>6, <1>7

\* A step that writes no entry.
LEMMA CatStays ==
    ASSUME CatsInv, NEW q \in Slots, NEW next, Moves(q, next), Fits(next), UNCHANGED <<cat, catLog>>,
           doc'.tag = doc.tag, next.at = "tpl.create" => Named(next.slug) = {}
    PROVE  CatTypes' /\ OneKind' /\ Linked' /\ Unique' /\ EntriesAsAsked'
<1>1. OneKind'
  BY DEF Moves, Fits, CatsInv, CatInv, OneKind
<1>2. Linked'
  <2>1. mix' = mix
    BY DEF Moves
  <2> QED BY <2>1 DEF CatsInv, CatInv, Linked, Here
<1>3. Unique'
  <2>1. \A s : Named(s)' = Named(s)
    BY DEF Named, Here
  <2>2. ASSUME ~catLog.doubled, NEW r \in Slots, req'[r].at = "tpl.create"
        PROVE  Named(req'[r].slug) = {}
    BY <2>2 DEF Moves, CatsInv, CatInv, Unique, At
  <2>3. ASSUME ~catLog.doubled, NEW r \in Slots, req'[r].at = "tpl.create"
        PROVE  Named(req[r].slug)' = {}
    BY <2>2, <2>3 DEF Named, Here
  <2> QED BY <2>3 DEF CatsInv, CatInv, Unique, Here, At
<1>4. EntriesAsAsked' /\ CatTypes'
  BY DEF CatsInv, CatInv, EntriesAsAsked, BearsAsked, CatTypes, Here
<1> QED BY <1>1, <1>2, <1>3, <1>4

LEMMA CatFrame ==
    ASSUME CatsInv, NEW q \in Slots, NEW next, Moves(q, next), Fits(next), UNCHANGED <<cat, catLog>>,
           doc'.tag = doc.tag, Will(req[q]) \subseteq Will(next),
           next.at = "tpl.create" => Named(next.slug) = {}
    PROVE  CatInv'
<1>1. Owing'
  BY OwingGoes DEF CatsInv, CatInv, Owing
<1> QED BY <1>1, CatStays DEF CatInv

LEMMA LookCKeeps ==
    ASSUME CatsInv, NEW q \in Slots, NEW next, LookC(q, next), doc' = doc, CatLocals(next), Fits(next),
           next.at # "tpl.create"
    PROVE  CatGoes(q) /\ CatInv'
<1>1. Begin(q, next) /\ UNCHANGED <<cat, catLog>>
  BY DEF LookC, catVars
<1>2. Moves(q, next) /\ req[q].at = "idle"
  BY <1>1, BeginMoves DEF CatsInv
<1>3. Will(req[q]) = {}
  BY <1>2, QuietWill DEF QuietLabels
<1>4. CatInv'
  BY <1>1, <1>2, <1>3, CatFrame
<1> QED BY <1>2, <1>4 DEF CatGoes

LEMMA WaitCKeeps ==
    ASSUME CatsInv, NEW q \in Slots, NEW next, NEW label, WaitC(q, label, next), doc' = doc,
           label \in CatLabels, next = Idle \/ CatLocals(next), Fits(next), label \in QuietLabels,
           next.at = "tpl.create" => Named(next.slug) = {}
    PROVE  CatGoes(q) /\ CatInv'
<1>1. Step(q, label, next) /\ UNCHANGED <<cat, catLog>>
  BY DEF WaitC, catVars
<1>2. Moves(q, next) /\ req[q].at = label
  BY <1>1, StepMoves DEF CatsInv
<1>3. Will(req[q]) = {}
  BY <1>2, QuietWill
<1>4. CatInv'
  BY <1>1, <1>2, <1>3, CatFrame
<1> QED BY <1>2, <1>4 DEF CatGoes

LEMMA WaitCEnds ==
    ASSUME CatsInv, NEW q \in Slots, NEW label, WaitC(q, label, Idle), doc' = doc,
           label \in CatLabels, label \in QuietLabels
    PROVE  CatGoes(q) /\ CatInv'
BY IdleFits, WaitCKeeps

\* What a handler of the catalogue holds, where it stands.
LEMMA CatStands ==
    ASSUME CatsInv, NEW q \in Slots, req[q].at \in CatLabels
    PROVE  CatLocals(req[q]) /\ Fits(req[q])
<1>1. CatLocals(req[q])
  BY WhereItStands DEF CatsInv, PoolInv
<1>2. Fits(req[q])
  BY DEF Fits, CatsInv, CatInv, OneKind, Owing
<1> QED BY <1>1, <1>2

\* An entry that is there has a slug, and is what a handler may have read.
LEMMA EntryRead ==
    ASSUME CatsInv, NEW e \in Entries, Here(e)
    PROVE  cat.node[e] \in EntryNode /\ cat.node[e].there /\ cat.node[e].slug \in TagSlugs
<1>1. cat.node[e] \in EntryNode
  BY DEF CatsInv, CatInv, CatTypes, CatRecord
<1>2. cat.node[e].slug \in TagSlugs \cup {None} /\ cat.node[e].slug # None
  BY <1>1 DEF CatsInv, CatInv, Linked, EntryNode
<1> QED BY <1>1, <1>2 DEF Here

-----------------------------------------------------------------------------
(* The catalogue: the handlers that write nothing yet.                      *)

LEMMA PlainLooksKeep ==
    ASSUME CatsInv, NEW q \in Slots, doc' = doc, mix \cap {"named", "webhooks", "mcp"} # {},
           \/ PatchNamed(q) \/ CreateWebhook(q) \/ PatchWebhook(q) \/ UpdateMcpServer(q)
           \/ TestMcpServer(q) \/ ReportMcpServerStatus(q)
    PROVE  CatGoes(q) /\ CatInv'
<1> USE DEF CatLabels, PlainLabels, NamedLabels, WebhookLabels, McpLabels, TemplateLabels, PolicyLabels,
            BlueprintLabels, HasEntry, HasSlug, HasPatch, HasTo, HasEntryRead, HasLinks
<1>a. /\ Changes({"name"}) \subseteq Changes(Fields) /\ Changes({"status"}) \subseteq Changes(Fields)
      /\ Free \subseteq Entries
  BY DEF Changes, Fields, Free
<1>1. CASE PatchNamed(q)
  <2>1. PICK e \in Entries, s \in TagSlugs, ask \in Changes(Fields) : /\ Here(e)
          /\ LookC(q, [at |-> "named.save", slug |-> cat.node[e].slug, to |-> s, ask |-> ask,
                       read |-> cat.node[e]])
    BY <1>1 DEF PatchNamed
  <2> DEFINE next == [at |-> "named.save", slug |-> cat.node[e].slug, to |-> s, ask |-> ask,
                      read |-> cat.node[e]]
  <2>2. CatLocals(next) /\ Fits(next)
    BY <2>1, EntryRead DEF CatLocals, Fits
  <2> QED BY <2>1, <2>2, LookCKeeps
<1>2. CASE CreateWebhook(q)
  <2>1. PICK e \in Free, s \in TagSlugs : LookC(q, [at |-> "hook.create", e |-> e, slug |-> s])
    BY <1>2 DEF CreateWebhook
  <2> DEFINE next == [at |-> "hook.create", e |-> e, slug |-> s]
  <2>2. CatLocals(next) /\ Fits(next)
    BY <1>a DEF CatLocals, Fits
  <2> QED BY <2>1, <2>2, LookCKeeps
<1>3. CASE PatchWebhook(q)
  <2>1. PICK e \in Entries, s \in TagSlugs, ask \in Changes({"name"}) : /\ Here(e)
          /\ LookC(q, [at |-> IF s = cat.node[e].slug THEN "id.save" ELSE "hook.look",
                       e |-> e, slug |-> s, ask |-> ask, read |-> cat.node[e]])
    BY <1>3 DEF PatchWebhook
  <2> DEFINE next == [at |-> IF s = cat.node[e].slug THEN "id.save" ELSE "hook.look",
                      e |-> e, slug |-> s, ask |-> ask, read |-> cat.node[e]]
  <2>2. CatLocals(next) /\ Fits(next) /\ next.at # "tpl.create"
    BY <1>a, <2>1, EntryRead DEF CatLocals, Fits
  <2> QED BY <2>1, <2>2, LookCKeeps
<1>4. CASE UpdateMcpServer(q)
  <2>1. PICK e \in Entries, s \in TagSlugs, ask \in Changes({"name"}) : /\ Here(e)
          /\ LookC(q, [at |-> "id.save", e |-> e, slug |-> s, ask |-> ask, read |-> cat.node[e]])
    BY <1>4 DEF UpdateMcpServer
  <2> DEFINE next == [at |-> "id.save", e |-> e, slug |-> s, ask |-> ask, read |-> cat.node[e]]
  <2>2. CatLocals(next) /\ Fits(next)
    BY <1>a, <2>1, EntryRead DEF CatLocals, Fits
  <2> QED BY <2>1, <2>2, LookCKeeps
<1>5. CASE TestMcpServer(q)
  <2>1. PICK e \in Entries : /\ Here(e)
          /\ LookC(q, [at |-> "mcp.call", e |-> e, read |-> cat.node[e]])
    BY <1>5 DEF TestMcpServer
  <2> DEFINE next == [at |-> "mcp.call", e |-> e, read |-> cat.node[e]]
  <2>2. CatLocals(next) /\ Fits(next)
    BY <2>1, EntryRead DEF CatLocals, Fits
  <2> QED BY <2>1, <2>2, LookCKeeps
<1>6. CASE ReportMcpServerStatus(q)
  <2>1. PICK e \in Entries, ask \in Changes({"status"}) : /\ Here(e)
          /\ LookC(q, [at |-> "id.save", e |-> e, slug |-> cat.node[e].slug, ask |-> ask,
                       read |-> cat.node[e]])
    BY <1>6 DEF ReportMcpServerStatus
  <2> DEFINE next == [at |-> "id.save", e |-> e, slug |-> cat.node[e].slug, ask |-> ask,
                      read |-> cat.node[e]]
  <2>2. CatLocals(next) /\ Fits(next)
    BY <1>a, <2>1, EntryRead DEF CatLocals, Fits
  <2> QED BY <2>1, <2>2, LookCKeeps
<1> QED BY <1>1, <1>2, <1>3, <1>4, <1>5, <1>6

LEMMA OtherLooksKeep ==
    ASSUME CatsInv, NEW q \in Slots, doc' = doc,
           \/ "templates" \in mix /\ (CreateTemplate(q) \/ UpdateTemplate(q))
           \/ "policies" \in mix /\ (CreatePolicy(q) \/ UpdatePolicy(q) \/ DeletePolicy(q))
           \/ "blueprints" \in mix /\ (CreateBlueprint(q) \/ PatchBlueprint(q) \/ DeleteBlueprint(q))
    PROVE  CatGoes(q) /\ CatInv'
<1> USE DEF CatLabels, PlainLabels, NamedLabels, WebhookLabels, McpLabels, TemplateLabels, PolicyLabels,
            BlueprintLabels, HasEntry, HasSlug, HasPatch, HasTo, HasEntryRead, HasLinks
<1>a. Changes({"name"}) \subseteq Changes(Fields) /\ Free \subseteq Entries
  BY DEF Changes, Fields, Free
<1>b. cat.type \subseteq Types /\ SlugsInUse \subseteq TagSlugs
  BY DEF CatsInv, CatInv, CatTypes, CatRecord, SlugsInUse, DocInv, DocTypes, DocRecord, TagNode
<1>1. CASE "templates" \in mix /\ CreateTemplate(q)
  <2>1. PICK e \in Free, s \in TagSlugs, slugs \in SUBSET SlugsInUse :
          LookC(q, [at |-> "tpl.look", e |-> e, slug |-> s, tags |-> slugs])
    BY <1>1 DEF CreateTemplate
  <2> DEFINE next == [at |-> "tpl.look", e |-> e, slug |-> s, tags |-> slugs]
  <2>2. CatLocals(next) /\ Fits(next)
    BY <1>a, <1>b, <1>1 DEF CatLocals, Fits
  <2> QED BY <2>1, <2>2, LookCKeeps
<1>2. CASE "templates" \in mix /\ UpdateTemplate(q)
  <2>1. PICK e \in Entries, s \in TagSlugs, ask \in Changes({"name"}), slugs \in SUBSET TagSlugs,
             given \in BOOLEAN : /\ Here(e)
          /\ LookC(q, [at |-> IF slugs # {} THEN "tpl.check" ELSE SetNext(cat.node[e].slug, s),
                       slug |-> cat.node[e].slug, to |-> s, ask |-> ask, given |-> given, tags |-> slugs,
                       read |-> cat.node[e]])
    BY <1>2 DEF UpdateTemplate
  <2>a. PICK label \in {"tpl.check", "tpl.set", "tpl.rename"} :
          label = IF slugs # {} THEN "tpl.check" ELSE SetNext(cat.node[e].slug, s)
    BY DEF SetNext
  <2> DEFINE next == [at |-> label, slug |-> cat.node[e].slug, to |-> s, ask |-> ask, given |-> given,
                      tags |-> slugs, read |-> cat.node[e]]
  <2>2. CatLocals(next) /\ Fits(next) /\ next.at # "tpl.create"
    BY <1>a, <1>2, <2>1, EntryRead DEF CatLocals, Fits
  <2>3. LookC(q, next)
    BY <2>1, <2>a
  <2> QED BY <2>2, <2>3, LookCKeeps
<1>3. CASE "policies" \in mix /\ CreatePolicy(q)
  <2>1. PICK e \in Free, s \in TagSlugs, T \in SUBSET cat.type :
          LookC(q, [at |-> "pol.create", e |-> e, slug |-> s, links |-> T, seen |-> {}, was |-> {},
                    fresh |-> TRUE])
    BY <1>3 DEF CreatePolicy
  <2> DEFINE next == [at |-> "pol.create", e |-> e, slug |-> s, links |-> T, seen |-> {}, was |-> {},
                      fresh |-> TRUE]
  <2>2. CatLocals(next) /\ Fits(next)
    BY <1>a, <1>b, <1>3 DEF CatLocals, Fits
  <2> QED BY <2>1, <2>2, LookCKeeps
<1>4. CASE "policies" \in mix /\ UpdatePolicy(q)
  <2>1. PICK e \in Entries, ask \in Changes({"name"}), T \in SUBSET Types : /\ Here(e)
          /\ LookC(q, [at |-> IF T \in {cat.node[e].links, {}} THEN "pol.set" ELSE "pol.check",
                       slug |-> cat.node[e].slug, links |-> T, seen |-> cat.node[e].links,
                       was |-> cat.node[e].links, fresh |-> FALSE, ask |-> ask, read |-> cat.node[e]])
    BY <1>4 DEF UpdatePolicy
  <2> DEFINE next == [at |-> IF T \in {cat.node[e].links, {}} THEN "pol.set" ELSE "pol.check",
                      slug |-> cat.node[e].slug, links |-> T, seen |-> cat.node[e].links,
                      was |-> cat.node[e].links, fresh |-> FALSE, ask |-> ask, read |-> cat.node[e]]
  <2>2. CatLocals(next) /\ Fits(next) /\ next.at # "tpl.create"
    BY <1>a, <1>4, <2>1, EntryRead DEF CatLocals, Fits
  <2> QED BY <2>1, <2>2, LookCKeeps
<1>5. CASE "policies" \in mix /\ DeletePolicy(q)
  <2>1. PICK e \in Entries : /\ Here(e)
          /\ LookC(q, [at |-> "pol.delete", slug |-> cat.node[e].slug,
                       seen |-> cat.node[e].links, was |-> cat.node[e].links])
    BY <1>5 DEF DeletePolicy
  <2> DEFINE next == [at |-> "pol.delete", slug |-> cat.node[e].slug,
                      seen |-> cat.node[e].links, was |-> cat.node[e].links]
  <2>2. CatLocals(next) /\ Fits(next)
    BY <1>5, <2>1, EntryRead DEF CatLocals, Fits
  <2> QED BY <2>1, <2>2, LookCKeeps
<1>6. CASE "blueprints" \in mix /\ CreateBlueprint(q)
  <2>1. PICK s \in TagSlugs, v \in Values, T \in SUBSET Types :
          LookC(q, [at |-> "blu.create", slug |-> s, links |-> T, ask |-> [f |-> "name", v |-> v]])
    BY <1>6 DEF CreateBlueprint
  <2> DEFINE next == [at |-> "blu.create", slug |-> s, links |-> T, ask |-> [f |-> "name", v |-> v]]
  <2>2. [f |-> "name", v |-> v] \in Changes(Fields)
    BY DEF Changes, Fields
  <2>3. CatLocals(next) /\ Fits(next)
    BY <1>6, <2>1, <2>2 DEF CatLocals, Fits
  <2> QED BY <2>1, <2>3, LookCKeeps
<1>7. CASE "blueprints" \in mix /\ PatchBlueprint(q)
  <2>1. PICK e \in Entries, ask \in Changes({"name"}), T \in SUBSET Types : /\ Here(e)
          /\ LookC(q, [at |-> "blu.save", slug |-> cat.node[e].slug, links |-> T, ask |-> ask,
                       read |-> cat.node[e]])
    BY <1>7 DEF PatchBlueprint
  <2> DEFINE next == [at |-> "blu.save", slug |-> cat.node[e].slug, links |-> T, ask |-> ask,
                      read |-> cat.node[e]]
  <2>2. CatLocals(next) /\ Fits(next)
    BY <1>a, <1>7, <2>1, EntryRead DEF CatLocals, Fits
  <2> QED BY <2>1, <2>2, LookCKeeps
<1>8. CASE "blueprints" \in mix /\ DeleteBlueprint(q)
  <2>1. PICK e \in Entries : /\ Here(e)
          /\ LookC(q, [at |-> "blu.delete", slug |-> cat.node[e].slug, links |-> cat.node[e].links])
    BY <1>8 DEF DeleteBlueprint
  <2> DEFINE next == [at |-> "blu.delete", slug |-> cat.node[e].slug, links |-> cat.node[e].links]
  <2>2. CatLocals(next) /\ Fits(next)
    BY <1>8, <2>1, EntryRead DEF CatLocals, Fits
  <2> QED BY <2>1, <2>2, LookCKeeps
<1> QED BY <1>1, <1>2, <1>3, <1>4, <1>5, <1>6, <1>7, <1>8

\* The handlers that wait once more without having written.
LEMMA CatReadsKeep ==
    ASSUME CatsInv, NEW q \in Slots, doc' = doc,
           \/ CheckIdentifierCollision(q) \/ TestAnswers(q) \/ DuplicateLook(q)
           \/ ValidateTemplateTags(q) \/ ValidateTargets(q) \/ RenameLook(q)
    PROVE  CatGoes(q) /\ CatInv'
<1> USE DEF CatLabels, PlainLabels, NamedLabels, WebhookLabels, McpLabels, TemplateLabels, PolicyLabels,
            BlueprintLabels, HasEntry, HasSlug, HasPatch, HasTo, HasEntryRead, HasLinks, QuietLabels
<1>1. CASE CheckIdentifierCollision(q)
  <2>1. req[q].at = "hook.look"
    BY <1>1 DEF CheckIdentifierCollision, WaitC, Step, At
  <2>2. CatLocals(req[q]) /\ Fits(req[q])
    BY <2>1, CatStands
  <2>3. CatLocals(To(q, "id.save")) /\ Fits(To(q, "id.save")) /\ To(q, "id.save").at = "id.save"
    BY <2>1, <2>2 DEF CatLocals, To, Fits
  <2>4. WaitC(q, "hook.look", Idle) \/ WaitC(q, "hook.look", To(q, "id.save"))
    BY <1>1 DEF CheckIdentifierCollision
  <2> QED BY <2>3, <2>4, WaitCEnds, WaitCKeeps
<1>2. CASE TestAnswers(q)
  <2>1. req[q].at = "mcp.call"
    BY <1>2 DEF TestAnswers, At
  <2>2. CatLocals(req[q]) /\ Fits(req[q])
    BY <2>1, CatStands
  <2>3. PICK v \in Values : WaitC(q, "mcp.call",
          With(To(q, "id.save"), [slug |-> req[q].read.slug, ask |-> [f |-> "status", v |-> v]]))
    BY <1>2 DEF TestAnswers
  <2> DEFINE next == With(To(q, "id.save"), [slug |-> req[q].read.slug, ask |-> [f |-> "status", v |-> v]])
  <2>4. [f |-> "status", v |-> v] \in Changes(Fields)
    BY DEF Changes, Fields
  <2>5. /\ DOMAIN next = DOMAIN req[q] \cup {"slug", "ask"}
        /\ next.at = "id.save" /\ next.e = req[q].e /\ next.read = req[q].read
        /\ next.slug = req[q].read.slug /\ next.ask = [f |-> "status", v |-> v]
    BY <2>1, <2>2 DEF CatLocals, To, With
  <2>6. CatLocals(next)
    BY <2>1, <2>2, <2>4, <2>5 DEF CatLocals
  <2>7. Fits(next)
    BY <2>1, <2>2, <2>5 DEF Fits
  <2> QED BY <2>3, <2>5, <2>6, <2>7, WaitCKeeps
<1>3. CASE DuplicateLook(q)
  <2>1. req[q].at = "tpl.look"
    BY <1>3 DEF DuplicateLook, WaitC, Step, At
  <2>2. CatLocals(req[q]) /\ Fits(req[q])
    BY <2>1, CatStands
  <2>3. /\ CatLocals(To(q, "tpl.create")) /\ Fits(To(q, "tpl.create"))
        /\ To(q, "tpl.create").slug = req[q].slug
    BY <2>1, <2>2 DEF CatLocals, To, Fits
  <2>4. WaitC(q, "tpl.look", Idle) \/ (Named(req[q].slug) = {} /\ WaitC(q, "tpl.look", To(q, "tpl.create")))
    BY <1>3 DEF DuplicateLook
  <2> QED BY <2>3, <2>4, WaitCEnds, WaitCKeeps
<1>4. CASE ValidateTemplateTags(q)
  <2>1. req[q].at = "tpl.check"
    BY <1>4 DEF ValidateTemplateTags, WaitC, Step, At
  <2>2. CatLocals(req[q]) /\ Fits(req[q])
    BY <2>1, CatStands
  <2>3. /\ CatLocals(To(q, "tpl.set")) /\ Fits(To(q, "tpl.set")) /\ To(q, "tpl.set").at = "tpl.set"
        /\ CatLocals(To(q, "tpl.rename")) /\ Fits(To(q, "tpl.rename"))
        /\ To(q, "tpl.rename").at = "tpl.rename"
    BY <2>1, <2>2 DEF CatLocals, To, Fits
  <2>4. \/ WaitC(q, "tpl.check", Idle) \/ WaitC(q, "tpl.check", To(q, "tpl.set"))
        \/ WaitC(q, "tpl.check", To(q, "tpl.rename"))
    BY <1>4 DEF ValidateTemplateTags, SetNext
  <2> QED BY <2>3, <2>4, WaitCEnds, WaitCKeeps
<1>5. CASE ValidateTargets(q)
  <2>1. req[q].at = "pol.check"
    BY <1>5 DEF ValidateTargets, WaitC, Step, At
  <2>2. CatLocals(req[q]) /\ Fits(req[q])
    BY <2>1, CatStands
  <2>3. CatLocals(To(q, "pol.set")) /\ Fits(To(q, "pol.set")) /\ To(q, "pol.set").at = "pol.set"
    BY <2>1, <2>2 DEF CatLocals, To, Fits
  <2>4. WaitC(q, "pol.check", Idle) \/ WaitC(q, "pol.check", To(q, "pol.set"))
    BY <1>5 DEF ValidateTargets
  <2> QED BY <2>3, <2>4, WaitCEnds, WaitCKeeps
<1>6. CASE RenameLook(q)
  <2>1. req[q].at = "tpl.rename"
    BY <1>6 DEF RenameLook, WaitC, Step, At
  <2>2. CatLocals(req[q]) /\ Fits(req[q])
    BY <2>1, CatStands
  <2>3. CatLocals(To(q, "tpl.set")) /\ Fits(To(q, "tpl.set")) /\ To(q, "tpl.set").at = "tpl.set"
    BY <2>1, <2>2 DEF CatLocals, To, Fits
  <2>4. WaitC(q, "tpl.rename", Idle) \/ WaitC(q, "tpl.rename", To(q, "tpl.set"))
    BY <1>6 DEF RenameLook
  <2> QED BY <2>3, <2>4, WaitCEnds, WaitCKeeps
<1> QED BY <1>1, <1>2, <1>3, <1>4, <1>5, <1>6

-----------------------------------------------------------------------------
(* The catalogue: entries that are made or go.                              *)

LEMMA MadeOK ==
    /\ \A s \in TagSlugs, S \in SUBSET (Types \cup Tags) :
         /\ Made(s, S) \in EntryNode /\ Made(s, S).there /\ Made(s, S).slug = s /\ s # None
         /\ Made(s, S).links = S
    /\ Gone \in EntryNode /\ ~Gone.there /\ Gone.slug = None /\ Gone.links = {}
<1>1. Fresh \in [Fields -> Values]
  BY DEF Fresh, Values
<1> QED BY <1>1, DocumentsAssumption DEF Made, Gone, EntryNode

\* An entry is made under a slug no other bears.
LEMMA MadeKeeps ==
    ASSUME CatsInv, NEW q \in Slots, NEW next, Moves(q, next), Fits(next), next.at # "tpl.create", doc' = doc,
           "templates" \notin mix,
           NEW e \in Entries, NEW n \in EntryNode, n.there, n.slug \in TagSlugs, n.links \subseteq cat.type,
           Named(n.slug) \ {e} = {},
           cat' = [cat EXCEPT !.node[e] = n], catLog' \in CatLogRecord,
           catLog'.want = [catLog.want EXCEPT ![e] = n], catLog.stale \subseteq catLog'.stale \cup {e},
           catLog'.doubled = catLog.doubled, \A k \in catLog.kept : k[1] # e => k \in catLog'.kept, Owing'
    PROVE  CatInv'
<1>1. n.there <=> n.slug # None
  BY DocumentsAssumption
<1>2. /\ cat' \in CatRecord /\ cat'.type = cat.type /\ cat'.node[e] = n
      /\ \A o \in Entries : o # e => cat'.node[o] = cat.node[o]
      /\ NodesSound /\ EntriesAsAsked'
  BY <1>1, Placed
<1>3. NamesGo(q)
  BY <1>2, OneNamed
<1> QED BY <1>2, <1>3, NodesKeep

\* What Put does to the log.
LEMMA PutLog ==
    ASSUME CatsInv, NEW e \in Entries, NEW n \in EntryNode, Put(e, n)
    PROVE  /\ cat' = [cat EXCEPT !.node[e] = n] /\ cat'.type = cat.type
           /\ catLog' \in CatLogRecord
           /\ catLog'.want = [catLog.want EXCEPT ![e] = n] /\ catLog.stale \subseteq catLog'.stale \cup {e}
           /\ \A k \in catLog.kept : k[1] # e => k \in catLog'.kept
           /\ catLog'.doubled = catLog.doubled /\ catLog'.owed = catLog.owed /\ catLog'.met = catLog.met
<1>1. cat \in CatRecord /\ catLog \in CatLogRecord
  BY DEF CatsInv, CatInv, CatTypes
<1>2. catLog' = [catLog EXCEPT !.want[e] = n, !.stale = @ \ {e}, !.kept = {k \in @ : k[1] # e}]
      /\ cat' = [cat EXCEPT !.node[e] = n]
  BY DEF Put
<1>3. catLog' \in CatLogRecord
  BY <1>1, <1>2 DEF CatLogRecord
<1>4. /\ catLog'.want = [catLog.want EXCEPT ![e] = n] /\ catLog'.stale = catLog.stale \ {e}
      /\ catLog'.kept = {k \in catLog.kept : k[1] # e}
      /\ catLog'.doubled = catLog.doubled /\ catLog'.owed = catLog.owed /\ catLog'.met = catLog.met
  BY <1>1, <1>2 DEF CatLogRecord
<1> QED BY <1>1, <1>2, <1>3, <1>4 DEF CatRecord

\* Nothing more is owed, and the request was to queue nothing.
LEMMA OwingRests ==
    ASSUME CatsInv, NEW q \in Slots, NEW next, Moves(q, next), Fits(next), Will(req[q]) = {},
           cat'.type = cat.type, catLog'.owed = catLog.owed, catLog'.doubled = catLog.doubled,
           ~catLog'.met => ~catLog.met
    PROVE  Owing'
BY OwingGoes DEF CatsInv, CatInv, Owing

LEMMA NamedMade ==
    ASSUME CatsInv, NEW q \in Slots, doc' = doc,
           \/ mix \cap {"named", "webhooks", "mcp"} # {} /\ CreateNamed(q)
           \/ CreateWebhookNode(q)
    PROVE  CatGoes(q) /\ CatInv'
<1> USE DEF CatLabels, PlainLabels, NamedLabels, WebhookLabels, McpLabels, HasEntry, HasSlug, QuietLabels
<1>1. CASE mix \cap {"named", "webhooks", "mcp"} # {} /\ CreateNamed(q)
  <2>1. PICK e \in Free, s \in TagSlugs : Named(s) = {} /\ Begin(q, Idle) /\ Put(e, Made(s, {}))
    BY <1>1 DEF CreateNamed
  <2>2. e \in Entries
    BY DEF Free
  <2>3. Moves(q, Idle) /\ req[q].at = "idle"
    BY <2>1, BeginMoves DEF CatsInv
  <2>4. Made(s, {}) \in EntryNode /\ Made(s, {}).there /\ Made(s, {}).slug = s /\ Made(s, {}).links = {}
    BY MadeOK
  <2>5. /\ cat' = [cat EXCEPT !.node[e] = Made(s, {})] /\ cat'.type = cat.type
        /\ catLog' \in CatLogRecord
        /\ catLog'.want = [catLog.want EXCEPT ![e] = Made(s, {})]
        /\ catLog.stale \subseteq catLog'.stale \cup {e} /\ (\A k \in catLog.kept : k[1] # e => k \in catLog'.kept)
        /\ catLog'.doubled = catLog.doubled /\ catLog'.owed = catLog.owed /\ catLog'.met = catLog.met
    BY <2>1, <2>2, <2>4, PutLog
  <2>6. Owing'
    BY <2>3, <2>5, IdleFits, QuietWill, OwingRests
  <2>7. "templates" \notin mix
    BY <1>1, KindsApart
  <2>8. CatInv'
    BY <2>1, <2>2, <2>3, <2>4, <2>5, <2>6, <2>7, IdleFits, MadeKeeps
  <2> QED BY <2>3, <2>8 DEF CatGoes
<1>2. CASE CreateWebhookNode(q)
  <2>1. req[q].at = "hook.create"
    BY <1>2 DEF CreateWebhookNode, At
  <2>2. CatLocals(req[q]) /\ Fits(req[q])
    BY <2>1, CatStands
  <2>3. PICK e \in Entries, s \in TagSlugs : e = req[q].e /\ s = req[q].slug
    BY <2>1, <2>2 DEF CatLocals
  <2>4. CASE WaitC(q, "hook.create", Idle)
    BY <2>4, WaitCEnds
  <2>5. CASE Named(s) = {} /\ Step(q, "hook.create", Idle) /\ Put(e, Made(s, {}))
    <3>1. Moves(q, Idle)
      BY <2>5, StepMoves DEF CatsInv
    <3>2. Made(s, {}) \in EntryNode /\ Made(s, {}).there /\ Made(s, {}).slug = s /\ Made(s, {}).links = {}
      BY MadeOK
    <3>3. /\ cat' = [cat EXCEPT !.node[e] = Made(s, {})] /\ cat'.type = cat.type
          /\ catLog' \in CatLogRecord
          /\ catLog'.want = [catLog.want EXCEPT ![e] = Made(s, {})]
          /\ catLog.stale \subseteq catLog'.stale \cup {e} /\ (\A k \in catLog.kept : k[1] # e => k \in catLog'.kept)
          /\ catLog'.doubled = catLog.doubled /\ catLog'.owed = catLog.owed /\ catLog'.met = catLog.met
      BY <2>5, <3>2, PutLog
    <3>4. Owing'
      BY <2>1, <3>1, <3>3, IdleFits, QuietWill, OwingRests
    <3>5. "templates" \notin mix
      BY <2>1, <2>2, KindsApart DEF Fits
    <3>6. CatInv'
      BY <2>5, <3>1, <3>2, <3>3, <3>4, <3>5, IdleFits, MadeKeeps
    <3> QED BY <2>1, <3>1, <3>6 DEF CatGoes
  <2> QED BY <1>2, <2>3, <2>4, <2>5 DEF CreateWebhookNode
<1> QED BY <1>1, <1>2

LEMMA EntryGoes ==
    ASSUME CatsInv, NEW q \in Slots, doc' = doc, DeleteEntry(q)
    PROVE  CatGoes(q) /\ CatInv'
<1>1. PICK e \in Entries : Here(e) /\ Begin(q, Idle) /\ Put(e, Gone)
  BY DEF DeleteEntry
<1>2. Moves(q, Idle) /\ req[q].at = "idle"
  BY <1>1, BeginMoves DEF CatsInv
<1>3. /\ cat' = [cat EXCEPT !.node[e] = Gone] /\ cat'.type = cat.type
      /\ catLog' \in CatLogRecord
      /\ catLog'.want = [catLog.want EXCEPT ![e] = Gone]
      /\ catLog.stale \subseteq catLog'.stale \cup {e} /\ (\A k \in catLog.kept : k[1] # e => k \in catLog'.kept)
      /\ catLog'.doubled = catLog.doubled /\ catLog'.owed = catLog.owed /\ catLog'.met = catLog.met
  BY <1>1, MadeOK, PutLog
<1>4. Owing'
  BY <1>2, <1>3, IdleFits, QuietWill, OwingRests DEF QuietLabels
<1>5. /\ cat' \in CatRecord /\ cat'.node[e] = Gone
      /\ \A o \in Entries : o # e => cat'.node[o] = cat.node[o]
      /\ NodesSound /\ EntriesAsAsked'
  BY <1>3, MadeOK, Placed
<1>6. NamesGo(q)
  BY <1>3, <1>5, MadeOK, NamesFewer
<1>7. CatInv'
  BY <1>2, <1>3, <1>4, <1>5, <1>6, IdleFits, NodesKeep
<1> QED BY <1>2, <1>7 DEF CatGoes

LEMMA TemplateMade ==
    ASSUME CatsInv, NEW q \in Slots, doc' = doc, CreateTemplateNode(q)
    PROVE  CatGoes(q) /\ CatInv'
<1> USE DEF CatLabels, PlainLabels, TemplateLabels, HasEntry, HasSlug, HasPatch, HasTo, HasEntryRead, HasLinks,
            NamedLabels, WebhookLabels, McpLabels, PolicyLabels, BlueprintLabels, QuietLabels
<1>1. req[q].at = "tpl.create"
  BY DEF CreateTemplateNode, At
<1>2. CatLocals(req[q]) /\ Fits(req[q])
  BY <1>1, CatStands
<1>3. PICK e \in Entries, s \in TagSlugs : e = req[q].e /\ s = req[q].slug
  BY <1>1, <1>2 DEF CatLocals
<1>4. PICK both \in BOOLEAN :
        both = (catLog.doubled \/ \E o \in Slots \ {q} : At(o, "tpl.create") /\ req[o].slug = s)
  OBVIOUS
<1>5. /\ cat' = [cat EXCEPT !.node[e] = Made(s, {})]
      /\ catLog' = [catLog EXCEPT !.want[e] = Made(s, {}), !.stale = @ \ {e}, !.doubled = both]
  BY <1>3, <1>4 DEF CreateTemplateNode
<1>6. PICK next : /\ next = (IF req[q].tags = {} THEN Idle ELSE To(q, "tpl.attach"))
                  /\ Step(q, "tpl.create", next)
  BY DEF CreateTemplateNode
<1>7. Moves(q, next)
  BY <1>6, StepMoves DEF CatsInv
<1>8. (next = Idle \/ CatLocals(next)) /\ Fits(next) /\ next.at # "tpl.create"
  <2>1. CatLocals(To(q, "tpl.attach")) /\ Fits(To(q, "tpl.attach")) /\ To(q, "tpl.attach").at = "tpl.attach"
    BY <1>1, <1>2 DEF CatLocals, To, Fits
  <2> QED BY <1>6, <2>1, IdleFits
<1>9. Made(s, {}) \in EntryNode /\ Made(s, {}).there /\ Made(s, {}).slug = s /\ Made(s, {}).links = {} /\ s # None
  BY MadeOK
<1>10. catLog \in CatLogRecord
  BY DEF CatsInv, CatInv, CatTypes
<1>11. catLog' \in CatLogRecord
  BY <1>5, <1>9, <1>10 DEF CatLogRecord
<1>12. /\ catLog'.want = [catLog.want EXCEPT ![e] = Made(s, {})] /\ catLog'.stale = catLog.stale \ {e}
       /\ catLog'.kept = catLog.kept /\ catLog'.doubled = both /\ catLog'.owed = catLog.owed /\ catLog'.met = catLog.met
  BY <1>5, <1>10 DEF CatLogRecord
<1>13. /\ cat' \in CatRecord /\ cat'.type = cat.type /\ cat'.node[e] = Made(s, {})
       /\ \A o \in Entries : o # e => cat'.node[o] = cat.node[o]
       /\ NodesSound /\ EntriesAsAsked'
  BY <1>5, <1>9, <1>11, <1>12, Placed
<1>14. NamesGo(q)
  <2>1. SUFFICES ASSUME ~both PROVE NamesGo(q)
    BY <1>12 DEF NamesGo
  <2>2. ~catLog.doubled /\ \A o \in Slots : o # q /\ req[o].at = "tpl.create" => req[o].slug # s
    BY <1>4, <2>1 DEF At
  <2>3. /\ \A a, o \in Entries : cat.node[a].there /\ cat.node[o].there
                                 /\ cat.node[a].slug = cat.node[o].slug => a = o
        /\ \A r \in Slots, a \in Entries : req[r].at = "tpl.create" =>
             ~(cat.node[a].there /\ cat.node[a].slug = req[r].slug)
    BY <2>2 DEF CatsInv, CatInv, Unique, At, Named, Here
  <2>4. \A a \in Entries : ~(cat.node[a].there /\ cat.node[a].slug = s)
    BY <1>1, <1>3, <2>3
  <2>5. \A a, o \in Entries : cat'.node[a].there /\ cat'.node[o].there
                              /\ cat'.node[a].slug = cat'.node[o].slug => a = o
    BY <1>9, <1>13, <2>3, <2>4
  <2>6. \A r \in Slots, a \in Entries : r # q /\ req[r].at = "tpl.create" =>
             ~(cat'.node[a].there /\ cat'.node[a].slug = req[r].slug)
    BY <1>9, <1>13, <2>2, <2>3
  <2> QED BY <2>5, <2>6 DEF NamesGo
<1>15. Owing'
  <2>1. "templates" \in mix
    BY <1>1, <1>2 DEF Fits
  <2>2. Will(req[q]) = {}
    BY <1>1, QuietWill
  <2> QED BY <1>7, <1>8, <1>12, <1>13, <2>1, <2>2, OwingGoes DEF CatsInv, CatInv, Owing
<1>16. CatInv'
  BY <1>7, <1>8, <1>11, <1>13, <1>14, <1>15, NodesKeep
<1> QED BY <1>1, <1>7, <1>8, <1>16 DEF CatGoes

LEMMA PolicyMade ==
    ASSUME CatsInv, NEW q \in Slots, doc' = doc, CreatePolicyNode(q)
    PROVE  CatGoes(q) /\ CatInv'
<1> USE DEF CatLabels, PlainLabels, TemplateLabels, HasEntry, HasSlug, HasPatch, HasTo, HasEntryRead, HasLinks,
            NamedLabels, WebhookLabels, McpLabels, PolicyLabels, BlueprintLabels, QuietLabels
<1>1. req[q].at = "pol.create"
  BY DEF CreatePolicyNode, At
<1>2. CatLocals(req[q]) /\ Fits(req[q])
  BY <1>1, CatStands
<1>3. PICK e \in Entries, s \in TagSlugs, T \in SUBSET Types :
        e = req[q].e /\ s = req[q].slug /\ T = req[q].links
  BY <1>1, <1>2 DEF CatLocals
<1>4. CASE WaitC(q, "pol.create", Idle)
  BY <1>4, WaitCEnds
<1>5. CASE /\ Named(s) = {}
           /\ Step(q, "pol.create", To(q, IF T = {} THEN "pol.reload" ELSE "pol.link"))
           /\ cat' = [cat EXCEPT !.node[e] = Made(s, {})]
           /\ catLog' = [catLog EXCEPT !.want[e] = Made(s, {}), !.stale = @ \ {e},
                                       !.owed = @ \cup Covers(T)]
  <2>1. PICK next : next = To(q, IF T = {} THEN "pol.reload" ELSE "pol.link") /\ Step(q, "pol.create", next)
    BY <1>5
  <2>2. Moves(q, next)
    BY <2>1, StepMoves DEF CatsInv
  <2>3. CatLocals(next) /\ Fits(next) /\ next.at # "tpl.create"
    BY <1>1, <1>2, <2>1 DEF CatLocals, To, Fits
  <2>4. /\ T = {} => next.at = "pol.reload"
        /\ T # {} => next.at = "pol.link"
        /\ next.links = T /\ next.seen = {}
    BY <1>1, <1>2, <1>3, <2>1 DEF CatLocals, To, Fits
  <2>5. Covers(T) \subseteq Will(next)
    BY <2>4 DEF Will
  <2>6. Made(s, {}) \in EntryNode /\ Made(s, {}).there /\ Made(s, {}).slug = s /\ Made(s, {}).links = {}
    BY MadeOK
  <2>7. catLog \in CatLogRecord /\ cat.type \subseteq Types /\ Covers(T) \subseteq cat.type
    BY CoversLive DEF CatsInv, CatInv, CatTypes, CatRecord
  <2>8. catLog' \in CatLogRecord
    BY <1>5, <2>6, <2>7 DEF CatLogRecord
  <2>9. /\ catLog'.want = [catLog.want EXCEPT ![e] = Made(s, {})] /\ catLog'.stale = catLog.stale \ {e}
        /\ catLog'.doubled = catLog.doubled /\ catLog'.owed = catLog.owed \cup Covers(T)
        /\ catLog'.met = catLog.met /\ catLog'.kept = catLog.kept
    BY <1>5, <2>7 DEF CatLogRecord
  <2>10. cat'.type = cat.type
    BY <1>5 DEF CatsInv, CatInv, CatTypes, CatRecord
  <2>11. Owing'
    <3>1. Will(req[q]) = {}
      BY <1>1, QuietWill
    <3> QED BY <2>2, <2>3, <2>5, <2>7, <2>9, <2>10, <3>1, OwingGoes DEF CatsInv, CatInv, Owing
  <2>12. "templates" \notin mix
    BY <1>1, <1>2, KindsApart DEF Fits
  <2>13. CatInv'
    BY <1>5, <2>2, <2>3, <2>6, <2>8, <2>9, <2>11, <2>12, MadeKeeps
  <2> QED BY <1>1, <2>2, <2>3, <2>13 DEF CatGoes
<1> QED BY <1>3, <1>4, <1>5 DEF CreatePolicyNode

-----------------------------------------------------------------------------
(* The catalogue: values that are written over.                             *)

LEMMA PatchedOK ==
    ASSUME NEW v \in [Fields -> Values], NEW ask \in Changes(Fields)
    PROVE  Patched(v, ask) \in [Fields -> Values]
BY DEF Patched, Changes

LEMMA PatchedEntryOK ==
    ASSUME NEW n \in EntryNode, NEW ask \in Changes(Fields)
    PROVE  /\ PatchedEntry(n, ask) \in EntryNode
           /\ PatchedEntry(n, ask).there = n.there /\ PatchedEntry(n, ask).slug = n.slug
           /\ PatchedEntry(n, ask).vals = Patched(n.vals, ask)
<1>1. Patched(n.vals, ask) \in [Fields -> Values]
  BY PatchedOK DEF EntryNode
<1> QED BY <1>1 DEF EntryNode, PatchedEntry

\* The values of some entries are patched, where they are and where they are wanted.
LEMMA ValuesWritten ==
    ASSUME CatsInv, NEW q \in Slots, NEW ask,
           catLog'.doubled = catLog.doubled, catLog.stale \subseteq catLog'.stale,
           catLog.kept \subseteq catLog'.kept,
           \A o \in Entries :
             /\ cat'.node[o].there = cat.node[o].there /\ cat'.node[o].slug = cat.node[o].slug
             /\ cat'.node[o].links = cat.node[o].links
             /\ catLog'.want[o].there = catLog.want[o].there
             /\ \/ catLog'.want[o].slug = catLog.want[o].slug
                \/ <<o, cat.node[o].slug>> \in catLog'.kept,
           \A o \in Entries \ catLog'.stale :
             \/ /\ cat'.node[o].vals = cat.node[o].vals
                /\ catLog'.want[o].vals = catLog.want[o].vals
             \/ /\ cat'.node[o].vals = Patched(cat.node[o].vals, ask)
                /\ catLog'.want[o].vals = Patched(catLog.want[o].vals, ask)
    PROVE  NodesSound /\ EntriesAsAsked' /\ NamesGo(q)
<1>1. NamesGo(q)
  BY NamesFewer
<1>2. NodesSound
  BY DEF NodesSound, CatsInv, CatInv, Linked, Here
<1>3. EntriesAsAsked'
  <2>1. ASSUME NEW o \in Entries \ catLog'.stale
        PROVE  /\ cat.node[o].there = catLog.want[o].there /\ BearsAsked(o)
               /\ cat.node[o].vals = catLog.want[o].vals
    BY DEF CatsInv, CatInv, EntriesAsAsked, BearsAsked, Here
  <2>2. ASSUME NEW o \in Entries \ catLog'.stale
        PROVE  /\ cat'.node[o].there = catLog'.want[o].there /\ BearsAsked(o)'
               /\ cat'.node[o].vals = catLog'.want[o].vals
    <3>1. o \in Entries \ catLog.stale /\ o \in Entries
      OBVIOUS
    <3>2. /\ cat'.node[o].there = cat.node[o].there /\ cat'.node[o].slug = cat.node[o].slug
          /\ catLog'.want[o].there = catLog.want[o].there
          /\ \/ catLog'.want[o].slug = catLog.want[o].slug
             \/ <<o, cat.node[o].slug>> \in catLog'.kept
      BY <3>1
    <3>3. \/ /\ cat'.node[o].vals = cat.node[o].vals
             /\ catLog'.want[o].vals = catLog.want[o].vals
          \/ /\ cat'.node[o].vals = Patched(cat.node[o].vals, ask)
             /\ catLog'.want[o].vals = Patched(catLog.want[o].vals, ask)
      OBVIOUS
    <3>4. BearsAsked(o)'
      BY <2>1, <3>2 DEF BearsAsked
    <3> QED BY <2>1, <3>1, <3>2, <3>3, <3>4
  <2> QED BY <2>2 DEF EntriesAsAsked, BearsAsked, Here
<1> QED BY <1>1, <1>2, <1>3

\* Whether a write goes over one it had not read.
LEMMA OverwritesLog ==
    ASSUME CatsInv, NEW e \in Entries, NEW read, NEW w, w = Overwrites(catLog, e, read)
    PROVE  /\ w \in CatLogRecord
           /\ w.want = catLog.want /\ w.kept = catLog.kept /\ catLog.stale \subseteq w.stale
           /\ e \notin w.stale => cat.node[e] = read
           /\ w.doubled = catLog.doubled /\ w.met = catLog.met /\ w.owed = catLog.owed
<1>1. catLog \in CatLogRecord
  BY DEF CatsInv, CatInv, CatTypes
<1>2. CASE cat.node[e] = read
  BY <1>1, <1>2 DEF Overwrites
<1>3. CASE cat.node[e] # read
  <2>1. w = [catLog EXCEPT !.stale = @ \cup {e}]
    BY <1>3 DEF Overwrites
  <2> QED BY <1>1, <2>1 DEF CatLogRecord
<1> QED BY <1>2, <1>3

LEMMA SavedById ==
    ASSUME CatsInv, NEW q \in Slots, doc' = doc, SaveById(q)
    PROVE  CatGoes(q) /\ CatInv'
<1> USE DEF CatLabels, PlainLabels, NamedLabels, WebhookLabels, McpLabels, HasEntry, HasSlug, HasPatch, HasTo,
            HasEntryRead, QuietLabels
<1>1. req[q].at = "id.save"
  BY DEF SaveById, At
<1>2. CatLocals(req[q]) /\ Fits(req[q])
  BY <1>1, CatStands
<1>3. PICK ask \in Changes(Fields), read \in EntryNode, s \in TagSlugs, e \in Entries :
        ask = req[q].ask /\ read = req[q].read /\ s = req[q].slug /\ e = req[q].e
  BY <1>1, <1>2 DEF CatLocals
<1>4. CASE WaitC(q, "id.save", Idle)
  BY <1>4, WaitCEnds
<1>5. CASE /\ Here(e) /\ Named(s) \ {e} = {}
           /\ Step(q, "id.save", Idle)
           /\ cat' = [cat EXCEPT !.node[e].slug = s, !.node[e].vals = Patched(read.vals, ask)]
           /\ catLog' = [Overwrites(catLog, e, read) EXCEPT
                !.want[e].slug = s, !.want[e].vals = Patched(@, ask)]
  <2>2. PICK w : w = Overwrites(catLog, e, read)
    OBVIOUS
  <2>3. /\ w \in CatLogRecord
        /\ w.want = catLog.want /\ w.kept = catLog.kept /\ catLog.stale \subseteq w.stale
        /\ e \notin w.stale => cat.node[e] = read
        /\ w.doubled = catLog.doubled /\ w.met = catLog.met /\ w.owed = catLog.owed
    BY <2>2, OverwritesLog
  <2>4. cat \in CatRecord
    BY DEF CatsInv, CatInv, CatTypes
  <2>5. PICK v \in [Fields -> Values] : v = Patched(read.vals, ask)
    <3>1. read.vals \in [Fields -> Values]
      BY DEF EntryNode
    <3> QED BY <3>1, PatchedOK
  <2>6. PICK u \in [Fields -> Values] : u = Patched(w.want[e].vals, ask)
    <3>1. w.want[e].vals \in [Fields -> Values]
      BY <2>3 DEF CatLogRecord, EntryNode
    <3> QED BY <3>1, PatchedOK
  <2>7. catLog' = [w EXCEPT !.want[e].slug = s, !.want[e].vals = u]
    <3>1. [w EXCEPT !.want[e].slug = s].want[e].vals = w.want[e].vals
      BY <2>3 DEF CatLogRecord, EntryNode
    <3> QED BY <1>5, <2>2, <2>6, <3>1
  <2>8. cat' = [cat EXCEPT !.node[e].slug = s, !.node[e].vals = v]
    BY <1>5, <2>5
  <2>9. catLog' \in CatLogRecord
    BY <2>3, <2>7 DEF CatLogRecord, EntryNode
  <2>10. cat' \in CatRecord
    BY <2>4, <2>8 DEF CatRecord, EntryNode
  <2>11. /\ catLog'.stale = w.stale /\ catLog'.kept = w.kept
         /\ catLog'.doubled = w.doubled /\ catLog'.met = w.met /\ catLog'.owed = w.owed
    BY <2>3, <2>7 DEF CatLogRecord
  <2>12. /\ cat'.type = cat.type
         /\ \A o \in Entries : o # e => cat'.node[o] = cat.node[o]
         /\ cat'.node[e].there = cat.node[e].there /\ cat'.node[e].slug = s
         /\ cat'.node[e].links = cat.node[e].links /\ cat'.node[e].vals = v
    BY <2>4, <2>8 DEF CatRecord, EntryNode
  <2>14. /\ \A o \in Entries : o # e => catLog'.want[o] = catLog.want[o]
         /\ catLog'.want[e].there = catLog.want[e].there /\ catLog'.want[e].slug = s
         /\ catLog'.want[e].vals = u
    BY <2>3, <2>7 DEF CatLogRecord, EntryNode
  <2>15. EntriesAsAsked'
    <3>1. ASSUME NEW o \in Entries \ catLog'.stale
          PROVE  /\ cat'.node[o].there = catLog'.want[o].there /\ BearsAsked(o)'
                 /\ cat'.node[o].vals = catLog'.want[o].vals
      <4>1. /\ cat.node[o].there = catLog.want[o].there /\ BearsAsked(o)
            /\ cat.node[o].vals = catLog.want[o].vals
        BY <2>3, <2>11 DEF CatsInv, CatInv, EntriesAsAsked, BearsAsked, Here
      <4>2. CASE o # e
        BY <2>3, <2>11, <2>12, <2>14, <4>1, <4>2 DEF BearsAsked
      <4>3. CASE o = e
        BY <2>3, <2>5, <2>6, <2>11, <2>12, <2>14, <4>1, <4>3 DEF BearsAsked
      <4> QED BY <4>2, <4>3
    <3> QED BY <3>1 DEF EntriesAsAsked, BearsAsked, Here
  <2>16. NodesSound
    <3>1. s # None
      BY DocumentsAssumption
    <3> QED BY <1>5, <2>12, <3>1 DEF NodesSound, CatsInv, CatInv, Linked, Here
  <2>17. NamesGo(q)
    <3>1. "templates" \notin mix
      BY <1>1, <1>2, KindsApart DEF Fits
    <3> QED BY <1>5, <2>3, <2>11, <2>12, <3>1, OneNamed
  <2>18. Moves(q, Idle)
    BY <1>5, StepMoves DEF CatsInv
  <2>19. Owing'
    BY <1>1, <2>3, <2>11, <2>12, <2>18, IdleFits, QuietWill, OwingRests
  <2>20. CatInv'
    BY <2>9, <2>10, <2>12, <2>15, <2>16, <2>17, <2>18, <2>19, IdleFits, NodesKeep
  <2> QED BY <1>1, <2>18, <2>20 DEF CatGoes
<1> QED BY <1>3, <1>4, <1>5 DEF SaveById

\* All of S are written with v, from what was read, and wanted patched as asked,
\* on top of the log w; X are those that were not as read.
SeveralPut(S, X, ask, v, w, wanted) ==
  /\ S \subseteq Entries /\ X \subseteq S
  /\ ask \in Changes(Fields) /\ v \in [Fields -> Values]
  /\ \A e \in S \ X : v = Patched(cat.node[e].vals, ask)
  /\ w.want = catLog.want /\ w.stale = catLog.stale /\ w.kept = catLog.kept /\ w.doubled = catLog.doubled
  /\ Assign(S, v)
  /\ \A e \in Entries :
       /\ wanted[e].there = w.want[e].there
       /\ wanted[e].slug = w.want[e].slug \/ <<e, cat.node[e].slug>> \in catLog'.kept
       /\ wanted[e].vals = IF e \in S THEN Patched(w.want[e].vals, ask) ELSE w.want[e].vals
  /\ catLog' \in CatLogRecord
  /\ catLog'.want = wanted /\ catLog'.stale = w.stale \cup X /\ w.kept \subseteq catLog'.kept
  /\ catLog'.doubled = w.doubled /\ catLog'.met = w.met /\ catLog'.owed = w.owed

LEMMA SeveralWritten ==
    ASSUME CatsInv, NEW q \in Slots, NEW S, NEW X, NEW ask, NEW v, NEW w, NEW wanted,
           SeveralPut(S, X, ask, v, w, wanted)
    PROVE  /\ cat' \in CatRecord /\ catLog' \in CatLogRecord /\ cat'.type = cat.type
           /\ NodesSound /\ EntriesAsAsked' /\ NamesGo(q)
           /\ catLog'.owed = w.owed /\ catLog'.met = w.met /\ catLog'.doubled = w.doubled
<1>1. cat \in CatRecord
  BY DEF CatsInv, CatInv, CatTypes
<1>a. /\ S \subseteq Entries /\ X \subseteq S /\ v \in [Fields -> Values]
      /\ w.want = catLog.want /\ w.stale = catLog.stale /\ w.kept = catLog.kept /\ w.doubled = catLog.doubled
      /\ catLog' \in CatLogRecord
      /\ catLog'.want = wanted /\ catLog'.stale = w.stale \cup X /\ w.kept \subseteq catLog'.kept
      /\ catLog'.doubled = w.doubled /\ catLog'.met = w.met /\ catLog'.owed = w.owed
  BY DEF SeveralPut
<1>b. /\ \A e \in S \ X : v = Patched(cat.node[e].vals, ask)
      /\ \A e \in Entries :
           /\ wanted[e].there = w.want[e].there
           /\ wanted[e].slug = w.want[e].slug \/ <<e, cat.node[e].slug>> \in catLog'.kept
           /\ wanted[e].vals = IF e \in S THEN Patched(w.want[e].vals, ask) ELSE w.want[e].vals
  BY DEF SeveralPut
<1>2. cat' = [cat EXCEPT !.node = [o \in Entries |-> IF o \in S THEN [cat.node[o] EXCEPT !.vals = v]
                                                     ELSE cat.node[o]]]
  BY DEF SeveralPut, Assign
<1>5. \A o \in Entries : cat.node[o] \in EntryNode /\ [cat.node[o] EXCEPT !.vals = v] \in EntryNode
  BY <1>1, <1>a DEF CatRecord, EntryNode
<1>8. cat' \in CatRecord
  BY <1>1, <1>2, <1>5 DEF CatRecord
<1>10. /\ cat'.type = cat.type
       /\ \A o \in Entries : cat'.node[o] = IF o \in S THEN [cat.node[o] EXCEPT !.vals = v] ELSE cat.node[o]
  BY <1>1, <1>2 DEF CatRecord
<1>11. \A o \in Entries :
         /\ cat'.node[o].there = cat.node[o].there /\ cat'.node[o].slug = cat.node[o].slug
         /\ cat'.node[o].links = cat.node[o].links
         /\ cat'.node[o].vals = IF o \in S THEN v ELSE cat.node[o].vals
  <2>1. v \in [Fields -> Values]
    BY <1>a
  <2> QED BY <1>5, <1>10, <2>1 DEF EntryNode
<1>12. \A o \in Entries :
         /\ catLog'.want[o].there = catLog.want[o].there
         /\ catLog'.want[o].slug = catLog.want[o].slug \/ <<o, cat.node[o].slug>> \in catLog'.kept
         /\ catLog'.want[o].vals = IF o \in S THEN Patched(catLog.want[o].vals, ask) ELSE catLog.want[o].vals
  BY <1>a, <1>b
<1>13. ASSUME NEW o \in Entries \ catLog'.stale
       PROVE  \/ /\ cat'.node[o].vals = cat.node[o].vals
                 /\ catLog'.want[o].vals = catLog.want[o].vals
              \/ /\ cat'.node[o].vals = Patched(cat.node[o].vals, ask)
                 /\ catLog'.want[o].vals = Patched(catLog.want[o].vals, ask)
  <2>1. o \in Entries /\ o \notin X
    BY <1>a
  <2>2. /\ cat'.node[o].vals = IF o \in S THEN v ELSE cat.node[o].vals
        /\ catLog'.want[o].vals = IF o \in S THEN Patched(catLog.want[o].vals, ask) ELSE catLog.want[o].vals
    BY <1>11, <1>12, <2>1
  <2>3. o \in S => v = Patched(cat.node[o].vals, ask)
    BY <1>b, <2>1
  <2> QED BY <2>2, <2>3
<1>14. NodesSound /\ EntriesAsAsked' /\ NamesGo(q)
  <2>1. \A o \in Entries :
          /\ cat'.node[o].there = cat.node[o].there /\ cat'.node[o].slug = cat.node[o].slug
          /\ cat'.node[o].links = cat.node[o].links
          /\ catLog'.want[o].there = catLog.want[o].there
          /\ catLog'.want[o].slug = catLog.want[o].slug \/ <<o, cat.node[o].slug>> \in catLog'.kept
    BY <1>11, <1>12
  <2>2. /\ catLog'.doubled = catLog.doubled /\ catLog.stale \subseteq catLog'.stale
        /\ catLog.kept \subseteq catLog'.kept
    BY <1>a
  <2> QED BY <1>13, <2>1, <2>2, ValuesWritten
<1> QED BY <1>a, <1>8, <1>10, <1>14

\* A write matched by the slug as it was, whatever slug is asked for.
LEMMA AskedEntryOK ==
    ASSUME NEW n \in EntryNode, NEW l, l.ask \in Changes(Fields), l.to \in TagSlugs
    PROVE  /\ AskedEntry(n, l) \in EntryNode /\ AskedEntry(n, l).there = n.there
           /\ AskedEntry(n, l).slug = IF l.to = l.slug THEN n.slug ELSE l.to
           /\ AskedEntry(n, l).vals = Patched(n.vals, l.ask)
<1>1. PICK p \in EntryNode : p = PatchedEntry(n, l.ask)
  BY PatchedEntryOK
<1>2. p.there = n.there /\ p.slug = n.slug /\ p.vals = Patched(n.vals, l.ask)
  BY <1>1, PatchedEntryOK
<1>3. PICK s \in TagSlugs \cup {None} : s = IF l.to = l.slug THEN p.slug ELSE l.to
  BY DEF EntryNode
<1>4. AskedEntry(n, l) = [p EXCEPT !.slug = s]
  BY <1>1, <1>3 DEF AskedEntry
<1>5. /\ [p EXCEPT !.slug = s] \in EntryNode /\ [p EXCEPT !.slug = s].there = p.there
      /\ [p EXCEPT !.slug = s].slug = s /\ [p EXCEPT !.slug = s].vals = p.vals
  BY DEF EntryNode
<1> QED BY <1>2, <1>3, <1>4, <1>5

LEMMA AskedWritten ==
    ASSUME CatsInv, NEW q \in Slots, NEW l, NEW S, S \subseteq Named(l.slug),
           l.slug \in TagSlugs, l.to \in TagSlugs, l.ask \in Changes(Fields), l.read \in EntryNode,
           Assign(S, Patched(l.read.vals, l.ask)), catLog' = Asked(S, l)
    PROVE  /\ cat' \in CatRecord /\ catLog' \in CatLogRecord /\ cat'.type = cat.type
           /\ NodesSound /\ EntriesAsAsked' /\ NamesGo(q)
           /\ catLog'.owed = catLog.owed /\ catLog'.met = catLog.met /\ catLog'.doubled = catLog.doubled
<1>1. catLog \in CatLogRecord
  BY DEF CatsInv, CatInv, CatTypes
<1>2. S \subseteq Entries /\ \A e \in S : cat.node[e].slug = l.slug
  BY DEF Named
<1>3. PICK wanted : wanted = [e \in Entries |-> IF e \in S THEN AskedEntry(catLog.want[e], l) ELSE catLog.want[e]]
  OBVIOUS
<1>4. PICK kept : kept = IF l.to = l.slug THEN catLog.kept ELSE catLog.kept \cup (S \X {l.slug})
  OBVIOUS
<1>5. PICK X : X = {e \in S : cat.node[e] # l.read}
  OBVIOUS
<1>6. PICK v \in [Fields -> Values] : v = Patched(l.read.vals, l.ask)
  <2>1. l.read.vals \in [Fields -> Values]
    BY DEF EntryNode
  <2> QED BY <2>1, PatchedOK
<1>7. catLog' = [catLog EXCEPT !.want = wanted, !.kept = kept, !.stale = catLog.stale \cup X]
  BY <1>3, <1>4, <1>5 DEF Asked
<1>8. \A e \in Entries : /\ catLog.want[e] \in EntryNode /\ AskedEntry(catLog.want[e], l) \in EntryNode
                         /\ AskedEntry(catLog.want[e], l).there = catLog.want[e].there
                         /\ l.to = l.slug => AskedEntry(catLog.want[e], l).slug = catLog.want[e].slug
                         /\ AskedEntry(catLog.want[e], l).vals = Patched(catLog.want[e].vals, l.ask)
  BY <1>1, AskedEntryOK DEF CatLogRecord
<1>9. wanted \in [Entries -> EntryNode]
  BY <1>3, <1>8
<1>10. kept \in SUBSET (Entries \X TagSlugs) /\ catLog.kept \subseteq kept /\ X \in SUBSET Entries
  BY <1>1, <1>2, <1>4, <1>5 DEF CatLogRecord
<1>11. /\ catLog' \in CatLogRecord
       /\ catLog'.want = wanted /\ catLog'.stale = catLog.stale \cup X /\ catLog'.kept = kept
       /\ catLog'.doubled = catLog.doubled /\ catLog'.met = catLog.met /\ catLog'.owed = catLog.owed
  BY <1>1, <1>7, <1>9, <1>10 DEF CatLogRecord
<1>12. ASSUME NEW e \in Entries
       PROVE  /\ wanted[e].there = catLog.want[e].there
              /\ wanted[e].slug = catLog.want[e].slug \/ <<e, cat.node[e].slug>> \in kept
              /\ wanted[e].vals = IF e \in S THEN Patched(catLog.want[e].vals, l.ask) ELSE catLog.want[e].vals
  <2>1. CASE e \notin S
    BY <1>3, <2>1
  <2>2. CASE e \in S
    <3>1. wanted[e] = AskedEntry(catLog.want[e], l)
      BY <1>3, <2>2
    <3>2. l.to # l.slug => <<e, cat.node[e].slug>> \in kept
      BY <1>2, <1>4, <2>2
    <3> QED BY <1>8, <2>2, <3>1, <3>2
  <2> QED BY <2>1, <2>2
<1>13. SeveralPut(S, X, l.ask, v, catLog, wanted)
  <2>1. \A e \in S \ X : v = Patched(cat.node[e].vals, l.ask)
    BY <1>5, <1>6
  <2>2. Assign(S, v) /\ X \subseteq S
    BY <1>5, <1>6
  <2> QED BY <1>2, <1>10, <1>11, <1>12, <2>1, <2>2 DEF SeveralPut
<1> QED BY <1>11, <1>13, SeveralWritten

LEMMA NamedWritten ==
    ASSUME CatsInv, NEW q \in Slots, doc' = doc, PersistNamed(q)
    PROVE  CatGoes(q) /\ CatInv'
<1> USE DEF CatLabels, PlainLabels, NamedLabels, WebhookLabels, McpLabels, HasEntry, HasSlug, HasPatch, HasTo,
            HasEntryRead, QuietLabels
<1>1. req[q].at = "named.save"
  BY DEF PersistNamed, At
<1>2. CatLocals(req[q]) /\ Fits(req[q])
  BY <1>1, CatStands
<1>3. PICK l : l = req[q]
  OBVIOUS
<1>4. /\ l.ask \in Changes(Fields) /\ l.read \in EntryNode /\ l.slug \in TagSlugs /\ l.to \in TagSlugs
  BY <1>1, <1>2, <1>3 DEF CatLocals
<1>5. CASE WaitC(q, "named.save", Idle)
  BY <1>5, WaitCEnds
<1>6. ASSUME NEW e \in Named(l.slug),
             Step(q, "named.save", Idle), Assign({e}, Patched(l.read.vals, l.ask)), catLog' = Asked({e}, l)
      PROVE  CatGoes(q) /\ CatInv'
  <2>1. /\ cat' \in CatRecord /\ catLog' \in CatLogRecord /\ cat'.type = cat.type
        /\ NodesSound /\ EntriesAsAsked' /\ NamesGo(q)
        /\ catLog'.owed = catLog.owed /\ catLog'.met = catLog.met /\ catLog'.doubled = catLog.doubled
    BY <1>4, <1>6, AskedWritten
  <2>2. Moves(q, Idle)
    BY <1>6, StepMoves DEF CatsInv
  <2>3. Owing'
    BY <1>1, <2>1, <2>2, IdleFits, QuietWill, OwingRests
  <2>4. CatInv'
    BY <2>1, <2>2, <2>3, IdleFits, NodesKeep
  <2> QED BY <1>1, <2>2, <2>4 DEF CatGoes
<1> QED BY <1>3, <1>5, <1>6 DEF PersistNamed

LEMMA TemplateSet ==
    ASSUME CatsInv, NEW q \in Slots, doc' = doc, SetTemplate(q)
    PROVE  CatGoes(q) /\ CatInv'
<1> USE DEF CatLabels, PlainLabels, TemplateLabels, HasEntry, HasSlug, HasPatch, HasTo, HasEntryRead, HasLinks,
            NamedLabels, WebhookLabels, McpLabels, PolicyLabels, BlueprintLabels, QuietLabels
<1>1. req[q].at = "tpl.set"
  BY DEF SetTemplate, At
<1>2. CatLocals(req[q]) /\ Fits(req[q])
  BY <1>1, CatStands
<1>3. PICK l : l = req[q]
  OBVIOUS
<1>4. /\ l.ask \in Changes(Fields) /\ l.read \in EntryNode /\ l.slug \in TagSlugs /\ l.to \in TagSlugs
  BY <1>1, <1>2, <1>3 DEF CatLocals
<1>5. CASE WaitC(q, "tpl.set", Idle)
  BY <1>5, WaitCEnds
<1>6. CASE /\ Step(q, "tpl.set", IF l.given THEN To(q, "tpl.detach") ELSE Idle)
           /\ Assign(Named(l.slug), Patched(l.read.vals, l.ask))
           /\ catLog' = Asked(Named(l.slug), l)
  <2>1. PICK next : /\ next = (IF l.given THEN To(q, "tpl.detach") ELSE Idle)
                    /\ Step(q, "tpl.set", next)
    BY <1>6
  <2>2. Moves(q, next)
    BY <2>1, StepMoves DEF CatsInv
  <2>3. (next = Idle \/ CatLocals(next)) /\ Fits(next) /\ next.at # "tpl.create"
    <3>1. CatLocals(To(q, "tpl.detach")) /\ Fits(To(q, "tpl.detach")) /\ To(q, "tpl.detach").at = "tpl.detach"
      BY <1>1, <1>2 DEF CatLocals, To, Fits
    <3> QED BY <2>1, <3>1, IdleFits
  <2>4. /\ cat' \in CatRecord /\ catLog' \in CatLogRecord /\ cat'.type = cat.type
        /\ NodesSound /\ EntriesAsAsked' /\ NamesGo(q)
        /\ catLog'.owed = catLog.owed /\ catLog'.met = catLog.met /\ catLog'.doubled = catLog.doubled
    BY <1>4, <1>6, AskedWritten
  <2>5. Owing'
    BY <1>1, <2>2, <2>3, <2>4, QuietWill, OwingRests
  <2>6. CatInv'
    BY <2>2, <2>3, <2>4, <2>5, NodesKeep
  <2> QED BY <1>1, <2>2, <2>3, <2>6 DEF CatGoes
<1> QED BY <1>3, <1>5, <1>6 DEF SetTemplate

\* Whether a policy is met by another, and what is owed for its targets.
LEMMA MeetsLog ==
    ASSUME NEW g \in CatLogRecord, NEW l, NEW w, w = Meets(g, l)
    PROVE  /\ w \in CatLogRecord
           /\ w.want = g.want /\ w.stale = g.stale /\ w.kept = g.kept /\ w.doubled = g.doubled /\ w.owed = g.owed
           /\ ~w.met => ~g.met /\ \E e \in Named(l.slug) : cat.node[e].links = l.seen
<1>1. CASE \E e \in Named(l.slug) : cat.node[e].links = l.seen
  BY <1>1 DEF Meets
<1>2. CASE ~\E e \in Named(l.slug) : cat.node[e].links = l.seen
  <2>1. w = [g EXCEPT !.met = TRUE]
    BY <1>2 DEF Meets
  <2> QED BY <2>1 DEF CatLogRecord
<1> QED BY <1>1, <1>2

LEMMA OwesLog ==
    ASSUME CatsInv, NEW l, NEW T, NEW w, w = Owes(catLog, l, T)
    PROVE  /\ w \in CatLogRecord
           /\ w.want = catLog.want /\ w.stale = catLog.stale /\ w.kept = catLog.kept /\ w.doubled = catLog.doubled
           /\ w.met = catLog.met
           /\ w.owed \subseteq catLog.owed \cup Covers(T)
           /\ Named(l.slug) = {} => w.owed = catLog.owed
<1>1. catLog \in CatLogRecord /\ cat.type \subseteq Types
  BY DEF CatsInv, CatInv, CatTypes, CatRecord
<1>2. PICK more : more = IF Named(l.slug) = {} THEN catLog.owed ELSE catLog.owed \cup Covers(T)
  OBVIOUS
<1>3. w = [catLog EXCEPT !.owed = more]
  BY <1>2 DEF Owes
<1>4. more \in SUBSET Types
  BY <1>1, <1>2, CoversLive DEF CatLogRecord
<1>5. w \in CatLogRecord
  BY <1>1, <1>3, <1>4 DEF CatLogRecord
<1>6. /\ w.want = catLog.want /\ w.stale = catLog.stale /\ w.kept = catLog.kept /\ w.doubled = catLog.doubled
      /\ w.met = catLog.met /\ w.owed = more
  BY <1>1, <1>3 DEF CatLogRecord
<1> QED BY <1>2, <1>5, <1>6

LEMMA PolicySet ==
    ASSUME CatsInv, NEW q \in Slots, doc' = doc, SetPolicy(q)
    PROVE  CatGoes(q) /\ CatInv'
<1> USE DEF CatLabels, PlainLabels, TemplateLabels, HasEntry, HasSlug, HasPatch, HasTo, HasEntryRead, HasLinks,
            NamedLabels, WebhookLabels, McpLabels, PolicyLabels, BlueprintLabels, QuietLabels
<1>1. req[q].at = "pol.set"
  BY DEF SetPolicy, At
<1>2. CatLocals(req[q]) /\ Fits(req[q])
  BY <1>1, CatStands
<1>3. PICK ask \in Changes(Fields), read \in EntryNode, s \in TagSlugs :
        ask = req[q].ask /\ read = req[q].read /\ s = req[q].slug
  BY <1>1, <1>2 DEF CatLocals
<1>4. PICK next : /\ next = To(q, IF req[q].links = req[q].was THEN "pol.reload" ELSE "pol.clear")
                  /\ Step(q, "pol.set", next)
  BY DEF SetPolicy
<1>5. Moves(q, next)
  BY <1>4, StepMoves DEF CatsInv
<1>6. CatLocals(next) /\ Fits(next) /\ next.at # "tpl.create"
  BY <1>1, <1>2, <1>4 DEF CatLocals, To, Fits
<1>7. Covers(req[q].was) \subseteq Will(next)
  <2>1. /\ next.at \in {"pol.reload", "pol.clear"} /\ next.was = req[q].was /\ ~next.fresh
    BY <1>1, <1>2, <1>4 DEF CatLocals, To, Fits
  <2>2. CASE next.at = "pol.clear"
    BY <2>1, <2>2 DEF Will
  <2>3. CASE next.at = "pol.reload"
    BY <2>1, <2>3 DEF Will
  <2> QED BY <2>1, <2>2, <2>3
<1>8. PICK g : g = Owes(catLog, req[q], req[q].was)
  OBVIOUS
<1>9. PICK w : w = Meets(g, req[q])
  OBVIOUS
<1>10. /\ g \in CatLogRecord
       /\ g.want = catLog.want /\ g.stale = catLog.stale /\ g.kept = catLog.kept /\ g.doubled = catLog.doubled
       /\ g.met = catLog.met /\ g.owed \subseteq catLog.owed \cup Covers(req[q].was)
  BY <1>8, OwesLog
<1>11. /\ w \in CatLogRecord
       /\ w.want = g.want /\ w.stale = g.stale /\ w.kept = g.kept /\ w.doubled = g.doubled /\ w.owed = g.owed
       /\ ~w.met => ~g.met
  BY ZenonT(30), <1>9, <1>10, MeetsLog
<1>12. PICK S \in SUBSET Entries : S = Named(s)
  BY DEF Named
<1>13. PICK X : X = {e \in Named(s) : cat.node[e].vals # read.vals}
  OBVIOUS
<1>a. PICK wanted : wanted = [e \in Entries |-> IF e \in Named(s)
        THEN PatchedEntry(w.want[e], ask) ELSE w.want[e]]
  OBVIOUS
<1>b. X \in SUBSET S
  BY <1>12, <1>13
<1>14. PICK v \in [Fields -> Values] : v = Patched(read.vals, ask)
  <2>1. read.vals \in [Fields -> Values]
    BY DEF EntryNode
  <2> QED BY <2>1, PatchedOK
<1>15. \A e \in S \ X : v = Patched(cat.node[e].vals, ask)
  BY <1>12, <1>13, <1>14
<1>16. Assign(S, v)
  BY <1>3, <1>12, <1>14 DEF SetPolicy
<1>17. catLog' = [w EXCEPT !.want = wanted, !.stale = w.stale \cup X]
  BY <1>3, <1>8, <1>9, <1>13, <1>a DEF SetPolicy
<1>c. /\ wanted \in [Entries -> EntryNode]
      /\ \A e \in Entries :
           /\ wanted[e].there = w.want[e].there /\ wanted[e].slug = w.want[e].slug
           /\ wanted[e].vals = IF e \in S THEN Patched(w.want[e].vals, ask) ELSE w.want[e].vals
  <2>1. w.want \in [Entries -> EntryNode]
    BY <1>11 DEF CatLogRecord
  <2>2. \A e \in Entries : /\ PatchedEntry(w.want[e], ask) \in EntryNode
                          /\ PatchedEntry(w.want[e], ask).there = w.want[e].there
                          /\ PatchedEntry(w.want[e], ask).slug = w.want[e].slug
                          /\ PatchedEntry(w.want[e], ask).vals = Patched(w.want[e].vals, ask)
    BY <2>1, PatchedEntryOK
  <2> QED BY <1>12, <1>a, <2>1, <2>2
<1>18. /\ cat' \in CatRecord /\ catLog' \in CatLogRecord /\ cat'.type = cat.type
       /\ NodesSound /\ EntriesAsAsked' /\ NamesGo(q)
       /\ catLog'.owed = w.owed /\ catLog'.met = w.met /\ catLog'.doubled = w.doubled
  <2>1. /\ catLog' \in CatLogRecord
        /\ catLog'.want = wanted /\ catLog'.stale = w.stale \cup X /\ catLog'.kept = w.kept
        /\ catLog'.doubled = w.doubled /\ catLog'.met = w.met /\ catLog'.owed = w.owed
    BY <1>b, <1>c, <1>11, <1>17 DEF CatLogRecord
  <2>2. SeveralPut(S, X, ask, v, w, wanted)
    BY <1>b, <1>c, <1>10, <1>11, <1>15, <1>16, <2>1 DEF SeveralPut
  <2> QED BY <2>1, <2>2, SeveralWritten
<1>19. Owing'
  <2>1. Will(req[q]) = {}
    BY <1>1, QuietWill
  <2>2. Covers(req[q].was) \subseteq cat.type
    BY CoversLive
  <2> QED BY <1>5, <1>6, <1>7, <1>10, <1>11, <1>18, <2>1, <2>2, OwingGoes DEF CatsInv, CatInv, Owing
<1>20. CatInv'
  BY <1>5, <1>6, <1>18, <1>19, NodesKeep
<1> QED BY <1>1, <1>5, <1>6, <1>20 DEF CatGoes

-----------------------------------------------------------------------------
(* The catalogue: links that are written over.                              *)

LEMMA LinkedOK ==
    ASSUME NEW n \in EntryNode, NEW L \in SUBSET (Types \cup Tags)
    PROVE  /\ LinkedTo(n, L) \in EntryNode
           /\ LinkedTo(n, L).there = n.there /\ LinkedTo(n, L).slug = n.slug
           /\ LinkedTo(n, L).vals = n.vals /\ LinkedTo(n, L).links = n.links \cup L
           /\ [n EXCEPT !.links = L] \in EntryNode
           /\ [n EXCEPT !.links = L].there = n.there /\ [n EXCEPT !.links = L].slug = n.slug
           /\ [n EXCEPT !.links = L].vals = n.vals /\ [n EXCEPT !.links = L].links = L
<1>1. n.links \cup L \in SUBSET (Types \cup Tags)
  BY DEF EntryNode
<1> QED BY <1>1 DEF EntryNode, LinkedTo

LEMMA UnlinkedOK ==
    ASSUME NEW n \in EntryNode, NEW L
    PROVE  /\ Unlinked(n, L) \in EntryNode
           /\ Unlinked(n, L).there = n.there /\ Unlinked(n, L).slug = n.slug
           /\ Unlinked(n, L).vals = n.vals /\ Unlinked(n, L).links = n.links \ L
<1>1. n.links \ L \in SUBSET (Types \cup Tags)
  BY DEF EntryNode
<1> QED BY <1>1 DEF EntryNode, Unlinked

\* The entries become `nodes`, which are as they were but for their links.
Relinked(nodes) ==
  /\ nodes \in [Entries -> EntryNode] /\ cat' = [cat EXCEPT !.node = nodes]
  /\ \A o \in Entries :
       /\ nodes[o].there = cat.node[o].there /\ nodes[o].slug = cat.node[o].slug
       /\ nodes[o].vals = cat.node[o].vals
       /\ nodes[o].links \subseteq cat.node[o].links \cup cat.type \cup {t \in Tags : doc.tag[t].slug # None}
  /\ catLog' \in CatLogRecord
  /\ catLog'.want = catLog.want /\ catLog'.stale = catLog.stale /\ catLog'.kept = catLog.kept /\ catLog'.doubled = catLog.doubled

LEMMA LinksWritten ==
    ASSUME CatsInv, NEW q \in Slots, NEW nodes, Relinked(nodes)
    PROVE  /\ cat' \in CatRecord /\ catLog' \in CatLogRecord /\ cat'.type = cat.type
           /\ cat'.node = nodes
           /\ NodesSound /\ EntriesAsAsked' /\ NamesGo(q)
<1>1. cat \in CatRecord
  BY DEF CatsInv, CatInv, CatTypes
<1>2. nodes \in [Entries -> EntryNode] /\ cat' = [cat EXCEPT !.node = nodes]
  BY DEF Relinked
<1>3. cat' \in CatRecord /\ cat'.node = nodes /\ cat'.type = cat.type
  BY <1>1, <1>2 DEF CatRecord
<1>4. NamesGo(q)
  BY <1>3, NamesFewer DEF Relinked
<1>5. NodesSound
  BY <1>3 DEF Relinked, NodesSound, CatsInv, CatInv, Linked, Here
<1>6. EntriesAsAsked'
  BY <1>3 DEF Relinked, EntriesAsAsked, BearsAsked, CatsInv, CatInv, Here
<1> QED BY <1>3, <1>4, <1>5, <1>6 DEF Relinked

\* What links a relinking puts on all of S.
LEMMA RelinkIs ==
    ASSUME CatsInv, NEW S, NEW L \in SUBSET (Types \cup Tags), cat' = Relink(S, L),
           L \subseteq cat.type \cup {t \in Tags : doc.tag[t].slug # None},
           catLog' \in CatLogRecord,
           catLog'.want = catLog.want, catLog'.stale = catLog.stale, catLog'.kept = catLog.kept, catLog'.doubled = catLog.doubled
    PROVE  \E nodes : Relinked(nodes)
<1>1. \A o \in Entries : cat.node[o] \in EntryNode
  BY DEF CatsInv, CatInv, CatTypes, CatRecord
<1>2. PICK nodes : nodes = [e \in Entries |-> IF e \in S THEN [cat.node[e] EXCEPT !.links = L] ELSE cat.node[e]]
  OBVIOUS
<1>3. cat' = [cat EXCEPT !.node = nodes]
  BY <1>2 DEF Relink
<1>4. nodes \in [Entries -> EntryNode]
  BY <1>1, <1>2, LinkedOK
<1>5. ASSUME NEW o \in Entries
      PROVE  /\ nodes[o].there = cat.node[o].there /\ nodes[o].slug = cat.node[o].slug
             /\ nodes[o].vals = cat.node[o].vals
             /\ nodes[o].links \subseteq cat.node[o].links \cup cat.type
                                         \cup {t \in Tags : doc.tag[t].slug # None}
  BY <1>1, <1>2, LinkedOK
<1> QED BY <1>3, <1>4, <1>5 DEF Relinked

LEMMA LinkIs ==
    ASSUME CatsInv, NEW S, NEW L \in SUBSET (Types \cup Tags),
           cat' = [cat EXCEPT !.node = [e \in Entries |-> IF e \in S THEN LinkedTo(cat.node[e], L) ELSE cat.node[e]]],
           L \subseteq cat.type \cup {t \in Tags : doc.tag[t].slug # None},
           catLog' \in CatLogRecord,
           catLog'.want = catLog.want, catLog'.stale = catLog.stale, catLog'.kept = catLog.kept, catLog'.doubled = catLog.doubled
    PROVE  \E nodes : Relinked(nodes)
<1>1. \A o \in Entries : cat.node[o] \in EntryNode
  BY DEF CatsInv, CatInv, CatTypes, CatRecord
<1>2. PICK nodes : nodes = [e \in Entries |-> IF e \in S THEN LinkedTo(cat.node[e], L) ELSE cat.node[e]]
  OBVIOUS
<1>3. cat' = [cat EXCEPT !.node = nodes]
  BY <1>2
<1>4. nodes \in [Entries -> EntryNode]
  BY <1>1, <1>2, LinkedOK
<1>5. ASSUME NEW o \in Entries
      PROVE  /\ nodes[o].there = cat.node[o].there /\ nodes[o].slug = cat.node[o].slug
             /\ nodes[o].vals = cat.node[o].vals
             /\ nodes[o].links \subseteq cat.node[o].links \cup cat.type
                                         \cup {t \in Tags : doc.tag[t].slug # None}
  <2>1. cat.node[o] \in EntryNode
    BY <1>1
  <2>2. CASE o \in S
    <3>1. nodes[o] = LinkedTo(cat.node[o], L)
      BY <1>2, <2>2
    <3>2. /\ LinkedTo(cat.node[o], L).there = cat.node[o].there
          /\ LinkedTo(cat.node[o], L).slug = cat.node[o].slug
          /\ LinkedTo(cat.node[o], L).vals = cat.node[o].vals
          /\ LinkedTo(cat.node[o], L).links = cat.node[o].links \cup L
      BY <2>1, LinkedOK
    <3> QED BY <3>1, <3>2
  <2>3. CASE o \notin S
    BY <1>2, <2>3
  <2> QED BY <2>2, <2>3
<1> QED BY <1>3, <1>4, <1>5 DEF Relinked

LEMMA TemplateTags ==
    ASSUME CatsInv, NEW q \in Slots, doc' = doc,
           DetachTemplateTags(q) \/ AttachTemplateTags(q)
    PROVE  CatGoes(q) /\ CatInv'
<1> USE DEF CatLabels, PlainLabels, TemplateLabels, HasEntry, HasSlug, HasPatch, HasTo, HasEntryRead, HasLinks,
            NamedLabels, WebhookLabels, McpLabels, PolicyLabels, BlueprintLabels, QuietLabels
<1>1. catLog \in CatLogRecord
  BY DEF CatsInv, CatInv, CatTypes
<1>2. CASE DetachTemplateTags(q)
  <2>1. PICK next : /\ next = (IF req[q].tags = {} THEN Idle ELSE To(q, "tpl.attach"))
                    /\ Step(q, "tpl.detach", next)
    BY <1>2 DEF DetachTemplateTags
  <2>2. Moves(q, next) /\ req[q].at = "tpl.detach"
    BY <2>1, StepMoves DEF CatsInv
  <2>3. (next = Idle \/ CatLocals(next)) /\ Fits(next) /\ next.at # "tpl.create"
    <3>1. CatLocals(req[q]) /\ Fits(req[q])
      BY <2>2, CatStands
    <3>2. /\ CatLocals(To(q, "tpl.attach")) /\ Fits(To(q, "tpl.attach"))
          /\ To(q, "tpl.attach").at = "tpl.attach"
      BY <2>2, <3>1 DEF CatLocals, To, Fits
    <3> QED BY <2>1, <3>2, IdleFits
  <2>4. PICK S : S = Named(req[q].slug)
    OBVIOUS
  <2>5. cat' = Relink(S, {}) /\ catLog' = catLog
    BY <1>2, <2>4 DEF DetachTemplateTags
  <2>6. PICK nodes : Relinked(nodes)
    BY <1>1, <2>5, RelinkIs
  <2>7. /\ cat' \in CatRecord /\ cat'.type = cat.type /\ NodesSound /\ EntriesAsAsked' /\ NamesGo(q)
    BY <2>6, LinksWritten
  <2>8. Owing'
    BY <2>2, <2>3, <2>5, <2>7, QuietWill, OwingRests
  <2>9. CatInv'
    BY <1>1, <2>2, <2>3, <2>5, <2>7, <2>8, NodesKeep
  <2> QED BY <2>2, <2>3, <2>9 DEF CatGoes
<1>3. CASE AttachTemplateTags(q)
  <2>1. Step(q, "tpl.attach", Idle)
    BY <1>3 DEF AttachTemplateTags
  <2>2. Moves(q, Idle) /\ req[q].at = "tpl.attach"
    BY <2>1, StepMoves DEF CatsInv
  <2>3. CatLocals(req[q]) /\ Fits(req[q])
    BY <2>2, CatStands
  <2>4. PICK S, L : S = Named(req[q].slug) /\ L = Tagged(req[q].tags)
    OBVIOUS
  <2>5. catLog' = catLog
    BY <1>3 DEF AttachTemplateTags
  <2>a. cat' = [cat EXCEPT !.node = [e \in Entries |-> IF e \in Named(req[q].slug)
                  THEN LinkedTo(cat.node[e], Tagged(req[q].tags)) ELSE cat.node[e]]]
    BY <1>3 DEF AttachTemplateTags
  <2>b. cat' = [cat EXCEPT !.node = [e \in Entries |-> IF e \in S
                  THEN LinkedTo(cat.node[e], L) ELSE cat.node[e]]]
    BY <2>4, <2>a
  <2>c. L \in SUBSET (Types \cup Tags) /\ L \subseteq cat.type \cup {t \in Tags : doc.tag[t].slug # None}
    <3>1. req[q].tags \in SUBSET TagSlugs
      BY <2>2, <2>3 DEF CatLocals
    <3> QED BY <2>4, <3>1, DocumentsAssumption DEF Tagged
  <2>6. PICK nodes : Relinked(nodes)
    BY <1>1, <2>5, <2>b, <2>c, LinkIs
  <2>7. /\ cat' \in CatRecord /\ cat'.type = cat.type /\ NodesSound /\ EntriesAsAsked' /\ NamesGo(q)
    BY <2>6, LinksWritten
  <2>8. Owing'
    BY <2>2, <2>5, <2>7, QuietWill, OwingRests, IdleFits
  <2>9. CatInv'
    BY <1>1, <2>2, <2>5, <2>7, <2>8, NodesKeep, IdleFits
  <2> QED BY <2>2, <2>9 DEF CatGoes
<1> QED BY <1>2, <1>3

-----------------------------------------------------------------------------
(* The catalogue: the targets of policies, and what is queued for them.     *)

\* Only what is owed and whether policies met is written.
LEMMA NothingWritten ==
    ASSUME CatsInv, NEW q \in Slots, cat' = cat, catLog' \in CatLogRecord,
           catLog'.want = catLog.want, catLog'.stale = catLog.stale, catLog'.kept = catLog.kept, catLog'.doubled = catLog.doubled
    PROVE  /\ cat' \in CatRecord /\ cat'.type = cat.type
           /\ NodesSound /\ EntriesAsAsked' /\ NamesGo(q)
<1>1. cat' \in CatRecord
  BY DEF CatsInv, CatInv, CatTypes
<1>2. NodesSound
  BY DEF NodesSound, CatsInv, CatInv, Linked, Here
<1>3. EntriesAsAsked'
  BY DEF CatsInv, CatInv, EntriesAsAsked, BearsAsked, Here
<1>4. NamesGo(q)
  BY NamesFewer
<1> QED BY <1>1, <1>2, <1>3, <1>4

LEMMA TargetsCleared ==
    ASSUME CatsInv, NEW q \in Slots, doc' = doc, ClearTargets(q)
    PROVE  CatGoes(q) /\ CatInv'
<1> USE DEF CatLabels, PlainLabels, TemplateLabels, HasEntry, HasSlug, HasPatch, HasTo, HasEntryRead, HasLinks,
            NamedLabels, WebhookLabels, McpLabels, PolicyLabels, BlueprintLabels, QuietLabels
<1>1. req[q].at = "pol.clear"
  BY DEF ClearTargets, At
<1>2. CatLocals(req[q]) /\ Fits(req[q])
  BY <1>1, CatStands
<1>3. PICK label : label = (IF req[q].links = {} THEN "pol.reload" ELSE "pol.link")
  OBVIOUS
<1>4. PICK next : next = [req[q] EXCEPT !.at = label, !.seen = {}] /\ Step(q, "pol.clear", next)
  BY <1>3 DEF ClearTargets
<1>5. Moves(q, next)
  BY <1>4, StepMoves DEF CatsInv
<1>6. /\ DOMAIN next = DOMAIN req[q] /\ next.at = label /\ next.seen = {}
      /\ next.links = req[q].links /\ next.was = req[q].was /\ next.fresh = req[q].fresh
      /\ next.slug = req[q].slug /\ ~next.fresh
  BY <1>1, <1>2, <1>4 DEF CatLocals, Fits
<1>7. CatLocals(next) /\ Fits(next) /\ next.at # "tpl.create"
  BY <1>1, <1>2, <1>3, <1>6 DEF CatLocals, Fits
<1>8. PICK g : g = Owes(catLog, req[q], req[q].links)
  OBVIOUS
<1>9. catLog' = Meets(g, req[q])
  BY <1>8 DEF ClearTargets
<1>10. /\ g \in CatLogRecord
       /\ g.want = catLog.want /\ g.stale = catLog.stale /\ g.kept = catLog.kept /\ g.doubled = catLog.doubled
       /\ g.met = catLog.met /\ g.owed \subseteq catLog.owed \cup Covers(req[q].links)
  BY <1>8, OwesLog
<1>11. /\ catLog' \in CatLogRecord
       /\ catLog'.want = g.want /\ catLog'.stale = g.stale /\ catLog'.kept = g.kept /\ catLog'.doubled = g.doubled
       /\ catLog'.owed = g.owed
       /\ ~catLog'.met => ~g.met
  BY ZenonT(30), <1>9, <1>10, MeetsLog
<1>12. PICK S : S = Named(req[q].slug)
  OBVIOUS
<1>13. cat' = Relink(S, {})
  BY <1>12 DEF ClearTargets
<1>14. PICK nodes : Relinked(nodes)
  BY <1>10, <1>11, <1>13, RelinkIs
<1>15. /\ cat' \in CatRecord /\ cat'.type = cat.type /\ NodesSound /\ EntriesAsAsked' /\ NamesGo(q)
  BY <1>14, LinksWritten
<1>16. Covers(req[q].links) \cup Covers(req[q].was) \subseteq Will(next)
  <2>1. CASE req[q].links = {}
    <3>1. next.at = "pol.reload" /\ Covers(next.seen) = Covers(req[q].links)
      BY <1>3, <1>6, <2>1 DEF Covers
    <3> QED BY <1>6, <3>1 DEF Will
  <2>2. CASE req[q].links # {}
    <3>1. next.at = "pol.link"
      BY <1>3, <1>6, <2>2
    <3> QED BY <1>6, <3>1 DEF Will
  <2> QED BY <2>1, <2>2
<1>17. Owing'
  <2>1. Will(req[q]) = Covers(req[q].was)
    BY <1>1 DEF Will
  <2>2. Covers(req[q].links) \subseteq cat.type
    BY CoversLive
  <2>3. catLog'.owed \subseteq cat.type
    BY <1>10, <1>11, <2>2 DEF CatsInv, CatInv, Owing
  <2>4. \A x \in catLog'.owed : x \in Will(next) \/ (x \in catLog.owed /\ x \notin Will(req[q]))
    BY <1>10, <1>11, <1>16, <2>1
  <2>5. (catLog'.doubled => "templates" \in mix) /\ (~catLog'.met => ~catLog.met)
    BY <1>10, <1>11 DEF CatsInv, CatInv, Owing
  <2> QED BY <1>5, <1>7, <1>15, <2>3, <2>4, <2>5, OwingGoes
<1>18. CatInv'
  BY <1>5, <1>7, <1>11, <1>15, <1>17, NodesKeep
<1> QED BY <1>1, <1>5, <1>7, <1>18 DEF CatGoes

LEMMA TargetsLinked ==
    ASSUME CatsInv, NEW q \in Slots, doc' = doc, CreateTargetEdges(q)
    PROVE  CatGoes(q) /\ CatInv'
<1> USE DEF CatLabels, PlainLabels, TemplateLabels, HasEntry, HasSlug, HasPatch, HasTo, HasEntryRead, HasLinks,
            NamedLabels, WebhookLabels, McpLabels, PolicyLabels, BlueprintLabels, QuietLabels
<1>1. req[q].at = "pol.link"
  BY DEF CreateTargetEdges, At
<1>2. CatLocals(req[q]) /\ Fits(req[q])
  BY <1>1, CatStands
<1>3. PICK T : T = req[q].links \cap cat.type
  OBVIOUS
<1>4. PICK next : next = [req[q] EXCEPT !.at = "pol.reload", !.seen = T] /\ Step(q, "pol.link", next)
  BY <1>3 DEF CreateTargetEdges
<1>5. Moves(q, next)
  BY <1>4, StepMoves DEF CatsInv
<1>6. /\ DOMAIN next = DOMAIN req[q] /\ next.at = "pol.reload" /\ next.seen = T
      /\ next.was = req[q].was /\ next.fresh = req[q].fresh /\ next.slug = req[q].slug
      /\ next.fresh \in BOOLEAN
  BY <1>1, <1>2, <1>4 DEF CatLocals, Fits
<1>7. CatLocals(next) /\ Fits(next) /\ next.at # "tpl.create"
  BY <1>1, <1>2, <1>6 DEF CatLocals, Fits
<1>8. catLog' = Meets(catLog, req[q]) /\ catLog \in CatLogRecord
  BY DEF CreateTargetEdges, CatsInv, CatInv, CatTypes
<1>9. /\ catLog' \in CatLogRecord
      /\ catLog'.want = catLog.want /\ catLog'.stale = catLog.stale /\ catLog'.kept = catLog.kept /\ catLog'.doubled = catLog.doubled
      /\ catLog'.owed = catLog.owed
      /\ ~catLog'.met => ~catLog.met
  BY ZenonT(30), <1>8, MeetsLog
<1>10. PICK S : S = Named(req[q].slug)
  OBVIOUS
<1>11. cat' = [cat EXCEPT !.node = [e \in Entries |-> IF e \in Named(req[q].slug)
                 THEN LinkedTo(cat.node[e], req[q].links \cap cat.type) ELSE cat.node[e]]]
  BY DEF CreateTargetEdges
<1>12. cat' = [cat EXCEPT !.node = [e \in Entries |-> IF e \in S
                 THEN LinkedTo(cat.node[e], T) ELSE cat.node[e]]]
  BY <1>3, <1>10, <1>11
<1>13. T \in SUBSET (Types \cup Tags) /\ T \subseteq cat.type
  BY <1>3 DEF CatsInv, CatInv, CatTypes, CatRecord
<1>14. PICK nodes : Relinked(nodes)
  BY <1>9, <1>12, <1>13, LinkIs
<1>15. /\ cat' \in CatRecord /\ cat'.type = cat.type /\ NodesSound /\ EntriesAsAsked' /\ NamesGo(q)
  BY <1>14, LinksWritten
<1>16. Will(req[q]) \subseteq Will(next)
  <2>1. Covers(req[q].links) \subseteq Covers(T)
    BY <1>3 DEF Covers
  <2>2. Will(req[q]) = Covers(req[q].links) \cup (IF req[q].fresh THEN {} ELSE Covers(req[q].was))
    BY <1>1 DEF Will
  <2>3. Will(next) = Covers(T) \cup (IF req[q].fresh THEN {} ELSE Covers(req[q].was))
    BY <1>6 DEF Will
  <2> QED BY <2>1, <2>2, <2>3
<1>17. Owing'
  BY <1>5, <1>7, <1>9, <1>15, <1>16, OwingGoes DEF CatsInv, CatInv, Owing
<1>18. CatInv'
  BY <1>5, <1>7, <1>9, <1>15, <1>17, NodesKeep
<1> QED BY <1>1, <1>5, <1>7, <1>18 DEF CatGoes

LEMMA PolicyReloaded ==
    ASSUME CatsInv, NEW q \in Slots, doc' = doc, ReloadPolicy(q)
    PROVE  CatGoes(q) /\ CatInv'
<1> USE DEF CatLabels, PlainLabels, TemplateLabels, HasEntry, HasSlug, HasPatch, HasTo, HasEntryRead, HasLinks,
            NamedLabels, WebhookLabels, McpLabels, PolicyLabels, BlueprintLabels, QuietLabels
<1>1. req[q].at = "pol.reload"
  BY DEF ReloadPolicy, At
<1>2. CatLocals(req[q]) /\ Fits(req[q])
  BY <1>1, CatStands
<1>3. cat' = cat /\ catLog' = Meets(catLog, req[q]) /\ catLog \in CatLogRecord
  BY DEF ReloadPolicy, CatsInv, CatInv, CatTypes
<1>4. /\ catLog' \in CatLogRecord
      /\ catLog'.want = catLog.want /\ catLog'.stale = catLog.stale /\ catLog'.kept = catLog.kept /\ catLog'.doubled = catLog.doubled
      /\ catLog'.owed = catLog.owed
      /\ ~catLog'.met => ~catLog.met /\ \E e \in Named(req[q].slug) : cat.node[e].links = req[q].seen
  BY ZenonT(30), <1>3, MeetsLog
<1>5. /\ cat' \in CatRecord /\ cat'.type = cat.type /\ NodesSound /\ EntriesAsAsked' /\ NamesGo(q)
  BY <1>3, <1>4, NothingWritten
<1>6. ASSUME NEW next, Step(q, "pol.reload", next), next = Idle \/ CatLocals(next), Fits(next),
             next.at # "tpl.create", ~catLog'.met => Will(req[q]) \subseteq Will(next)
      PROVE  CatGoes(q) /\ CatInv'
  <2>1. Moves(q, next)
    BY <1>6, StepMoves DEF CatsInv
  <2>2. Owing'
    BY <1>4, <1>5, <1>6, <2>1, OwingGoes DEF CatsInv, CatInv, Owing
  <2>3. CatInv'
    BY <1>4, <1>5, <1>6, <2>1, <2>2, NodesKeep
  <2> QED BY <1>1, <1>6, <2>1, <2>3 DEF CatGoes
<1>7. CASE Named(req[q].slug) = {}
  <2>1. Step(q, "pol.reload", Idle) /\ catLog'.met
    BY <1>4, <1>7 DEF ReloadPolicy
  <2> QED BY <1>6, <2>1, IdleFits
<1>8. CASE Named(req[q].slug) # {}
  <2>1. PICK e \in Named(req[q].slug) :
          Step(q, "pol.reload", [req[q] EXCEPT !.at = "pol.requeue", !.seen = cat.node[e].links])
    BY <1>8 DEF ReloadPolicy
  <2>2. PICK links : links = cat.node[e].links
    OBVIOUS
  <2>3. PICK next : next = [req[q] EXCEPT !.at = "pol.requeue", !.seen = links] /\ Step(q, "pol.reload", next)
    BY <2>1, <2>2
  <2>4. /\ DOMAIN next = DOMAIN req[q] /\ next.at = "pol.requeue" /\ next.seen = links
        /\ next.was = req[q].was /\ next.fresh = req[q].fresh /\ next.slug = req[q].slug
    BY <1>1, <1>2, <2>3 DEF CatLocals, Fits
  <2>5. CatLocals(next) /\ Fits(next) /\ next.at # "tpl.create"
    BY <1>1, <1>2, <2>4 DEF CatLocals, Fits
  <2>6. ASSUME ~catLog'.met PROVE Will(req[q]) \subseteq Will(next)
    <3>1. PICK o \in Named(req[q].slug) : cat.node[o].links = req[q].seen
      BY <1>4, <2>6
    <3>2. ~catLog.doubled
      BY <1>1, <1>2, KindsApart DEF Fits, CatsInv, CatInv, Owing
    <3>3. o = e
      BY <2>1, <3>1, <3>2 DEF Named, CatsInv, CatInv, Unique
    <3>4. links = req[q].seen
      BY <2>2, <3>1, <3>3
    <3>5. Will(req[q]) = Covers(req[q].seen) \cup (IF req[q].fresh THEN {} ELSE Covers(req[q].was))
      BY <1>1 DEF Will
    <3>6. Will(next) = Covers(links) \cup (IF req[q].fresh THEN {} ELSE Covers(req[q].was))
      BY <2>4 DEF Will
    <3> QED BY <3>4, <3>5, <3>6
  <2> QED BY <1>6, <2>3, <2>5, <2>6
<1> QED BY <1>7, <1>8

\* What is queued is no longer owed.
LEMMA Requeued ==
    ASSUME CatsInv, NEW q \in Slots, NEW next, NEW label, NEW S, doc' = doc, Step(q, label, next), label \in CatLabels,
           next = Idle \/ CatLocals(next), Fits(next), next.at # "tpl.create",
           cat' = cat, catLog' = [catLog EXCEPT !.owed = @ \ S],
           Will(req[q]) \subseteq Will(next) \cup S
    PROVE  CatGoes(q) /\ CatInv'
<1>1. catLog \in CatLogRecord
  BY DEF CatsInv, CatInv, CatTypes
<1>2. catLog' \in CatLogRecord
  BY <1>1 DEF CatLogRecord
<1>3. /\ catLog'.want = catLog.want /\ catLog'.stale = catLog.stale /\ catLog'.kept = catLog.kept /\ catLog'.doubled = catLog.doubled
      /\ catLog'.owed = catLog.owed \ S /\ catLog'.met = catLog.met
  BY <1>1 DEF CatLogRecord
<1>4. /\ cat' \in CatRecord /\ cat'.type = cat.type /\ NodesSound /\ EntriesAsAsked' /\ NamesGo(q)
  BY <1>2, <1>3, NothingWritten
<1>5. Moves(q, next) /\ req[q].at = label
  BY StepMoves DEF CatsInv
<1>6. Owing'
  BY <1>3, <1>4, <1>5, OwingGoes DEF CatsInv, CatInv, Owing
<1>7. CatInv'
  BY <1>2, <1>4, <1>5, <1>6, NodesKeep
<1> QED BY <1>5, <1>7 DEF CatGoes

LEMMA RequeuesKeep ==
    ASSUME CatsInv, NEW q \in Slots, doc' = doc,
           RequeueCovered(q) \/ RequeueWas(q) \/ RequeueBlueprint(q)
    PROVE  CatGoes(q) /\ CatInv'
<1> USE DEF CatLabels, PlainLabels, TemplateLabels, HasEntry, HasSlug, HasPatch, HasTo, HasEntryRead, HasLinks,
            NamedLabels, WebhookLabels, McpLabels, PolicyLabels, BlueprintLabels
<1>1. CASE RequeueCovered(q)
  <2>1. req[q].at = "pol.requeue"
    BY <1>1 DEF RequeueCovered, Step, At
  <2>2. CatLocals(req[q]) /\ Fits(req[q])
    BY <2>1, CatStands
  <2>3. PICK next : /\ next = (IF req[q].fresh THEN Idle ELSE To(q, "pol.requeue.was"))
                    /\ Step(q, "pol.requeue", next)
    BY <1>1 DEF RequeueCovered
  <2>4. PICK S : S = Covers(req[q].seen)
    OBVIOUS
  <2>5. cat' = cat /\ catLog' = [catLog EXCEPT !.owed = @ \ S]
    BY <1>1, <2>4 DEF RequeueCovered
  <2>6. Will(req[q]) = S \cup (IF req[q].fresh THEN {} ELSE Covers(req[q].was))
    BY <2>1, <2>4 DEF Will
  <2>7. CASE req[q].fresh
    <3>1. next = Idle
      BY <2>3, <2>7
    <3>2. Will(req[q]) \subseteq S
      BY <2>6, <2>7
    <3> QED BY <2>3, <2>5, <3>1, <3>2, Requeued, IdleFits
  <2>8. CASE ~req[q].fresh
    <3>1. next = To(q, "pol.requeue.was")
      BY <2>3, <2>8
    <3>2. CatLocals(next) /\ Fits(next) /\ next.at = "pol.requeue.was" /\ next.was = req[q].was
      BY <2>1, <2>2, <3>1 DEF CatLocals, To, Fits
    <3>3. Will(next) = Covers(req[q].was)
      BY <3>2 DEF Will
    <3>4. Will(req[q]) \subseteq Will(next) \cup S
      BY <2>6, <2>8, <3>3
    <3> QED BY <2>3, <2>5, <3>2, <3>4, Requeued
  <2> QED BY <2>7, <2>8
<1>2. CASE RequeueWas(q)
  <2>1. req[q].at = "pol.requeue.was" /\ Step(q, "pol.requeue.was", Idle)
    BY <1>2 DEF RequeueWas, Step, At
  <2>2. PICK S : S = Covers(req[q].was)
    OBVIOUS
  <2>3. cat' = cat /\ catLog' = [catLog EXCEPT !.owed = @ \ S]
    BY <1>2, <2>2 DEF RequeueWas
  <2>4. Will(req[q]) = S
    BY <2>1, <2>2 DEF Will
  <2> QED BY <2>1, <2>3, <2>4, Requeued, IdleFits
<1>3. CASE RequeueBlueprint(q)
  <2>1. req[q].at = "blu.requeue" /\ Step(q, "blu.requeue", Idle)
    BY <1>3 DEF RequeueBlueprint, Step, At
  <2>2. PICK S : S = Covers(req[q].links)
    OBVIOUS
  <2>3. cat' = cat /\ catLog' = [catLog EXCEPT !.owed = @ \ S]
    BY <1>3, <2>2 DEF RequeueBlueprint
  <2>4. Will(req[q]) = S
    BY <2>1, <2>2 DEF Will
  <2> QED BY <2>1, <2>3, <2>4, Requeued, IdleFits
<1> QED BY <1>1, <1>2, <1>3

\* The nodes of S are deleted, on top of the log g.
LEMMA NodesGone ==
    ASSUME CatsInv, NEW q \in Slots, NEW S, NEW g \in CatLogRecord,
           g.want = catLog.want, g.stale = catLog.stale, g.kept = catLog.kept, g.doubled = catLog.doubled, Without(S, g)
    PROVE  /\ cat' \in CatRecord /\ catLog' \in CatLogRecord /\ cat'.type = cat.type
           /\ NodesSound /\ EntriesAsAsked' /\ NamesGo(q)
           /\ catLog'.owed = g.owed /\ catLog'.met = g.met /\ catLog'.doubled = catLog.doubled
<1>1. cat \in CatRecord
  BY DEF CatsInv, CatInv, CatTypes
<1>2. PICK nodes : nodes = [e \in Entries |-> IF e \in S THEN Gone ELSE cat.node[e]]
  OBVIOUS
<1>3. PICK wanted : wanted = [e \in Entries |-> IF e \in S THEN Gone ELSE g.want[e]]
  OBVIOUS
<1>4. cat' = [cat EXCEPT !.node = nodes] /\ catLog' = [g EXCEPT !.want = wanted, !.stale = @ \ S]
  BY <1>2, <1>3 DEF Without
<1>5. nodes \in [Entries -> EntryNode] /\ wanted \in [Entries -> EntryNode]
  BY <1>1, <1>2, <1>3, MadeOK DEF CatRecord, CatLogRecord
<1>6. cat' \in CatRecord /\ cat'.type = cat.type /\ cat'.node = nodes
  BY <1>1, <1>4, <1>5 DEF CatRecord
<1>7. catLog' \in CatLogRecord
  BY <1>4, <1>5 DEF CatLogRecord
<1>8. /\ catLog'.want = wanted /\ catLog'.stale = catLog.stale \ S /\ catLog'.kept = catLog.kept
      /\ catLog'.owed = g.owed /\ catLog'.met = g.met /\ catLog'.doubled = catLog.doubled
  BY <1>4 DEF CatLogRecord
<1>9. NamesGo(q)
  <2>1. \A e \in Entries : cat'.node[e].there =>
             cat.node[e].there /\ cat'.node[e].slug = cat.node[e].slug
    BY <1>2, <1>6, MadeOK
  <2> QED BY <1>8, <2>1, NamesFewer
<1>10. NodesSound
  BY <1>2, <1>6, MadeOK DEF NodesSound, CatsInv, CatInv, Linked, Here
<1>11. EntriesAsAsked'
  <2>1. ASSUME NEW e \in Entries \ catLog'.stale
        PROVE  /\ nodes[e].there = wanted[e].there
               /\ nodes[e].slug = wanted[e].slug \/ <<e, nodes[e].slug>> \in catLog'.kept
               /\ nodes[e].vals = wanted[e].vals
    <3>1. CASE e \in S
      BY <1>2, <1>3, <3>1
    <3>2. CASE e \notin S
      BY <1>2, <1>3, <1>8, <3>2 DEF CatsInv, CatInv, EntriesAsAsked, BearsAsked, Here
    <3> QED BY <3>1, <3>2
  <2> QED BY <1>6, <1>8, <2>1 DEF EntriesAsAsked, BearsAsked, Here
<1> QED BY <1>6, <1>7, <1>8, <1>9, <1>10, <1>11

LEMMA DeletesKeep ==
    ASSUME CatsInv, NEW q \in Slots, doc' = doc,
           DeletePolicyNode(q) \/ DeleteBlueprintNode(q)
    PROVE  CatGoes(q) /\ CatInv'
<1> USE DEF CatLabels, PlainLabels, TemplateLabels, HasEntry, HasSlug, HasPatch, HasTo, HasEntryRead, HasLinks,
            NamedLabels, WebhookLabels, McpLabels, PolicyLabels, BlueprintLabels, QuietLabels
<1>1. CASE DeletePolicyNode(q)
  <2>1. req[q].at = "pol.delete"
    BY <1>1 DEF DeletePolicyNode, At
  <2>2. CatLocals(req[q]) /\ Fits(req[q])
    BY <2>1, CatStands
  <2>3. PICK next : next = To(q, "pol.requeue.was") /\ Step(q, "pol.delete", next)
    BY <1>1 DEF DeletePolicyNode
  <2>4. Moves(q, next)
    BY <2>3, StepMoves DEF CatsInv
  <2>5. CatLocals(next) /\ Fits(next) /\ next.at = "pol.requeue.was" /\ next.was = req[q].was
    BY <2>1, <2>2, <2>3 DEF CatLocals, To, Fits
  <2>6. PICK g : g = Owes(catLog, req[q], req[q].was)
    OBVIOUS
  <2>7. PICK w : w = Meets(g, req[q])
    OBVIOUS
  <2>8. /\ g \in CatLogRecord
        /\ g.want = catLog.want /\ g.stale = catLog.stale /\ g.kept = catLog.kept /\ g.doubled = catLog.doubled
        /\ g.met = catLog.met /\ g.owed \subseteq catLog.owed \cup Covers(req[q].was)
    BY <2>6, OwesLog
  <2>9. /\ w \in CatLogRecord
        /\ w.want = g.want /\ w.stale = g.stale /\ w.kept = g.kept /\ w.doubled = g.doubled
        /\ w.owed = g.owed
        /\ ~w.met => ~g.met
    BY ZenonT(30), <2>7, <2>8, MeetsLog
  <2>10. PICK S : S = Named(req[q].slug)
    OBVIOUS
  <2>11. Without(S, w)
    BY <1>1, <2>6, <2>7, <2>10 DEF DeletePolicyNode
  <2>12. /\ cat' \in CatRecord /\ catLog' \in CatLogRecord /\ cat'.type = cat.type
         /\ NodesSound /\ EntriesAsAsked' /\ NamesGo(q)
         /\ catLog'.owed = w.owed /\ catLog'.met = w.met /\ catLog'.doubled = catLog.doubled
    BY <2>8, <2>9, <2>11, NodesGone
  <2>13. Owing'
    <3>1. Will(req[q]) = {}
      BY <2>1, QuietWill
    <3>2. Will(next) = Covers(req[q].was) /\ Covers(req[q].was) \subseteq cat.type
      BY <2>5, CoversLive DEF Will
    <3> QED BY <2>4, <2>5, <2>8, <2>9, <2>12, <3>1, <3>2, OwingGoes DEF CatsInv, CatInv, Owing
  <2>14. CatInv'
    BY <2>4, <2>5, <2>12, <2>13, NodesKeep
  <2> QED BY <2>1, <2>4, <2>5, <2>14 DEF CatGoes
<1>2. CASE DeleteBlueprintNode(q)
  <2>1. req[q].at = "blu.delete"
    BY <1>2 DEF DeleteBlueprintNode, At
  <2>2. CatLocals(req[q]) /\ Fits(req[q])
    BY <2>1, CatStands
  <2>3. PICK next : /\ next = (IF Named(req[q].slug) = {} THEN Idle ELSE To(q, "blu.requeue"))
                    /\ Step(q, "blu.delete", next)
    BY <1>2 DEF DeleteBlueprintNode
  <2>4. Moves(q, next)
    BY <2>3, StepMoves DEF CatsInv
  <2>5. /\ CatLocals(To(q, "blu.requeue")) /\ Fits(To(q, "blu.requeue"))
        /\ To(q, "blu.requeue").at = "blu.requeue" /\ To(q, "blu.requeue").links = req[q].links
    BY <2>1, <2>2 DEF CatLocals, To, Fits
  <2>6. (next = Idle \/ CatLocals(next)) /\ Fits(next) /\ next.at # "tpl.create"
    BY <2>3, <2>5, IdleFits
  <2>7. PICK g : g = Owes(catLog, req[q], req[q].links)
    OBVIOUS
  <2>8. /\ g \in CatLogRecord
        /\ g.want = catLog.want /\ g.stale = catLog.stale /\ g.kept = catLog.kept /\ g.doubled = catLog.doubled
        /\ g.met = catLog.met /\ g.owed \subseteq catLog.owed \cup Covers(req[q].links)
        /\ Named(req[q].slug) = {} => g.owed = catLog.owed
    BY <2>7, OwesLog
  <2>9. PICK S : S = Named(req[q].slug)
    OBVIOUS
  <2>10. Without(S, g)
    BY <1>2, <2>7, <2>9 DEF DeleteBlueprintNode
  <2>11. /\ cat' \in CatRecord /\ catLog' \in CatLogRecord /\ cat'.type = cat.type
         /\ NodesSound /\ EntriesAsAsked' /\ NamesGo(q)
         /\ catLog'.owed = g.owed /\ catLog'.met = g.met /\ catLog'.doubled = catLog.doubled
    BY <2>8, <2>10, NodesGone
  <2>12. Owing'
    <3>1. Will(req[q]) = {}
      BY <2>1, QuietWill
    <3>2. Covers(req[q].links) \subseteq cat.type
      BY CoversLive
    <3>3. Named(req[q].slug) # {} => Will(next) = Covers(req[q].links)
      BY <2>3, <2>5 DEF Will
    <3>4. \A x \in catLog'.owed : x \in Will(next) \/ x \in catLog.owed
      BY <2>8, <2>11, <3>3
    <3>5. catLog'.owed \subseteq cat.type
      BY <2>8, <2>11, <3>2 DEF CatsInv, CatInv, Owing
    <3> QED BY <2>4, <2>6, <2>8, <2>11, <3>1, <3>4, <3>5, OwingGoes DEF CatsInv, CatInv, Owing
  <2>13. CatInv'
    BY <2>4, <2>6, <2>11, <2>12, NodesKeep
  <2> QED BY <2>1, <2>4, <2>6, <2>13 DEF CatGoes
<1> QED BY <1>1, <1>2

-----------------------------------------------------------------------------
(* The catalogue: blueprints that are written, and project types that go.   *)

\* An entry is written over, and wanted as asked unless the write goes over one
\* that was not read.
LEMMA PlacedOver ==
    ASSUME CatsInv, NEW e \in Entries, NEW n \in EntryNode, NEW m \in EntryNode,
           n.there <=> n.slug # None, n.links \subseteq cat.type,
           cat' = [cat EXCEPT !.node[e] = n],
           catLog' \in CatLogRecord, catLog'.want = [catLog.want EXCEPT ![e] = m],
           e \notin catLog'.stale => m = n,
           catLog.stale \subseteq catLog'.stale \cup {e}, catLog.kept \subseteq catLog'.kept
    PROVE  /\ cat' \in CatRecord /\ cat'.type = cat.type /\ cat'.node[e] = n
           /\ \A o \in Entries : o # e => cat'.node[o] = cat.node[o]
           /\ NodesSound /\ EntriesAsAsked'
<1>1. cat \in CatRecord /\ catLog \in CatLogRecord
  BY DEF CatsInv, CatInv, CatTypes
<1>2. cat' \in CatRecord
  BY <1>1 DEF CatRecord
<1>3. cat'.node = [cat.node EXCEPT ![e] = n] /\ cat'.type = cat.type
  BY <1>1 DEF CatRecord
<1>4. cat'.node[e] = n /\ \A o \in Entries : o # e => cat'.node[o] = cat.node[o]
  BY <1>1, <1>3 DEF CatRecord
<1>5. catLog'.want[e] = m /\ \A o \in Entries : o # e => catLog'.want[o] = catLog.want[o]
  BY <1>1 DEF CatLogRecord
<1>6. NodesSound
  BY <1>4 DEF NodesSound, CatsInv, CatInv, Linked, Here
<1>7. EntriesAsAsked'
  BY <1>4, <1>5 DEF EntriesAsAsked, BearsAsked, CatsInv, CatInv, Here
<1> QED BY <1>2, <1>3, <1>4, <1>6, <1>7

\* What a MERGE on a slug writes.
LEMMA TargetOne ==
    ASSUME CatsInv, "blueprints" \in mix, NEW s, Room(s), NEW e \in Target(s)
    PROVE  e \in Entries /\ Named(s) \ {e} = {}
<1>1. CASE Named(s) = {}
  <2>1. e = CHOOSE o \in Entries : ~Here(o)
    BY <1>1 DEF Target
  <2>2. \E o \in Entries : ~Here(o)
    BY <1>1 DEF Room
  <2> QED BY <1>1, <2>1, <2>2
<1>2. CASE Named(s) # {}
  <2>1. e \in Named(s)
    BY <1>2 DEF Target
  <2>2. ~catLog.doubled
    BY KindsApart DEF CatsInv, CatInv, Owing
  <2> QED BY <2>1, <2>2 DEF Named, CatsInv, CatInv, Unique
<1> QED BY <1>1, <1>2

LEMMA BlueprintMerged ==
    ASSUME CatsInv, NEW q \in Slots, doc' = doc,
           CreateBlueprintMerge(q) \/ PatchBlueprintMerge(q)
    PROVE  CatGoes(q) /\ CatInv'
<1> USE DEF CatLabels, PlainLabels, TemplateLabels, HasEntry, HasSlug, HasPatch, HasTo, HasEntryRead, HasLinks,
            NamedLabels, WebhookLabels, McpLabels, PolicyLabels, BlueprintLabels, QuietLabels
<1>1. req[q].at \in {"blu.create", "blu.save"}
  BY DEF CreateBlueprintMerge, PatchBlueprintMerge, At
<1>2. CatLocals(req[q]) /\ Fits(req[q])
  BY <1>1, CatStands
<1>3. "blueprints" \in mix /\ "templates" \notin mix /\ cat.type = Types
  BY <1>1, <1>2, KindsApart DEF Fits, CatsInv, CatInv, Linked
<1>4. PICK s \in TagSlugs, T \in SUBSET Types, ask \in Changes(Fields) :
        s = req[q].slug /\ T = req[q].links /\ ask = req[q].ask
  BY <1>1, <1>2 DEF CatLocals
<1>5. PICK e \in Target(s) : /\ Room(s)
        /\ Step(q, req[q].at, To(q, "blu.requeue"))
        /\ \/ /\ req[q].at = "blu.create"
              /\ cat' = [cat EXCEPT !.node[e] = [Made(s, T) EXCEPT !.vals = Patched(@, ask)]]
              /\ catLog' = [catLog EXCEPT !.want[e] = [Made(s, T) EXCEPT !.vals = Patched(@, ask)],
                                          !.stale = @ \ {e}, !.owed = @ \cup Covers(T)]
           \/ /\ req[q].at = "blu.save"
              /\ cat' = [cat EXCEPT !.node[e] = [Made(s, T) EXCEPT !.vals = Patched(req[q].read.vals, ask)]]
              /\ catLog' = [Overwrites(catLog, e, req[q].read) EXCEPT
                   !.want[e] = [Made(s, T) EXCEPT !.vals = Patched(catLog.want[e].vals, ask)],
                   !.owed = @ \cup Covers(T)]
  BY ZenonT(30), <1>4 DEF CreateBlueprintMerge, PatchBlueprintMerge, At
<1>6. e \in Entries /\ Named(s) \ {e} = {}
  BY <1>3, <1>5, TargetOne
<1>7. PICK next : next = To(q, "blu.requeue") /\ Step(q, req[q].at, next)
  BY <1>5
<1>8. Moves(q, next)
  BY <1>7, StepMoves DEF CatsInv
<1>9. CatLocals(next) /\ Fits(next) /\ next.at = "blu.requeue" /\ next.links = T
  BY <1>1, <1>2, <1>4, <1>7 DEF CatLocals, To, Fits
<1>10. catLog \in CatLogRecord /\ cat \in CatRecord
  BY DEF CatsInv, CatInv, CatTypes
<1>11. Covers(T) \subseteq Types /\ Covers(T) \subseteq cat.type /\ Covers(T) = Will(next)
  BY <1>9, <1>10, CoversLive DEF Will, CatRecord
<1>12. \A v \in [Fields -> Values] :
          /\ [Made(s, T) EXCEPT !.vals = v] \in EntryNode
          /\ [Made(s, T) EXCEPT !.vals = v].there /\ [Made(s, T) EXCEPT !.vals = v].slug = s
          /\ [Made(s, T) EXCEPT !.vals = v].links = T
  BY MadeOK DEF Made, EntryNode
<1>13. s # None
  BY DocumentsAssumption
<1>14. ASSUME NEW n \in EntryNode, NEW m \in EntryNode, n.there, n.slug = s, n.links = T,
              cat' = [cat EXCEPT !.node[e] = n],
              catLog' \in CatLogRecord, catLog'.want = [catLog.want EXCEPT ![e] = m],
              e \notin catLog'.stale => m = n,
              catLog.stale \subseteq catLog'.stale \cup {e}, catLog'.kept = catLog.kept,
              catLog'.owed = catLog.owed \cup Covers(T), catLog'.met = catLog.met,
              catLog'.doubled = catLog.doubled
       PROVE  CatInv'
  <2>1. n.there <=> n.slug # None
    BY <1>13, <1>14
  <2>2. n.links \subseteq cat.type
    BY <1>3, <1>14
  <2>3. /\ cat' \in CatRecord /\ cat'.type = cat.type /\ cat'.node[e] = n
        /\ \A o \in Entries : o # e => cat'.node[o] = cat.node[o]
        /\ NodesSound /\ EntriesAsAsked'
    BY <1>6, <1>14, <2>1, <2>2, PlacedOver
  <2>4. NamesGo(q)
    BY <1>3, <1>6, <1>14, <2>3, OneNamed
  <2>5. Owing'
    <3>1. Will(req[q]) = {}
      BY <1>1, QuietWill
    <3> QED BY <1>8, <1>9, <1>11, <1>14, <2>3, <3>1, OwingGoes DEF CatsInv, CatInv, Owing
  <2> QED BY <1>8, <1>9, <1>14, <2>3, <2>4, <2>5, NodesKeep
<1>15. CASE req[q].at = "blu.create"
  <2>1. PICK v : v = Patched(Made(s, T).vals, ask)
    OBVIOUS
  <2>2. v \in [Fields -> Values]
    <3>1. Made(s, T).vals \in [Fields -> Values]
      BY MadeOK DEF EntryNode
    <3> QED BY <2>1, <3>1, PatchedOK
  <2>3. PICK n \in EntryNode : n = [Made(s, T) EXCEPT !.vals = v]
    BY <1>12, <2>2
  <2>4. n.there /\ n.slug = s /\ n.links = T
    BY <1>12, <2>2, <2>3
  <2>5. /\ cat' = [cat EXCEPT !.node[e] = n]
        /\ catLog' = [catLog EXCEPT !.want[e] = n, !.stale = @ \ {e}, !.owed = @ \cup Covers(T)]
    BY <1>5, <1>15, <2>1, <2>3
  <2>6. catLog' \in CatLogRecord
    BY <1>6, <1>10, <1>11, <2>5 DEF CatLogRecord
  <2>7. /\ catLog'.want = [catLog.want EXCEPT ![e] = n] /\ catLog'.stale = catLog.stale \ {e}
        /\ catLog'.owed = catLog.owed \cup Covers(T) /\ catLog'.met = catLog.met
        /\ catLog'.doubled = catLog.doubled /\ catLog'.kept = catLog.kept
    BY <1>10, <2>5 DEF CatLogRecord
  <2>8. CatInv'
    BY <1>14, <2>4, <2>5, <2>6, <2>7
  <2> QED BY <1>1, <1>8, <1>9, <2>8 DEF CatGoes
<1>16. CASE req[q].at = "blu.save"
  <2>1. PICK read \in EntryNode : read = req[q].read
    BY <1>2, <1>16 DEF CatLocals
  <2>2. PICK v, u : v = Patched(read.vals, ask) /\ u = Patched(catLog.want[e].vals, ask)
    OBVIOUS
  <2>3. v \in [Fields -> Values] /\ u \in [Fields -> Values]
    <3>1. read.vals \in [Fields -> Values] /\ catLog.want[e].vals \in [Fields -> Values]
      BY <1>6, <1>10 DEF EntryNode, CatLogRecord
    <3> QED BY <2>2, <3>1, PatchedOK
  <2>4. PICK n \in EntryNode, m \in EntryNode :
          n = [Made(s, T) EXCEPT !.vals = v] /\ m = [Made(s, T) EXCEPT !.vals = u]
    BY <1>12, <2>3
  <2>5. n.there /\ n.slug = s /\ n.links = T
    BY <1>12, <2>3, <2>4
  <2>6. PICK w : w = Overwrites(catLog, e, read)
    OBVIOUS
  <2>7. /\ w \in CatLogRecord
        /\ w.want = catLog.want /\ w.kept = catLog.kept /\ catLog.stale \subseteq w.stale
        /\ e \notin w.stale => cat.node[e] = read
        /\ w.doubled = catLog.doubled /\ w.met = catLog.met /\ w.owed = catLog.owed
    BY <1>6, <2>6, OverwritesLog
  <2>8. /\ cat' = [cat EXCEPT !.node[e] = n]
        /\ catLog' = [w EXCEPT !.want[e] = m, !.owed = @ \cup Covers(T)]
    BY <1>5, <1>16, <2>1, <2>2, <2>4, <2>6
  <2>9. catLog' \in CatLogRecord
    BY <1>6, <1>11, <2>7, <2>8 DEF CatLogRecord
  <2>10. /\ catLog'.want = [catLog.want EXCEPT ![e] = m] /\ catLog'.stale = w.stale
         /\ catLog'.owed = catLog.owed \cup Covers(T) /\ catLog'.met = catLog.met
         /\ catLog'.doubled = catLog.doubled /\ catLog'.kept = catLog.kept
    BY <2>7, <2>8 DEF CatLogRecord
  <2>11. ASSUME e \notin w.stale PROVE m = n
    <3>1. catLog.want[e].vals = cat.node[e].vals /\ cat.node[e] = read
      BY <1>6, <2>7, <2>11 DEF CatsInv, CatInv, EntriesAsAsked, BearsAsked
    <3> QED BY <2>2, <2>4, <3>1
  <2>12. CatInv'
    BY <1>14, <2>5, <2>7, <2>8, <2>9, <2>10, <2>11
  <2> QED BY <1>1, <1>8, <1>9, <2>12 DEF CatGoes
<1> QED BY <1>1, <1>15, <1>16

LEMMA TypeGone ==
    ASSUME CatsInv, NEW q \in Slots, doc' = doc, "policies" \in mix, DeleteProjectType(q)
    PROVE  CatGoes(q) /\ CatInv'
<1>1. PICK ty \in cat.type :
        /\ Begin(q, Idle)
        /\ cat' = [cat EXCEPT !.type = @ \ {ty},
                              !.node = [e \in Entries |-> Unlinked(@[e], {ty})]]
        /\ catLog' = [catLog EXCEPT !.owed = @ \ {ty}]
  BY DEF DeleteProjectType
<1>2. Moves(q, Idle) /\ req[q].at = "idle"
  BY <1>1, BeginMoves DEF CatsInv
<1>3. "blueprints" \notin mix
  BY KindsApart
<1>4. cat \in CatRecord /\ catLog \in CatLogRecord
  BY DEF CatsInv, CatInv, CatTypes
<1>5. PICK nodes : nodes = [e \in Entries |-> Unlinked(cat.node[e], {ty})]
  OBVIOUS
<1>6. cat' = [cat EXCEPT !.type = @ \ {ty}, !.node = nodes]
  BY <1>1, <1>5
<1>7. nodes \in [Entries -> EntryNode]
  BY <1>4, <1>5, UnlinkedOK DEF CatRecord
<1>8. /\ cat' \in CatRecord /\ cat'.type = cat.type \ {ty} /\ cat'.node = nodes
  BY <1>4, <1>6, <1>7 DEF CatRecord
<1>9. \A e \in Entries :
        /\ nodes[e].there = cat.node[e].there /\ nodes[e].slug = cat.node[e].slug
        /\ nodes[e].vals = cat.node[e].vals /\ nodes[e].links = cat.node[e].links \ {ty}
  BY <1>4, <1>5, UnlinkedOK DEF CatRecord
<1>10. catLog' \in CatLogRecord
  BY <1>1, <1>4 DEF CatLogRecord
<1>11. /\ catLog'.want = catLog.want /\ catLog'.stale = catLog.stale /\ catLog'.kept = catLog.kept /\ catLog'.doubled = catLog.doubled
       /\ catLog'.owed = catLog.owed \ {ty} /\ catLog'.met = catLog.met
  BY <1>1, <1>4 DEF CatLogRecord
<1>12. EntriesAsAsked'
  BY <1>8, <1>9, <1>11 DEF CatsInv, CatInv, EntriesAsAsked, BearsAsked, Here
<1>13. mix' = mix /\ \A r \in Slots : req'[r].at = req[r].at /\ (r # q => req'[r] = req[r])
  BY <1>2, IdleFits DEF Moves
<1>14. OneKind'
  BY <1>13 DEF CatsInv, CatInv, OneKind
<1>15. Linked'
  <2>1. \A e \in Entries : cat'.node[e].links \subseteq cat'.type \cup {t \in Tags : doc'.tag[t].slug # None}
    BY <1>8, <1>9 DEF CatsInv, CatInv, Linked
  <2>2. \A e \in Entries : cat'.node[e].there <=> cat'.node[e].slug # None
    BY <1>8, <1>9 DEF CatsInv, CatInv, Linked, Here
  <2> QED BY <1>3, <1>13, <2>1, <2>2 DEF Linked, Here
<1>16. Unique'
  <2>1. ASSUME ~catLog.doubled, NEW r \in Slots, req'[r].at = "tpl.create"
        PROVE  r # q /\ \A e \in Entries : ~(cat.node[e].there /\ cat.node[e].slug = req'[r].slug)
    <3>1. r # q
      BY <1>2, <1>13, <2>1, IdleFits
    <3>2. Named(req[r].slug) = {}
      BY <1>13, <2>1 DEF CatsInv, CatInv, Unique, At
    <3> QED BY <1>13, <3>1, <3>2 DEF Named, Here
  <2>2. ASSUME ~catLog.doubled, NEW r \in Slots, req'[r].at = "tpl.create"
        PROVE  Named(req[r].slug)' = {}
    BY <1>8, <1>9, <2>1, <2>2 DEF Named, Here
  <2>3. ~catLog.doubled => \A e, o \in Entries :
          cat'.node[e].there /\ cat'.node[o].there /\ cat'.node[e].slug = cat'.node[o].slug => e = o
    BY <1>8, <1>9 DEF CatsInv, CatInv, Unique, Here
  <2> QED BY <1>11, <2>2, <2>3 DEF Unique, Here, At
<1>17. Owing'
  <2>1. \A S : Covers(S) \ {ty} \subseteq Covers(S)'
    BY <1>8 DEF Covers
  <2>2. \A l : Will(l) \ {ty} \subseteq Will(l)'
    BY <2>1 DEF Will
  <2>3. \A r \in Slots : Will(req[r]) \ {ty} \subseteq Will(req[r])'
    <3>1. SUFFICES ASSUME NEW r \in Slots PROVE Will(req[r]) \ {ty} \subseteq Will(req[r])'
      OBVIOUS
    <3>2. CASE r = q
      BY <1>2, <3>2, QuietWill DEF QuietLabels
    <3>3. CASE r # q
      <4>1. PICK l : l = req[r]
        OBVIOUS
      <4>2. l = req'[r]
        BY <1>13, <3>3, <4>1
      <4>3. Will(req[r])' = Will(l)'
        BY <4>2
      <4> QED BY <2>2, <4>1, <4>3
    <3> QED BY <3>2, <3>3
  <2>4. faults' = 0 /\ ~catLog'.met => catLog'.owed \subseteq UNION {Will(req[r])' : r \in Slots}
    <3>1. SUFFICES ASSUME faults' = 0, ~catLog'.met, NEW x \in catLog'.owed
                   PROVE  \E r \in Slots : x \in Will(req[r])'
      OBVIOUS
    <3>2. faults = 0
      BY <1>2, <3>1 DEF Moves, CatsInv, PoolInv, PoolTypeOK
    <3>3. PICK r \in Slots : x \in Will(req[r])
      BY <1>11, <3>1, <3>2 DEF CatsInv, CatInv, Owing
    <3> QED BY <1>11, <2>3, <3>1, <3>3
  <2>5. \A r \in Slots : /\ req'[r].at \in {"pol.check", "pol.set", "pol.clear"} => ~req'[r].fresh
                         /\ req'[r].at = "pol.create" => req'[r].seen = {}
    <3>1. Fits(Idle)
      BY IdleFits
    <3> QED BY <1>2, <1>13, <3>1 DEF Moves, Fits, CatsInv, CatInv, Owing
  <2> QED BY <1>8, <1>11, <1>13, <2>4, <2>5 DEF CatsInv, CatInv, Owing
<1>18. CatInv'
  BY <1>8, <1>10, <1>12, <1>14, <1>15, <1>16, <1>17 DEF CatInv, CatTypes
<1> QED BY <1>2, <1>18 DEF CatGoes

\* Every handler of the catalogue keeps what holds of it.
LEMMA CatalogueKeep ==
    ASSUME CatsInv, doc' = doc, CatalogueNext
    PROVE  CatInv' /\ \E q \in Slots : CatGoes(q)
<1>1. PICK q \in Slots :
        \/ "named" \in mix /\ NamedCalls(q)
        \/ "webhooks" \in mix /\ WebhookCalls(q)
        \/ "mcp" \in mix /\ McpCalls(q)
        \/ "templates" \in mix /\ TemplateCalls(q)
        \/ "policies" \in mix /\ PolicyCalls(q)
        \/ "blueprints" \in mix /\ BlueprintCalls(q)
        \/ CatalogueStep(q)
  BY DEF CatalogueNext
<1>2. CASE "named" \in mix /\ NamedCalls(q)
  BY <1>2, PlainLooksKeep, NamedMade, EntryGoes DEF NamedCalls
<1>3. CASE "webhooks" \in mix /\ WebhookCalls(q)
  BY <1>3, PlainLooksKeep, EntryGoes DEF WebhookCalls
<1>4. CASE "mcp" \in mix /\ McpCalls(q)
  BY <1>4, PlainLooksKeep, NamedMade, EntryGoes DEF McpCalls
<1>5. CASE "templates" \in mix /\ TemplateCalls(q)
  BY <1>5, OtherLooksKeep, EntryGoes DEF TemplateCalls
<1>6. CASE "policies" \in mix /\ PolicyCalls(q)
  BY <1>6, OtherLooksKeep, TypeGone DEF PolicyCalls
<1>7. CASE "blueprints" \in mix /\ BlueprintCalls(q)
  BY <1>7, OtherLooksKeep DEF BlueprintCalls
<1>8. CASE CatalogueStep(q)
  BY <1>8, NamedWritten, NamedMade, CatReadsKeep, SavedById, TemplateMade, TemplateSet, TemplateTags,
     PolicyMade, PolicySet, TargetsCleared, TargetsLinked, PolicyReloaded, RequeuesKeep, DeletesKeep,
     BlueprintMerged DEF CatalogueStep
<1> QED BY <1>1, <1>2, <1>3, <1>4, <1>5, <1>6, <1>7, <1>8

-----------------------------------------------------------------------------
(* The catalogue, when others move: tags that go, requests that die.        *)

LEMMA OtherFits ==
    ASSUME NEW l, l.at \in DocLabels \cup UpLabels \cup {"idle"}
    PROVE  Fits(l) /\ Will(l) = {} /\ l.at # "tpl.create" /\ l.at \notin CatLabels
<1> USE DEF DocLabels, UpLabels, AskLabels, CommentLabels, ThreadLabels, CatLabels, PlainLabels, NamedLabels,
            WebhookLabels, McpLabels, TemplateLabels, PolicyLabels, BlueprintLabels
<1>1. Fits(l) /\ l.at # "tpl.create" /\ l.at \notin CatLabels
  BY DEF Fits
<1>2. Will(l) = {}
  BY DEF Will
<1> QED BY <1>1, <1>2

\* Where a request that moves on stands.
LEMMA StandsApart ==
    /\ \A l : DocLocals(l) => l.at \in DocLabels
    /\ \A l : CatLocals(l) => l.at \in CatLabels
    /\ \A l : UpLocals(l) => l.at \in UpLabels
BY DEF DocLocals, CatLocals, UpLocals

\* A step of Documents, with the links of a tag that it deletes.
LEMMA TagsPruned ==
    ASSUME CatsInv, NEW q \in Slots, DocGoes(q), PruneTags
    PROVE  CatInv'
<1>1. PICK next : /\ Moves(q, next) /\ (next = Idle \/ DocLocals(next))
                  /\ req[q].at \in DocLabels \cup {"idle"}
  BY DEF DocGoes
<1>2. Moves(q, next) /\ Fits(next) /\ Will(next) = {} /\ Will(req[q]) = {} /\ next.at # "tpl.create"
  BY <1>1, OtherFits, StandsApart, IdleOK
<1>3. CASE doc'.tag = doc.tag
  <2>1. UNCHANGED <<cat, catLog>>
    BY <1>3 DEF PruneTags, catVars
  <2> QED BY <1>2, <1>3, <2>1, CatFrame
<1>4. CASE doc'.tag # doc.tag
  <2>1. PICK dead : dead = {t \in Tags : doc'.tag[t].slug = None}
    OBVIOUS
  <2>2. PICK nodes : nodes = [e \in Entries |-> Unlinked(cat.node[e], dead)]
    OBVIOUS
  <2>3. cat' = [cat EXCEPT !.node = [e \in Entries |-> Unlinked(@[e], {t \in Tags : doc'.tag[t].slug = None})]]
        /\ catLog' = catLog
    BY <1>4 DEF PruneTags
  <2>4. cat' = [cat EXCEPT !.node = nodes]
    BY <2>1, <2>2, <2>3
  <2>5. cat \in CatRecord /\ catLog \in CatLogRecord
    BY DEF CatsInv, CatInv, CatTypes
  <2>6. nodes \in [Entries -> EntryNode]
    BY <2>2, <2>5, UnlinkedOK DEF CatRecord
  <2>7. \A e \in Entries :
          /\ nodes[e].there = cat.node[e].there /\ nodes[e].slug = cat.node[e].slug
          /\ nodes[e].vals = cat.node[e].vals /\ nodes[e].links = cat.node[e].links \ dead
    BY <2>2, <2>5, UnlinkedOK DEF CatRecord
  <2>8. cat' \in CatRecord /\ cat'.node = nodes /\ cat'.type = cat.type
    BY <2>4, <2>5, <2>6 DEF CatRecord
  <2>9. Owing' /\ OneKind'
    BY <1>2, <2>3, <2>8, OwingGoes DEF CatsInv, CatInv, Owing
  <2>10. EntriesAsAsked'
    BY ZenonT(30), <2>3, <2>7, <2>8 DEF CatsInv, CatInv, EntriesAsAsked, BearsAsked, Here
  <2>11. Linked'
    <3>1. \A e \in Entries : cat'.node[e].links \subseteq cat'.type \cup {t \in Tags : doc'.tag[t].slug # None}
      BY <2>1, <2>7, <2>8 DEF CatsInv, CatInv, Linked
    <3>2. mix' = mix
      BY <1>2 DEF Moves
    <3>3. \A e \in Entries : cat'.node[e].there <=> cat'.node[e].slug # None
      BY <2>7, <2>8 DEF CatsInv, CatInv, Linked, Here
    <3> QED BY <2>8, <3>1, <3>2, <3>3 DEF CatsInv, CatInv, Linked, Here
  <2>12. Unique'
    <3>1. ASSUME ~catLog.doubled, NEW r \in Slots, req'[r].at = "tpl.create"
          PROVE  \A e \in Entries : ~(cat.node[e].there /\ cat.node[e].slug = req'[r].slug)
      <4>1. req'[r] = req[r]
        BY <1>2, <3>1 DEF Moves
      <4>2. Named(req[r].slug) = {}
        BY <3>1, <4>1 DEF CatsInv, CatInv, Unique, At
      <4> QED BY <4>1, <4>2 DEF Named, Here
    <3>2. ASSUME ~catLog.doubled, NEW r \in Slots, req'[r].at = "tpl.create"
          PROVE  Named(req[r].slug)' = {}
      BY <2>7, <2>8, <3>1, <3>2 DEF Named, Here
    <3>3. ~catLog.doubled => \A e, o \in Entries :
            cat'.node[e].there /\ cat'.node[o].there /\ cat'.node[e].slug = cat'.node[o].slug => e = o
      BY <2>7, <2>8 DEF CatsInv, CatInv, Unique, Here
    <3> QED BY <2>3, <3>2, <3>3 DEF Unique, Here, At
  <2> QED BY <2>3, <2>5, <2>8, <2>9, <2>10, <2>11, <2>12 DEF CatInv, CatTypes
<1> QED BY <1>3, <1>4

\* What a request that dies would have queued stays owed.
LEMMA CatalogueDie ==
    ASSUME CatsInv, NEW q \in Slots, DieW(q)
    PROVE  CatInv'
<1>1. Moves(q, Idle) /\ faults' = faults + 1
  BY DieMoves DEF DieW, CatsInv
<1>2. UNCHANGED <<cat, catLog>> /\ doc' = doc
  BY DEF DieW, catVars
<1>3. CatTypes' /\ OneKind' /\ Linked' /\ Unique' /\ EntriesAsAsked'
  BY <1>1, <1>2, IdleFits, CatStays
<1>4. Owing'
  <2>1. faults' # 0 /\ mix' = mix
    BY <1>1 DEF Moves, CatsInv, PoolInv, PoolTypeOK
  <2>2. \A r \in Slots : /\ req'[r].at \in {"pol.check", "pol.set", "pol.clear"} => ~req'[r].fresh
                         /\ req'[r].at = "pol.create" => req'[r].seen = {}
    BY <1>1, IdleFits DEF Moves, Fits, CatsInv, CatInv, Owing
  <2> QED BY <1>2, <2>1, <2>2 DEF CatsInv, CatInv, Owing
<1> QED BY <1>3, <1>4 DEF CatInv

\* A handler of an upload leaves the catalogue alone.
LEMMA CatalogueRest ==
    ASSUME CatsInv, NEW q \in Slots, NEW next, Moves(q, next), UNCHANGED <<doc, cat, catLog>>,
           next.at \in UpLabels \cup {"idle"}, req[q].at \in UpLabels \cup {"idle"}
    PROVE  CatInv'
BY OtherFits, CatFrame

-----------------------------------------------------------------------------
(* Uploads.                                                                 *)

UpsInv == PoolInv /\ UpInv

UpGoes(q) == \E next :
  /\ Moves(q, next)
  /\ next = Idle \/ UpLocals(next)
  /\ req[q].at \in UpLabels \cup {"idle"}

\* The handler q on the upload f goes on with `next`; others are left alone.
UpAt(q, f, next) ==
  /\ Moves(q, next)
  /\ next = Idle \/ (UpLocals(next) /\ next.f = f)
  /\ req[q].at = "idle" \/ (req[q].at \in UpLabels /\ req[q].f = f)
  /\ UpTypes'
  /\ \A g \in Files : g # f => /\ up'.record[g] = up.record[g] /\ up'.stored[g] = up.stored[g]
                               /\ g \in up'.known <=> g \in up.known
  /\ upLost \subseteq upLost'

\* What holds of the upload afterwards.
UpOn(q, f, next) ==
  /\ f \in up'.known
  /\ up'.record[f].keys \ (IF up'.record[f].has THEN {} ELSE {"thumbnail"}) \subseteq up'.stored[f]
  /\ f \notin upLost' => \A o \in up'.stored[f] :
       \/ o \in up'.record[f].keys
       \/ next.at \in UpLabels /\ o \in Pending(next)
       \/ \E r \in Slots \ {q} : On(r, f) /\ o \in Pending(req[r])
  /\ next.at \in Making =>
       /\ up'.record[f] = NoRecord /\ "file" \in next.new.keys
       /\ \A r \in Slots : r # q => ~On(r, f)
       /\ next.at = "up.file" => up'.stored[f] = {} /\ next.new = [keys |-> {"file"}, has |-> FALSE]
       /\ next.at = "up.thumbnail" => /\ up'.stored[f] = {"file"}
                                      /\ next.new = [keys |-> {"file"}, has |-> FALSE]
       /\ next.at = "up.save" => /\ "file" \in up'.stored[f] /\ up'.stored[f] \subseteq next.new.keys
                                 /\ next.new.has => "thumbnail" \in up'.stored[f]
  /\ next.at = "up.delete" => up'.record[f] \in {next.new, NoRecord}
  /\ next.at \in Dropping => up'.record[f] = NoRecord
  /\ \A r \in Slots : r # q /\ On(r, f) =>
       /\ req[r].at \notin Making
       /\ req[r].at = "up.delete" => up'.record[f] \in {req[r].new, NoRecord}
       /\ req[r].at \in Dropping => up'.record[f] = NoRecord

LEMMA UpKeeps ==
    ASSUME UpsInv, NEW q \in Slots, NEW f \in Files, NEW next, UpAt(q, f, next), UpOn(q, f, next)
    PROVE  UpGoes(q) /\ UpInv'
<1>1. Moves(q, next) /\ (next = Idle \/ (UpLocals(next) /\ next.f = f)) /\ UpTypes'
  BY DEF UpAt
<1>2. "idle" \notin UpLabels /\ Idle.at = "idle"
  BY IdleOK
<1>3. req'[q] = next /\ \A r \in Slots : r # q => req'[r] = req[r]
  BY <1>1 DEF Moves
<1>4. next.at \in UpLabels => next.f = f
  BY <1>1, <1>2
<1>5. \A g : \A r \in Slots :
                          /\ r # q => (On(r, g)' <=> On(r, g))
                          /\ r = q => (On(r, g)' <=> next.at \in UpLabels /\ next.f = g)
                          /\ r = q /\ g # f => ~On(r, g)
  BY <1>2, <1>3 DEF On, UpAt
<1>6. ASSUME NEW g \in Files PROVE KeptOf(g)'
  <2>1. \A r \in Slots : r # q => Pending(req[r])' = Pending(req[r])
    BY <1>3 DEF Pending
  <2>2. Pending(req[q])' = Pending(next)
    BY <1>3 DEF Pending
  <2>3. CASE g # f
    <3>1. KeptOf(g)
      BY DEF UpsInv, UpInv, Kept
    <3>2. /\ up'.record[g] = up.record[g] /\ up'.stored[g] = up.stored[g]
          /\ g \in up'.known <=> g \in up.known
          /\ upLost \subseteq upLost'
      BY <2>3 DEF UpAt
    <3>3. Served(g)' = Served(g)
      BY <3>2 DEF Served
    <3>4. ASSUME g \notin upLost', NEW o \in up'.stored[g], o \notin up'.record[g].keys
          PROVE  \E r \in Slots : On(r, g)' /\ o \in Pending(req[r])'
      <4>1. PICK r \in Slots : On(r, g) /\ o \in Pending(req[r])
        BY <3>1, <3>2, <3>4 DEF KeptOf
      <4>2. r # q
        BY <1>5, <2>3, <4>1
      <4> QED BY <1>5, <2>1, <4>1, <4>2
    <3> QED BY <3>1, <3>2, <3>3, <3>4 DEF KeptOf
  <2>4. CASE g = f
    <3>1. ASSUME f \notin upLost', NEW o \in up'.stored[f], o \notin up'.record[f].keys
          PROVE  \E r \in Slots : On(r, f)' /\ o \in Pending(req[r])'
      <4>1. CASE next.at \in UpLabels /\ o \in Pending(next)
        BY <1>4, <1>5, <2>2, <4>1
      <4>2. CASE \E r \in Slots \ {q} : On(r, f) /\ o \in Pending(req[r])
        BY <1>5, <2>1, <4>2
      <4> QED BY <3>1, <4>1, <4>2 DEF UpOn
    <3> QED BY <2>4, <3>1 DEF UpOn, KeptOf, Served
  <2> QED BY <2>3, <2>4
<1>7. ASSUME NEW r \in Slots PROVE WorkingOf(r)'
  <2>1. CASE r = q
    <3>1. SUFFICES ASSUME next.at \in UpLabels PROVE WorkingOf(q)'
      BY <1>3, <2>1 DEF WorkingOf
    <3>2. next.at \in Making => Made1(q)'
      <4>1. \A p \in Slots : next.at \in Making /\ On(p, f)' => p = q
        BY <1>5 DEF UpOn
      <4> QED BY <1>3, <1>4, <3>1, <4>1 DEF Made1, UpOn
    <3> QED BY <1>3, <1>4, <3>1, <3>2 DEF WorkingOf, UpOn
  <2>2. CASE r # q /\ ~On(r, f)
    <3>1. SUFFICES ASSUME req[r].at \in UpLabels PROVE WorkingOf(r)'
      BY <1>3, <2>2 DEF WorkingOf
    <3>2. UpLocals(req[r]) /\ WorkingOf(r)
      BY <3>1, WhereItStands DEF UpsInv, PoolInv, UpInv, Working
    <3>3. PICK l, g : l = req[r] /\ g = req[r].f
      OBVIOUS
    <3>4. g \in Files /\ g # f
      BY <2>2, <3>1, <3>2, <3>3 DEF UpLocals, On
    <3>5. req'[r] = l /\ l.f = g
      BY <1>3, <2>2, <3>3
    <3>6. /\ up'.record[g] = up.record[g] /\ up'.stored[g] = up.stored[g]
          /\ g \in up'.known <=> g \in up.known
      BY <3>4 DEF UpAt
    <3>7. Made1(r) => Made1(r)'
      <4>1. SUFFICES ASSUME Made1(r) PROVE Made1(r)'
        OBVIOUS
      <4>2. \A p \in Slots : On(p, g)' => p = r
        <5>1. \A p \in Slots : On(p, g) => p = r
          BY <3>3, <4>1 DEF Made1
        <5>2. ~On(q, g)'
          BY <1>4, <1>5, <3>4
        <5> QED BY <1>5, <5>1, <5>2
      <4> QED BY <3>3, <3>5, <3>6, <4>1, <4>2 DEF Made1
    <3> QED BY <3>1, <3>2, <3>3, <3>5, <3>6, <3>7 DEF WorkingOf
  <2>3. CASE r # q /\ On(r, f)
    <3>1. /\ req'[r] = req[r] /\ req[r].f = f
      BY <1>3, <2>3 DEF On
    <3> QED BY <2>3, <3>1 DEF UpOn, WorkingOf
  <2> QED BY <2>1, <2>2, <2>3
<1>8. UpInv'
  BY <1>1, <1>6, <1>7 DEF UpInv, Working, Kept
<1>9. UpGoes(q)
  BY <1>1 DEF UpGoes, UpAt
<1> QED BY <1>8, <1>9

\* What a handler of an upload knows, where it stands.
LEMMA UpStands ==
    ASSUME UpsInv, NEW q \in Slots, req[q].at \in UpLabels
    PROVE  UpLocals(req[q]) /\ WorkingOf(q)
BY WhereItStands DEF UpsInv, PoolInv, UpInv, Working

LEMMA UpKnown ==
    ASSUME UpsInv
    PROVE  /\ up \in [known : SUBSET Files, record : [Files -> UpRecord], stored : [Files -> SUBSET Objects]]
           /\ NoRecord \in UpRecord
           /\ \A f \in Files : KeptOf(f)
           /\ \A r \in Slots, f \in Files : On(r, f) =>
                /\ f \in up.known
                /\ req[r].at \in Making => up.record[f] = NoRecord /\ \A p \in Slots : On(p, f) => p = r
                /\ req[r].at = "up.delete" => up.record[f] \in {req[r].new, NoRecord}
                /\ req[r].at \in Dropping => up.record[f] = NoRecord
<1>1. ASSUME NEW r \in Slots, NEW f \in Files, On(r, f)
      PROVE  /\ f \in up.known
             /\ req[r].at \in Making => up.record[f] = NoRecord /\ \A p \in Slots : On(p, f) => p = r
             /\ req[r].at = "up.delete" => up.record[f] \in {req[r].new, NoRecord}
             /\ req[r].at \in Dropping => up.record[f] = NoRecord
  <2>1. WorkingOf(r) /\ req[r].f = f /\ req[r].at \in UpLabels
    BY <1>1 DEF UpsInv, UpInv, Working, On
  <2> QED BY <2>1 DEF WorkingOf, Made1
<1>2. NoRecord \in UpRecord
  BY DEF NoRecord, UpRecord
<1> QED BY <1>1, <1>2 DEF UpsInv, UpInv, UpTypes, Kept

LEMMA UploadBegun ==
    ASSUME UpsInv, NEW q \in Slots, CreateUpload(q) \/ DeleteUpload(q)
    PROVE  UpGoes(q) /\ UpInv'
<1> USE DEF UpLabels, Making, Dropping
<1>1. CASE CreateUpload(q)
  <2>1. PICK f \in Files, image \in BOOLEAN : /\ f \notin up.known
          /\ Begin(q, [at |-> "up.file", f |-> f, image |-> image, new |-> [keys |-> {"file"}, has |-> FALSE]])
          /\ up' = [up EXCEPT !.known = @ \cup {f}]
    BY <1>1 DEF CreateUpload
  <2>2. PICK next : /\ next = [at |-> "up.file", f |-> f, image |-> image, new |-> [keys |-> {"file"}, has |-> FALSE]]
                    /\ Begin(q, next)
    BY <2>1
  <2>3. Moves(q, next) /\ req[q].at = "idle"
    BY <2>2, BeginMoves DEF UpsInv
  <2>4. /\ next.at = "up.file" /\ next.f = f /\ next.new = [keys |-> {"file"}, has |-> FALSE]
        /\ UpLocals(next)
    BY <2>2 DEF UpLocals, UpRecord, Objects
  <2>5. UpTypes' /\ upLost' = upLost
    BY <1>1, <2>1, UpKnown DEF UpTypes, CreateUpload
  <2>6. up'.record = up.record /\ up'.stored = up.stored /\ up'.known = up.known \cup {f}
    BY <2>1, UpKnown
  <2>7. up.record[f] = NoRecord /\ up.stored[f] = {} /\ \A r \in Slots : ~On(r, f)
    BY <2>1, UpKnown DEF KeptOf
  <2>8. UpAt(q, f, next)
    BY <2>3, <2>4, <2>5, <2>6 DEF UpAt
  <2>9. UpOn(q, f, next)
    <3>1. NoRecord.keys = {}
      BY DEF NoRecord
    <3> QED BY <2>4, <2>6, <2>7, <3>1 DEF UpOn
  <2> QED BY <2>8, <2>9, UpKeeps
<1>2. CASE DeleteUpload(q)
  <2>1. PICK f \in Files : /\ Recorded(f)
          /\ Begin(q, [at |-> "up.delete", f |-> f, new |-> up.record[f]])
    BY <1>2 DEF DeleteUpload
  <2>2. PICK n : n = up.record[f]
    OBVIOUS
  <2>3. PICK next : next = [at |-> "up.delete", f |-> f, new |-> n] /\ Begin(q, next)
    BY <2>1, <2>2
  <2>4. Moves(q, next) /\ req[q].at = "idle"
    BY <2>3, BeginMoves DEF UpsInv
  <2>5. /\ next.at = "up.delete" /\ next.f = f /\ next.new = n /\ UpLocals(next)
    BY <2>2, <2>3, UpKnown DEF UpLocals
  <2>6. up' = up /\ upLost' = upLost /\ UpTypes'
    BY <1>2, UpKnown DEF DeleteUpload, UpTypes
  <2>7. up.record[f] # NoRecord /\ f \in up.known
    <3>1. up.record[f] # NoRecord
      BY <2>1 DEF Recorded, NoRecord
    <3> QED BY <3>1, UpKnown DEF KeptOf
  <2>8. UpAt(q, f, next)
    BY <2>4, <2>5, <2>6 DEF UpAt
  <2>9. \A r \in Slots : r # q /\ On(r, f) =>
          /\ req[r].at \notin Making
          /\ req[r].at = "up.delete" => up'.record[f] \in {req[r].new, NoRecord}
          /\ req[r].at \in Dropping => up'.record[f] = NoRecord
    BY <2>6, <2>7, UpKnown
  <2>10. ~On(q, f)
    BY <2>4 DEF On
  <2>11. /\ up.record[f].keys \ (IF up.record[f].has THEN {} ELSE {"thumbnail"}) \subseteq up.stored[f]
         /\ f \notin upLost => \A o \in up.stored[f] :
              o \in up.record[f].keys \/ \E r \in Slots \ {q} : On(r, f) /\ o \in Pending(req[r])
    <3>1. KeptOf(f)
      BY UpKnown
    <3> QED BY <2>10, <3>1 DEF KeptOf, Served
  <2>12. UpOn(q, f, next)
    BY <2>2, <2>5, <2>6, <2>7, <2>9, <2>11 DEF UpOn
  <2> QED BY <2>8, <2>12, UpKeeps
<1> QED BY <1>1, <1>2

\* An upload being made: the handler is alone with it.
LEMMA UploadMade ==
    ASSUME UpsInv, NEW q \in Slots,
           StoreFile(q) \/ StoreThumbnail(q) \/ ThumbnailFails(q) \/ SaveRecord(q) \/ SaveFails(q)
    PROVE  UpGoes(q) /\ UpInv'
<1> USE DEF UpLabels, Making, Dropping
<1>1. req[q].at \in {"up.file", "up.thumbnail", "up.save"}
  BY DEF StoreFile, StoreThumbnail, ThumbnailFails, SaveRecord, SaveFails, Step, At
<1>2. UpLocals(req[q]) /\ WorkingOf(q)
  BY <1>1, UpStands
<1>3. PICK f \in Files, n \in UpRecord : f = req[q].f /\ n = req[q].new
  BY <1>2 DEF UpLocals
<1>4. /\ up.record[f] = NoRecord /\ f \in up.known
      /\ \A r \in Slots : On(r, f) => r = q
      /\ "file" \in n.keys /\ n.keys \subseteq Objects
      /\ req[q].at = "up.file" => up.stored[f] = {} /\ n = [keys |-> {"file"}, has |-> FALSE]
      /\ req[q].at = "up.thumbnail" => up.stored[f] = {"file"} /\ n = [keys |-> {"file"}, has |-> FALSE]
      /\ req[q].at = "up.save" => /\ "file" \in up.stored[f] /\ up.stored[f] \subseteq n.keys
                                  /\ n.has => "thumbnail" \in up.stored[f]
  BY <1>1, <1>2, <1>3 DEF WorkingOf, Made1, UpRecord
<1>5. up \in [known : SUBSET Files, record : [Files -> UpRecord], stored : [Files -> SUBSET Objects]]
      /\ NoRecord \in UpRecord /\ NoRecord.keys = {} /\ "file" \in Objects /\ "thumbnail" \in Objects
      /\ Objects = {"file", "thumbnail"}
  BY UpKnown DEF NoRecord, Objects
\* It goes on, perhaps with one more object in the store.
<1>6. ASSUME NEW next, NEW S \in SUBSET Objects, Moves(q, next), UpLocals(next), next.f = f,
             up' = [up EXCEPT !.stored[f] = S], upLost' = upLost,
             next.at \in {"up.thumbnail", "up.save", "up.drop"},
             S \subseteq next.new.keys, "file" \in S, "file" \in next.new.keys,
             next.at = "up.thumbnail" => S = {"file"} /\ next.new = [keys |-> {"file"}, has |-> FALSE],
             next.at = "up.save" /\ next.new.has => "thumbnail" \in S
      PROVE  UpGoes(q) /\ UpInv'
  <2>1. UpTypes'
    BY <1>5, <1>6 DEF UpTypes
  <2>2. up'.record = up.record /\ up'.known = up.known /\ up'.stored = [up.stored EXCEPT ![f] = S]
    BY <1>5, <1>6
  <2>3. up'.stored[f] = S /\ \A g \in Files : g # f => up'.stored[g] = up.stored[g]
    BY <1>5, <2>2
  <2>4. UpAt(q, f, next)
    BY <1>1, <1>3, <1>6, <2>1, <2>2, <2>3 DEF UpAt
  <2>5. S \subseteq Pending(next)
    BY <1>6 DEF Pending
  <2>6. UpOn(q, f, next)
    BY <1>4, <1>5, <1>6, <2>2, <2>3, <2>5 DEF UpOn
  <2> QED BY <2>4, <2>6, UpKeeps
<1>7. \A S : S = up.stored[f] /\ up' = up => up' = [up EXCEPT !.stored[f] = S] /\ S \in SUBSET Objects
  BY <1>5
<1>8. CASE StoreFile(q)
  <2>1. PICK label : label = (IF req[q].image THEN "up.thumbnail" ELSE "up.save")
    OBVIOUS
  <2>2. PICK next : next = To(q, label) /\ Step(q, "up.file", next)
    BY <1>8, <2>1 DEF StoreFile
  <2>3. Moves(q, next) /\ req[q].at = "up.file"
    BY <2>2, StepMoves DEF UpsInv
  <2>4. UpLocals(next) /\ next.f = f /\ next.new = n /\ next.at = label
    BY <1>2, <1>3, <2>1, <2>2, <2>3 DEF UpLocals, To
  <2>5. up' = [up EXCEPT !.stored[f] = {"file"}] /\ upLost' = upLost
    BY <1>3, <1>4, <1>8, <2>3 DEF StoreFile, Keep
  <2>6. next.at \in {"up.thumbnail", "up.save"} /\ {"file"} \in SUBSET Objects
    BY <1>5, <2>1, <2>4
  <2>7. next.new = [keys |-> {"file"}, has |-> FALSE] /\ next.new.keys = {"file"} /\ ~next.new.has
    BY <1>4, <2>3, <2>4
  <2>8. next.at \in {"up.thumbnail", "up.save", "up.drop"} /\ {"file"} \subseteq next.new.keys
        /\ "file" \in next.new.keys
    BY <2>6, <2>7
  <2> QED BY <1>6, <2>3, <2>4, <2>5, <2>6, <2>7, <2>8
<1>9. CASE StoreThumbnail(q)
  <2>1. PICK next : /\ next = [req[q] EXCEPT !.at = "up.save", !.new = [keys |-> Objects, has |-> TRUE]]
                    /\ Step(q, "up.thumbnail", next)
    BY <1>9 DEF StoreThumbnail
  <2>2. Moves(q, next) /\ req[q].at = "up.thumbnail"
    BY <2>1, StepMoves DEF UpsInv
  <2>3. UpLocals(next) /\ next.f = f /\ next.new = [keys |-> Objects, has |-> TRUE] /\ next.at = "up.save"
    BY <1>2, <1>3, <2>1, <2>2 DEF UpLocals, UpRecord
  <2>4. up' = [up EXCEPT !.stored[f] = {"file", "thumbnail"}] /\ upLost' = upLost
    <3>1. up' = [up EXCEPT !.stored[f] = up.stored[f] \cup {"thumbnail"}] /\ upLost' = upLost
      BY <1>3, <1>9 DEF StoreThumbnail, Keep
    <3>2. up.stored[f] \cup {"thumbnail"} = {"file", "thumbnail"}
      BY <1>4, <2>2
    <3> QED BY <3>1, <3>2
  <2> QED BY <1>5, <1>6, <2>2, <2>3, <2>4
<1>10. CASE ThumbnailFails(q)
  <2>1. req[q].at = "up.thumbnail" /\ upLost' = upLost
    BY <1>10 DEF ThumbnailFails, At
  <2>2. CASE Raises(q, "up.thumbnail", To(q, "up.save")) /\ up' = up
    <3>1. PICK next : next = To(q, "up.save") /\ Raises(q, "up.thumbnail", next)
      BY <2>2
    <3>2. Moves(q, next)
      BY <3>1, RaisesMoves DEF UpsInv
    <3>3. UpLocals(next) /\ next.f = f /\ next.new = n /\ next.at = "up.save"
      BY <1>2, <1>3, <2>1, <3>1 DEF UpLocals, To
    <3>4. up' = [up EXCEPT !.stored[f] = {"file"}]
      BY <1>4, <1>7, <2>1, <2>2
    <3> QED BY <1>4, <1>5, <1>6, <2>1, <3>2, <3>3, <3>4
  <2>3. CASE /\ Raises(q, "up.thumbnail", [req[q] EXCEPT !.at = "up.save", !.new.keys = Objects])
             /\ up' = up \/ Keep(f, "thumbnail")
    <3>1. PICK next : /\ next = [req[q] EXCEPT !.at = "up.save", !.new.keys = Objects]
                      /\ Raises(q, "up.thumbnail", next)
      BY <2>3
    <3>2. Moves(q, next)
      BY <3>1, RaisesMoves DEF UpsInv
    <3>3. UpLocals(next) /\ next.f = f /\ next.at = "up.save" /\ next.new.keys = Objects /\ ~next.new.has
      BY <1>2, <1>3, <1>4, <2>1, <3>1 DEF UpLocals, UpRecord
    <3>4. CASE up' = up
      <4>1. up' = [up EXCEPT !.stored[f] = {"file"}]
        BY <1>4, <1>7, <2>1, <3>4
      <4> QED BY <1>5, <1>6, <2>1, <3>2, <3>3, <4>1
    <3>5. CASE Keep(f, "thumbnail")
      <4>1. up' = [up EXCEPT !.stored[f] = {"file", "thumbnail"}]
        <5>1. up' = [up EXCEPT !.stored[f] = up.stored[f] \cup {"thumbnail"}]
          BY <3>5 DEF Keep
        <5>2. up.stored[f] \cup {"thumbnail"} = {"file", "thumbnail"}
          BY <1>4, <2>1
        <5> QED BY <5>1, <5>2
      <4> QED BY <1>5, <1>6, <2>1, <3>2, <3>3, <4>1
    <3> QED BY <2>3, <3>4, <3>5
  <2> QED BY <1>3, <1>10, <2>2, <2>3 DEF ThumbnailFails
<1>11. CASE SaveRecord(q)
  <2>1. Moves(q, Idle) /\ req[q].at = "up.save"
    BY <1>11, StepMoves DEF UpsInv, SaveRecord
  <2>2. up' = [up EXCEPT !.record[f] = n] /\ upLost' = upLost
    BY <1>3, <1>11 DEF SaveRecord
  <2>3. UpTypes'
    BY <1>5, <2>2 DEF UpTypes
  <2>4. up'.stored = up.stored /\ up'.known = up.known /\ up'.record = [up.record EXCEPT ![f] = n]
    BY <1>5, <2>2
  <2>5. up'.record[f] = n /\ \A g \in Files : g # f => up'.record[g] = up.record[g]
    BY <1>5, <2>4
  <2>6. UpAt(q, f, Idle)
    BY <1>3, <2>1, <2>2, <2>3, <2>4, <2>5 DEF UpAt
  <2>7. n.keys \ (IF n.has THEN {} ELSE {"thumbnail"}) \subseteq up.stored[f] /\ up.stored[f] \subseteq n.keys
    BY <1>4, <1>5, <2>1
  <2>8. UpOn(q, f, Idle)
    BY <1>4, <2>4, <2>5, <2>7, IdleOK DEF UpOn
  <2> QED BY <2>6, <2>8, UpKeeps
<1>12. CASE SaveFails(q)
  <2>1. PICK next : next = To(q, "up.drop") /\ Raises(q, "up.save", next)
    BY <1>12 DEF SaveFails
  <2>2. Moves(q, next) /\ req[q].at = "up.save"
    BY <2>1, RaisesMoves DEF UpsInv
  <2>3. UpLocals(next) /\ next.f = f /\ next.new = n /\ next.at = "up.drop"
    BY <1>2, <1>3, <2>1, <2>2 DEF UpLocals, To
  <2>4. PICK S \in SUBSET Objects : S = up.stored[f]
    BY <1>5
  <2>5. up' = [up EXCEPT !.stored[f] = S] /\ upLost' = upLost
    BY <1>5, <1>12, <2>4 DEF SaveFails
  <2> QED BY <1>4, <1>6, <2>2, <2>3, <2>4, <2>5
<1> QED BY <1>8, <1>9, <1>10, <1>11, <1>12

\* An upload being removed: its record is gone, or goes.
LEMMA UploadGone ==
    ASSUME UpsInv, NEW q \in Slots, DeleteRecord(q) \/ DropFile(q) \/ DropThumbnail(q) \/ DropFails(q)
    PROVE  UpGoes(q) /\ UpInv'
<1> USE DEF UpLabels, Making, Dropping
<1>1. req[q].at \in {"up.delete", "up.drop", "up.drop.thumbnail"}
  BY DEF DeleteRecord, DropFile, DropThumbnail, DropFails, Step, At
<1>2. UpLocals(req[q]) /\ WorkingOf(q)
  BY <1>1, UpStands
<1>3. PICK f \in Files, n \in UpRecord : f = req[q].f /\ n = req[q].new
  BY <1>2 DEF UpLocals
<1>4. /\ f \in up.known /\ On(q, f)
      /\ req[q].at = "up.delete" => up.record[f] \in {n, NoRecord}
      /\ req[q].at # "up.delete" => up.record[f] = NoRecord
  BY <1>1, <1>2, <1>3 DEF WorkingOf, On
<1>5. up \in [known : SUBSET Files, record : [Files -> UpRecord], stored : [Files -> SUBSET Objects]]
      /\ NoRecord \in UpRecord /\ NoRecord.keys = {} /\ Objects = {"file", "thumbnail"}
  BY UpKnown DEF NoRecord, Objects
<1>6. KeptOf(f)
  BY UpKnown
<1>7. \A r \in Slots : r # q /\ On(r, f) => req[r].at \notin Making
  BY <1>4, UpKnown
<1>8. ASSUME NEW next, NEW S \in SUBSET up.stored[f], Moves(q, next),
             next = Idle \/ (UpLocals(next) /\ next.f = f /\ next.at \in Dropping),
             UpTypes', up'.known = up.known, up'.record = [up.record EXCEPT ![f] = NoRecord],
             up'.stored = [up.stored EXCEPT ![f] = S], upLost \subseteq upLost',
             f \notin upLost' => \A o \in S :
               \/ next.at \in UpLabels /\ o \in Pending(next)
               \/ \E r \in Slots \ {q} : On(r, f) /\ o \in Pending(req[r])
      PROVE  UpGoes(q) /\ UpInv'
  <2>1. /\ up'.record[f] = NoRecord /\ up'.stored[f] = S
        /\ \A g \in Files : g # f => up'.record[g] = up.record[g] /\ up'.stored[g] = up.stored[g]
    BY <1>5, <1>8
  <2>2. UpAt(q, f, next)
    BY <1>1, <1>3, <1>8, <2>1 DEF UpAt
  <2>3. next.at \notin Making /\ next.at # "up.delete"
    BY <1>8, IdleOK
  <2>4. UpOn(q, f, next)
    BY <1>4, <1>5, <1>7, <1>8, <2>1, <2>3 DEF UpOn
  <2> QED BY <2>2, <2>4, UpKeeps
\* What the other requests have pending.
<1>9. ASSUME f \notin upLost, NEW o \in up.stored[f], o \notin up.record[f].keys
      PROVE  o \in Pending(req[q]) \/ \E r \in Slots \ {q} : On(r, f) /\ o \in Pending(req[r])
  BY <1>6, <1>9 DEF KeptOf
<1>10. CASE DeleteRecord(q)
  <2>1. PICK next : next = To(q, "up.drop") /\ Step(q, "up.delete", next)
    BY <1>10 DEF DeleteRecord
  <2>2. Moves(q, next) /\ req[q].at = "up.delete"
    BY <2>1, StepMoves DEF UpsInv
  <2>3. UpLocals(next) /\ next.f = f /\ next.new = n /\ next.at = "up.drop"
    BY <1>2, <1>3, <2>1, <2>2 DEF UpLocals, To
  <2>4. up' = [up EXCEPT !.record[f] = NoRecord] /\ upLost' = upLost
    BY <1>3, <1>10 DEF DeleteRecord
  <2>5. UpTypes'
    BY <1>5, <2>4 DEF UpTypes
  <2>6. PICK S \in SUBSET up.stored[f] : S = up.stored[f]
    OBVIOUS
  <2>7. /\ up'.known = up.known /\ up'.record = [up.record EXCEPT ![f] = NoRecord]
        /\ up'.stored = [up.stored EXCEPT ![f] = S]
    BY <1>5, <2>4, <2>6
  <2>8. Pending(req[q]) = {} /\ Pending(next) = n.keys
    BY <2>2, <2>3 DEF Pending
  <2>9. f \notin upLost' => \A o \in S :
          \/ next.at \in UpLabels /\ o \in Pending(next)
          \/ \E r \in Slots \ {q} : On(r, f) /\ o \in Pending(req[r])
    BY <1>4, <1>5, <1>9, <2>2, <2>3, <2>4, <2>6, <2>8
  <2> QED BY <1>8, <2>2, <2>3, <2>4, <2>5, <2>7, <2>9
<1>11. CASE DropFile(q)
  <2>1. PICK next : /\ next = (IF "thumbnail" \in req[q].new.keys THEN To(q, "up.drop.thumbnail") ELSE Idle)
                    /\ Step(q, "up.drop", next)
    BY <1>11 DEF DropFile
  <2>2. Moves(q, next) /\ req[q].at = "up.drop"
    BY <2>1, StepMoves DEF UpsInv
  <2>3. /\ UpLocals(To(q, "up.drop.thumbnail")) /\ To(q, "up.drop.thumbnail").f = f
        /\ To(q, "up.drop.thumbnail").at = "up.drop.thumbnail"
    BY <1>2, <1>3, <2>2 DEF UpLocals, To
  <2>4. PICK S \in SUBSET up.stored[f] : S = up.stored[f] \ {"file"}
    OBVIOUS
  <2>5. up' = [up EXCEPT !.stored[f] = S] /\ upLost' = upLost
    BY <1>3, <1>11, <2>4 DEF DropFile, Drop
  <2>6. UpTypes'
    BY <1>5, <2>5 DEF UpTypes
  <2>7. /\ up'.known = up.known /\ up'.record = [up.record EXCEPT ![f] = NoRecord]
        /\ up'.stored = [up.stored EXCEPT ![f] = S]
    BY <1>4, <1>5, <2>2, <2>5
  <2>8. Pending(req[q]) = n.keys
    BY <1>3, <2>2 DEF Pending
  <2>9. ASSUME f \notin upLost', NEW o \in S
        PROVE  \/ next.at \in UpLabels /\ o \in Pending(next)
               \/ \E r \in Slots \ {q} : On(r, f) /\ o \in Pending(req[r])
    <3>1. o = "thumbnail"
      BY <1>5, <2>4
    <3>2. o \in n.keys => next.at = "up.drop.thumbnail"
      BY <1>3, <2>1, <2>3, <3>1
    <3>3. next.at = "up.drop.thumbnail" => o \in Pending(next)
      BY <3>1 DEF Pending
    <3> QED BY <1>4, <1>5, <1>9, <2>2, <2>4, <2>5, <2>8, <2>9, <3>2, <3>3
  <2> QED BY <1>8, <2>1, <2>2, <2>3, <2>5, <2>6, <2>7, <2>9
<1>12. CASE DropThumbnail(q)
  <2>1. Moves(q, Idle) /\ req[q].at = "up.drop.thumbnail"
    BY <1>12, StepMoves DEF UpsInv, DropThumbnail
  <2>2. PICK S \in SUBSET up.stored[f] : S = up.stored[f] \ {"thumbnail"}
    OBVIOUS
  <2>3. up' = [up EXCEPT !.stored[f] = S] /\ upLost' = upLost
    BY <1>3, <1>12, <2>2 DEF DropThumbnail, Drop
  <2>4. UpTypes'
    BY <1>5, <2>3 DEF UpTypes
  <2>5. /\ up'.known = up.known /\ up'.record = [up.record EXCEPT ![f] = NoRecord]
        /\ up'.stored = [up.stored EXCEPT ![f] = S]
    BY <1>4, <1>5, <2>1, <2>3
  <2>6. Pending(req[q]) = {"thumbnail"}
    BY <2>1 DEF Pending
  <2>7. ASSUME f \notin upLost', NEW o \in S
        PROVE  \E r \in Slots \ {q} : On(r, f) /\ o \in Pending(req[r])
    BY <1>4, <1>5, <1>9, <2>1, <2>2, <2>3, <2>6, <2>7
  <2> QED BY <1>8, <2>1, <2>3, <2>4, <2>5, <2>7
<1>13. CASE DropFails(q)
  <2>1. PICK label \in {"up.drop", "up.drop.thumbnail"} : req[q].at = label /\ Raises(q, label, Idle)
    BY <1>13 DEF DropFails, At
  <2>2. Moves(q, Idle)
    BY <2>1, RaisesMoves DEF UpsInv
  <2>3. up' = up /\ upLost' = upLost \cup {f} /\ UpTypes'
    BY <1>3, <1>13, UpKnown DEF DropFails, UpTypes
  <2>4. PICK S \in SUBSET up.stored[f] : S = up.stored[f]
    OBVIOUS
  <2>5. /\ up'.known = up.known /\ up'.record = [up.record EXCEPT ![f] = NoRecord]
        /\ up'.stored = [up.stored EXCEPT ![f] = S]
    BY <1>4, <1>5, <2>1, <2>3, <2>4
  <2> QED BY <1>8, <2>2, <2>3, <2>5
<1> QED BY <1>10, <1>11, <1>12, <1>13

\* Every handler of an upload keeps what holds of uploads.
LEMMA UploadsKeep ==
    ASSUME UpsInv, UploadsNext
    PROVE  UpInv' /\ \E q \in Slots : UpGoes(q)
BY UploadBegun, UploadMade, UploadGone DEF UploadsNext, UploadCalls, UploadsStep

\* The others leave uploads alone.
LEMMA UploadsRest ==
    ASSUME UpsInv, NEW q \in Slots, NEW next, Moves(q, next), UNCHANGED <<up, upLost>>,
           req[q].at \notin UpLabels, next.at \notin UpLabels
    PROVE  UpInv'
<1>1. \A r \in Slots : req[r].at \in UpLabels \/ req'[r].at \in UpLabels => req'[r] = req[r]
  BY DEF Moves
<1>2. \A f : \A r \in Slots : On(r, f)' <=> On(r, f)
  BY <1>1 DEF On
<1>3. \A f : \A r \in Slots : On(r, f) => Pending(req[r])' = Pending(req[r])
  BY <1>1 DEF On, Pending
<1>4. ASSUME NEW r \in Slots PROVE WorkingOf(r)'
  <2>1. SUFFICES ASSUME req'[r].at \in UpLabels PROVE WorkingOf(r)'
    BY DEF WorkingOf
  <2>2. req'[r] = req[r] /\ WorkingOf(r)
    BY <1>1, <2>1 DEF UpsInv, UpInv, Working
  <2>3. Made1(r) => Made1(r)'
    BY <1>2, <2>2 DEF Made1
  <2> QED BY <2>1, <2>2, <2>3 DEF WorkingOf
<1>5. ASSUME NEW f \in Files PROVE KeptOf(f)'
  <2>1. KeptOf(f) /\ Served(f)' = Served(f)
    BY DEF UpsInv, UpInv, Kept, Served
  <2> QED BY <1>2, <1>3, <2>1 DEF KeptOf
<1>6. UpTypes'
  BY DEF UpsInv, UpInv, UpTypes
<1> QED BY <1>4, <1>5, <1>6 DEF UpInv, Working, Kept

\* What a request that dies had put into the store is lost sight of.
LEMMA UploadsDie ==
    ASSUME UpsInv, NEW q \in Slots, DieW(q)
    PROVE  UpInv'
<1>1. Moves(q, Idle) /\ up' = up
  BY DieMoves DEF DieW, UpsInv
<1>2. CASE req[q].at \in UpLabels
  <2>1. UpLocals(req[q]) /\ WorkingOf(q)
    BY <1>2, UpStands
  <2>2. PICK f \in Files : f = req[q].f
    BY <2>1 DEF UpLocals
  <2>3. upLost' = upLost \cup {f}
    BY <2>1, <2>2 DEF DieW, UpLocals
  <2>4. UpTypes'
    BY <1>1 DEF UpsInv, UpInv, UpTypes
  <2>5. UpAt(q, f, Idle)
    BY <1>1, <1>2, <2>2, <2>3, <2>4 DEF UpAt
  <2>6. On(q, f)
    BY <1>2, <2>2 DEF On
  <2>7. \A r \in Slots : r # q /\ On(r, f) =>
          /\ req[r].at \notin Making
          /\ req[r].at = "up.delete" => up.record[f] \in {req[r].new, NoRecord}
          /\ req[r].at \in Dropping => up.record[f] = NoRecord
    BY <2>6, UpKnown
  <2>8. KeptOf(f) /\ f \in up.known
    BY <2>6, UpKnown
  <2>9. UpOn(q, f, Idle)
    BY <1>1, <2>3, <2>7, <2>8, IdleOK DEF UpOn, KeptOf, Served, UpLabels, Making, Dropping
  <2> QED BY <2>5, <2>9, UpKeeps
<1>3. CASE req[q].at \notin UpLabels
  <2>1. Locals(req[q])
    BY DEF UpsInv, PoolInv
  <2>2. "f" \notin DOMAIN req[q]
    BY <1>3, <2>1 DEF Locals, Idle, DocLocals, CatLocals, UpLocals
  <2>3. upLost' = upLost
    BY <2>2 DEF DieW
  <2> QED BY <1>1, <1>3, <2>3, UploadsRest, IdleOK
<1> QED BY <1>2, <1>3

-----------------------------------------------------------------------------
(* The operations log.  That FINAL keeps the last row written follows from    *)
(* one fact about a row on its way: it is newer than the row it was made      *)
(* from.  That no version is given out twice needs the guard: what one life   *)
(* of a process has stamped is at or below its guard, wherever the row is.    *)

\* The rows on their way.
Sending == {w \in Writers : wr[w].at = "send"}

\* One life of one process gave both rows their version.
Same(r, s) == r.ver = s.ver /\ r.by = s.by /\ r.life = s.life

\* A stamped row is at or below the guard of the life that stamped it; only
\* rows of new entries have version 1, and the guard does not know of them.
Guarded(r) == /\ 1 <= r.ver
              /\ r.life <= proc[r.by].life
              /\ r.life = proc[r.by].life /\ 1 < r.ver => r.ver <= proc[r.by].last

\* A change keeps the entry it has read, and what is sent is newer.
Derived == \A w \in Writers : wr[w] # Resting =>
  /\ wr[w].new.id = wr[w].row.id
  /\ 1 <= wr[w].row.ver
  /\ wr[w].at = "send" => wr[w].row.ver < wr[w].new.ver

AllGuarded == /\ \A r \in rows : Guarded(r)
              /\ \A w \in Sending : Guarded(wr[w].new)

Distinct == /\ \A r, s \in rows : r.id = s.id /\ Same(r, s) => r = s
            /\ \A w \in Sending, r \in rows : ~Same(wr[w].new, r)
            /\ \A w, u \in Sending : Same(wr[w].new, wr[u].new) => w = u

Latest == \A e \in LogIds \ log.raced : Final(e) = log.want[e]

JInv == JournalTypeOK /\ Derived /\ AllGuarded /\ Distinct /\ Latest

-----------------------------------------------------------------------------
\* The version that is given out is above the guard and above the row read.
LEMMA NewerVersion ==
  ASSUME NEW now \in Nat, NEW last \in Nat, NEW current \in Nat
  PROVE  /\ NextRowVersion(now, last, current) \in Nat
         /\ last < NextRowVersion(now, last, current)
         /\ current < NextRowVersion(now, last, current)
BY DEF NextRowVersion, Biggest

\* A row that is newer than the one FINAL keeps replaces it.
LEMMA NewestWins ==
  ASSUME JournalTypeOK, NEW r \in Row, rows' = rows \cup {r},
         \A s \in Of(r.id) : s.ver < r.ver
  PROVE  /\ Final(r.id)' = {r}
         /\ \A e \in LogIds : e # r.id => Final(e)' = Final(e)
<1>1. \A s \in rows : s.ver \in Nat
  BY DEF JournalTypeOK, Row
<1>2. r.ver \in Nat /\ r.id \in LogIds
  BY DEF Row
<1>3. Of(r.id)' = Of(r.id) \cup {r}
  BY DEF Of
<1>4. \A s \in Of(r.id) : s.ver \in Nat
  BY <1>1 DEF Of
<1>5. Final(r.id)' = {r}
  BY <1>2, <1>3, <1>4 DEF Final
<1>6. ASSUME NEW e \in LogIds, e # r.id PROVE Final(e)' = Final(e)
  BY <1>6 DEF Final, Of
<1> QED BY <1>5, <1>6

-----------------------------------------------------------------------------
LEMMA JournalInitHolds == ASSUME JournalInit PROVE JInv
<1>1. JournalTypeOK
  BY DEF JournalInit, JournalTypeOK, Row
<1>2. Derived /\ AllGuarded /\ Distinct
  BY DEF JournalInit, Derived, AllGuarded, Distinct, Sending, Resting
<1>3. Latest
  BY DEF JournalInit, Latest, Final, Of
<1> QED BY <1>1, <1>2, <1>3 DEF JInv

\* A step that inserts nothing, and moves no guard, keeps what is said of rows.
LEMMA JournalCreateHolds == ASSUME JInv, CreateOperationLog PROVE JInv'
<1> USE DEF JInv
<1>1. PICK e \in LogIds, p \in Processes, r \in Row :
         /\ Of(e) = {}
         /\ r.id = e /\ r.ver = 1 /\ r.by = p /\ r.life = proc[p].life
         /\ rows' = rows \cup {r}
         /\ log' = [log EXCEPT !.want[e] = {r}]
         /\ UNCHANGED <<proc, wr>>
  <2>1. PICK e \in LogIds, p \in Processes :
           /\ Of(e) = {}
           /\ LET r == [id |-> e, ver |-> 1, gone |-> FALSE, done |-> FALSE,
                        by |-> p, life |-> proc[p].life]
              IN  /\ rows' = rows \cup {r}
                  /\ log' = [log EXCEPT !.want[e] = {r}]
           /\ UNCHANGED <<proc, wr>>
    BY DEF CreateOperationLog
  <2> DEFINE r == [id |-> e, ver |-> 1, gone |-> FALSE, done |-> FALSE,
                   by |-> p, life |-> proc[p].life]
  <2>2. r \in Row
    BY DEF JournalTypeOK, Row
  <2> QED BY <2>1, <2>2
<1>4. JournalTypeOK'
  BY <1>1 DEF JournalTypeOK
<1>5. Derived'
  BY <1>1 DEF Derived
<1>6. AllGuarded'
  <2>1. proc[p].life \in Nat
    BY DEF JournalTypeOK
  <2>2. Guarded(r)'
    BY <1>1, <2>1 DEF Guarded
  <2> QED BY <1>1, <2>2 DEF AllGuarded, Guarded, Sending
<1>7. Distinct'
  <2>1. \A s \in rows : s.id # e
    BY <1>1 DEF Of
  <2>2. \A s, t \in rows' : s.id = t.id /\ Same(s, t) => s = t
    BY <1>1, <2>1 DEF Distinct
  <2>3. \A w \in Sending : 1 < wr[w].new.ver
    BY DEF Sending, Derived, JournalTypeOK, Resting, Row
  <2>4. \A w \in Sending' : ~Same(wr[w].new, r)
    BY <1>1, <2>3 DEF Sending, Same
  <2> QED BY <1>1, <2>2, <2>4 DEF Distinct, Sending
<1>8. Latest'
  <2>1. \A s \in Of(e) : s.ver < r.ver
    BY <1>1
  <2>2. Final(e)' = {r} /\ \A f \in LogIds : f # e => Final(f)' = Final(f)
    BY <1>1, <2>1, NewestWins
  <2>3. log'.raced = log.raced /\ log'.want[e] = {r}
        /\ \A f \in LogIds : f # e => log'.want[f] = log.want[f]
    BY <1>1 DEF JournalTypeOK
  <2> QED BY <2>2, <2>3 DEF Latest
<1> QED BY <1>4, <1>5, <1>6, <1>7, <1>8

\* Reading the current row: nothing is on its way yet.
LEMMA JournalFetchHolds == ASSUME JInv, NEW w \in Writers, FetchCurrent(w) PROVE JInv'
<1> USE DEF JInv
<1>1. PICK p \in Processes, op \in {"patch", "delete", "complete"}, r \in rows :
         /\ wr[w] = Resting
         /\ wr' = [wr EXCEPT ![w] = [at |-> "read", by |-> p, row |-> r, new |-> Change(r, op)]]
         /\ UNCHANGED <<rows, proc, log>>
  BY DEF FetchCurrent, Final, Of
<1>2. r \in Row /\ Change(r, op) \in Row /\ Change(r, op).id = r.id
  BY ZenonT(30) DEF JournalTypeOK, Row, Change
<1>3. wr'[w] = [at |-> "read", by |-> p, row |-> r, new |-> Change(r, op)]
      /\ \A u \in Writers : u # w => wr'[u] = wr[u]
  BY <1>1 DEF JournalTypeOK
<1>4. JournalTypeOK'
  BY <1>1, <1>2 DEF JournalTypeOK
<1>5. Derived'
  <2>1. 1 <= r.ver
    BY DEF AllGuarded, Guarded
  <2> QED BY <1>2, <1>3, <2>1 DEF Derived
<1>6. Sending' = Sending /\ \A u \in Sending : wr'[u] = wr[u]
  BY <1>1, <1>3 DEF Sending, Resting
<1>7. AllGuarded' /\ Distinct'
  BY <1>1, <1>6 DEF AllGuarded, Guarded, Distinct, Same
<1>8. Latest'
  BY <1>1 DEF Latest, Final, Of
<1> QED BY <1>4, <1>5, <1>7, <1>8

\* The guard gives out a version that no row of this life has.
LEMMA JournalStampHolds == ASSUME JInv, NEW w \in Writers, Stamp(w) PROVE JInv'
<1> USE DEF JInv
<1>1. PICK now \in Clock, v \in Nat, r \in Row :
         /\ wr[w].at = "read"
         /\ v = NextRowVersion(now, proc[wr[w].by].last, wr[w].row.ver)
         /\ r = [wr[w].new EXCEPT !.ver = v, !.by = wr[w].by, !.life = proc[wr[w].by].life]
         /\ proc' = [proc EXCEPT ![wr[w].by].last = v]
         /\ wr' = [wr EXCEPT ![w] = [at |-> "send", by |-> wr[w].by, row |-> wr[w].row, new |-> r]]
         /\ log' = [log EXCEPT !.stamps = @ + 1]
         /\ rows' = rows
  <2>1. PICK now \in Clock :
           /\ wr[w].at = "read" /\ log.stamps < MaxStamps
           /\ LET p == wr[w].by
                  v == NextRowVersion(now, proc[p].last, wr[w].row.ver)
              IN  /\ proc' = [proc EXCEPT ![p].last = v]
                  /\ wr' = [wr EXCEPT ![w] = [at |-> "send", by |-> p, row |-> wr[w].row,
                                   new |-> [wr[w].new EXCEPT !.ver = v, !.by = p,
                                                             !.life = proc[p].life]]]
           /\ log' = [log EXCEPT !.stamps = @ + 1]
           /\ rows' = rows
    BY DEF Stamp
  <2> DEFINE v == NextRowVersion(now, proc[wr[w].by].last, wr[w].row.ver)
             r == [wr[w].new EXCEPT !.ver = v, !.by = wr[w].by, !.life = proc[wr[w].by].life]
  <2>2. /\ now \in Nat /\ proc[wr[w].by].last \in Nat /\ proc[wr[w].by].life \in Nat
        /\ wr[w].row.ver \in Nat /\ wr[w].new \in Row /\ wr[w].by \in Processes
    BY <2>1, JournalAssumption DEF JournalTypeOK, Resting, Row
  <2>3. v \in Nat
    BY <2>2, NewerVersion
  <2> HIDE DEF v
  <2>4. r \in Row
    BY <2>2, <2>3 DEF Row
  <2> QED BY <2>1, <2>3, <2>4 DEF v
<1> DEFINE p == wr[w].by
<1>2. /\ p \in Processes /\ wr[w].row \in Row /\ wr[w].row.ver \in Nat
      /\ proc[p].last \in Nat /\ proc[p].life \in Nat /\ wr[w] # Resting
      /\ wr[w].new.id = wr[w].row.id /\ 1 <= wr[w].row.ver
  <2>1. wr[w] # Resting
    BY <1>1 DEF Resting
  <2>2. p \in Processes /\ wr[w].row \in Row
    BY <2>1 DEF JournalTypeOK
  <2> QED BY <2>1, <2>2 DEF JournalTypeOK, Row, Derived
<1>3. v \in Nat /\ proc[p].last < v /\ wr[w].row.ver < v
  BY <1>1, <1>2, NewerVersion, JournalAssumption
<1>4. r.id = wr[w].row.id /\ r.ver = v /\ r.by = p /\ r.life = proc[p].life
  BY <1>1, <1>2 DEF JournalTypeOK, Row
<1>5. /\ wr'[w] = [at |-> "send", by |-> p, row |-> wr[w].row, new |-> r]
      /\ \A u \in Writers : u # w => wr'[u] = wr[u]
      /\ Sending' = Sending \cup {w} /\ w \notin Sending
  BY <1>1 DEF JournalTypeOK, Sending
<1>6. /\ proc'[p].last = v /\ proc'[p].life = proc[p].life
      /\ \A o \in Processes : o # p => proc'[o] = proc[o]
      /\ proc' \in [Processes -> [last : Nat, life : Nat]]
  BY <1>1, <1>2, <1>3 DEF JournalTypeOK
<1> HIDE DEF p
<1>7. JournalTypeOK'
  <2>1. wr' \in [Writers -> {Resting} \cup [at : {"read", "send"}, by : Processes,
                                            row : Row, new : Row]]
    BY <1>1, <1>2 DEF JournalTypeOK, p
  <2>2. log' \in [want : [LogIds -> SUBSET Row], raced : SUBSET LogIds,
                  stamps : Nat, restarts : Nat]
    BY <1>1 DEF JournalTypeOK
  <2> QED BY <1>1, <1>6, <2>1, <2>2 DEF JournalTypeOK
<1>8. Derived'
  BY <1>2, <1>3, <1>4, <1>5 DEF Derived
<1>9. ASSUME NEW s \in Row, Guarded(s)
      PROVE  Guarded(s)' /\ ~Same(r, s)
  <2>1. s.ver \in Nat /\ s.by \in Processes
    BY DEF Row
  <2>2. Guarded(s)'
    BY <1>2, <1>3, <1>6, <1>9, <2>1 DEF Guarded
  <2>3. ~Same(r, s)
    BY <1>2, <1>3, <1>4, <1>9, <2>1 DEF Guarded, Same
  <2> QED BY <2>2, <2>3
<1>10. \A s \in rows : s \in Row /\ Guarded(s)
  BY DEF AllGuarded, JournalTypeOK
<1>11. \A u \in Sending : wr[u].new \in Row /\ Guarded(wr[u].new)
  BY DEF AllGuarded, JournalTypeOK, Sending, Resting
<1>12. AllGuarded'
  <2>1. Guarded(r)'
    BY <1>2, <1>3, <1>4, <1>6 DEF Guarded
  <2>2. \A s \in rows' : Guarded(s)'
    BY <1>1, <1>9, <1>10
  <2>3. ASSUME NEW u \in Sending' PROVE Guarded(wr[u].new)'
    <3>1. CASE u = w
      BY <1>5, <2>1, <3>1 DEF Guarded
    <3>2. CASE u # w
      <4>1. u \in Sending /\ wr'[u] = wr[u]
        BY <1>5, <2>3, <3>2 DEF Sending
      <4>2. Guarded(wr[u].new)
        BY <1>11, <4>1
      <4>3. wr[u].new \in Row
        BY <1>11, <4>1
      <4>4. /\ wr[u].new.ver \in Nat /\ wr[u].new.by \in Processes
        BY <4>3 DEF Row
      <4> QED BY <1>2, <1>3, <1>6, <4>1, <4>2, <4>4 DEF Guarded
    <3> QED BY <3>1, <3>2
  <2> QED BY <2>2, <2>3 DEF AllGuarded
<1>13. Distinct'
  <2>1. \A s \in rows : ~Same(r, s)
    BY <1>9, <1>10
  <2>2. \A u \in Sending : ~Same(r, wr[u].new)
    BY <1>9, <1>11
  <2>3. \A u \in Sending : wr'[u] = wr[u]
    BY <1>5 DEF Sending
  <2>4. \A u \in Sending', s \in rows' : ~Same(wr'[u].new, s)
    BY <1>1, <1>5, <2>1, <2>3 DEF Distinct
  <2>5. \A u, x \in Sending' : Same(wr'[u].new, wr'[x].new) => u = x
    BY <1>5, <2>2, <2>3 DEF Distinct, Same
  <2> QED BY <1>1, <2>4, <2>5 DEF Distinct, Same
<1>14. Latest'
  <2>1. log'.raced = log.raced /\ log'.want = log.want
    BY <1>1 DEF JournalTypeOK
  <2> QED BY <1>1, <2>1 DEF Latest, Final, Of
<1> QED BY <1>7, <1>8, <1>12, <1>13, <1>14

\* A change that leaves a writer without a row on its way.
LEMMA JournalRestHolds ==
  ASSUME JInv, UNCHANGED rows, log'.want = log.want, log'.raced = log.raced,
         log' \in [want : [LogIds -> SUBSET Row], raced : SUBSET LogIds, stamps : Nat, restarts : Nat],
         wr' \in [Writers -> {Resting} \cup [at : {"read", "send"}, by : Processes, row : Row, new : Row]],
         \A u \in Writers : wr'[u] \in {Resting, wr[u]},
         proc' \in [Processes -> [last : Nat, life : Nat]],
         \A p \in Processes : proc'[p] = proc[p] \/ proc'[p].life = proc[p].life + 1
  PROVE  JInv'
<1> USE DEF JInv
<1>1. JournalTypeOK'
  BY DEF JournalTypeOK
<1>2. Derived'
  BY DEF Derived
<1>3. \A u \in Sending' : u \in Sending /\ wr'[u] = wr[u]
  BY DEF Sending, Resting
<1>4. ASSUME NEW s \in Row, Guarded(s) PROVE Guarded(s)'
  <2>1. s.ver \in Nat /\ s.by \in Processes /\ s.life \in Nat
    BY DEF Row
  <2>2. proc[s.by].life \in Nat /\ proc'[s.by].life \in Nat
    BY <2>1 DEF JournalTypeOK
  <2> QED BY <1>4, <2>1, <2>2 DEF Guarded
<1>5. AllGuarded'
  <2>1. \A s \in rows : s \in Row /\ Guarded(s)
    BY DEF AllGuarded, JournalTypeOK
  <2>2. \A s \in rows' : Guarded(s)'
    BY <1>4, <2>1
  <2>3. ASSUME NEW u \in Sending' PROVE Guarded(wr[u].new)'
    <3>1. wr[u].new \in Row /\ Guarded(wr[u].new) /\ wr'[u] = wr[u]
      BY <1>3, <2>3 DEF AllGuarded, JournalTypeOK, Sending, Resting
    <3> DEFINE s == wr[u].new
    <3>2. /\ s.ver \in Nat /\ s.by \in Processes /\ s.life \in Nat
          /\ proc[s.by].life \in Nat /\ proc'[s.by].life \in Nat
      BY <3>1 DEF Row, JournalTypeOK
    <3> QED BY <3>1, <3>2 DEF Guarded
  <2> QED BY <2>2, <2>3 DEF AllGuarded
<1>6. Distinct'
  BY <1>3 DEF Distinct, Same
<1>7. Latest'
  BY DEF Latest, Final, Of
<1> QED BY <1>1, <1>2, <1>5, <1>6, <1>7

\* The row lands: it is newer than every row, or the entry is raced.
LEMMA JournalInsertHolds == ASSUME JInv, NEW w \in Writers, InsertRow(w) PROVE JInv'
<1> USE DEF JInv
<1>1. PICK r \in Row, e \in LogIds :
         /\ wr[w].at = "send" /\ r = wr[w].new /\ e = wr[w].row.id
         /\ rows' = rows \cup {r}
         /\ log' = [log EXCEPT
              !.want[e] = {r},
              !.raced = IF wr[w].row \in Final(e) THEN @ \ {e} ELSE @ \cup {e}]
         /\ wr' = [wr EXCEPT ![w] = Resting]
         /\ proc' = proc
  <2>1. wr[w] # Resting
    BY DEF InsertRow, Resting
  <2>2. wr[w].new \in Row /\ wr[w].row \in Row
    BY <2>1 DEF JournalTypeOK
  <2>3. wr[w].row.id \in LogIds
    BY <2>2 DEF Row
  <2> QED BY <2>2, <2>3 DEF InsertRow
<1>2. /\ w \in Sending /\ wr[w].row \in Row
      /\ r.id = e /\ wr[w].row.ver < r.ver /\ wr[w].row.ver \in Nat /\ r.ver \in Nat
  <2>1. w \in Sending /\ wr[w] # Resting
    BY <1>1 DEF Sending, Resting
  <2>2. wr[w].row \in Row
    BY <2>1 DEF JournalTypeOK
  <2>3. r.id = e /\ wr[w].row.ver < r.ver
    BY <1>1, <2>1 DEF Derived
  <2> QED BY <2>1, <2>2, <2>3 DEF Row
<1>3. \A u \in Sending' : u \in Sending /\ u # w /\ wr'[u] = wr[u]
  BY <1>1 DEF Sending, Resting, JournalTypeOK
<1>4. JournalTypeOK'
  <2>1. log' \in [want : [LogIds -> SUBSET Row], raced : SUBSET LogIds,
                  stamps : Nat, restarts : Nat]
    BY <1>1 DEF JournalTypeOK
  <2> QED BY <1>1, <2>1 DEF JournalTypeOK
<1>5. Derived'
  BY <1>1 DEF Derived, JournalTypeOK
<1>6. AllGuarded'
  <2>1. Guarded(r)
    BY <1>1, <1>2 DEF AllGuarded
  <2> QED BY <1>1, <1>3, <2>1 DEF AllGuarded, Guarded
<1>7. Distinct'
  <2>1. \A s \in rows : ~Same(r, s) /\ ~Same(s, r)
    BY <1>1, <1>2 DEF Distinct, Same
  <2>2. \A u \in Sending' : ~Same(wr[u].new, r)
    BY <1>1, <1>2, <1>3 DEF Distinct
  <2>3. \A s, t \in rows' : s.id = t.id /\ Same(s, t) => s = t
    BY <1>1, <2>1 DEF Distinct
  <2>4. \A u \in Sending', s \in rows' : ~Same(wr'[u].new, s)
    BY <1>1, <1>3, <2>2 DEF Distinct
  <2>5. \A u, x \in Sending' : Same(wr'[u].new, wr'[x].new) => u = x
    BY <1>3 DEF Distinct
  <2> QED BY <2>3, <2>4, <2>5 DEF Distinct, Same
<1>8. Latest'
  <2>1. /\ log'.want[e] = {r}
        /\ \A f \in LogIds : f # e => log'.want[f] = log.want[f]
        /\ log'.raced = IF wr[w].row \in Final(e) THEN log.raced \ {e} ELSE log.raced \cup {e}
    BY <1>1 DEF JournalTypeOK
  <2>2. ASSUME NEW f \in LogIds, f # e, f \notin log'.raced
        PROVE  Final(f)' = log'.want[f]
    <3>1. Final(f)' = Final(f)
      BY <1>1, <1>2, <2>2 DEF Final, Of
    <3>2. f \notin log.raced
      BY <2>1, <2>2
    <3> QED BY <2>1, <2>2, <3>1, <3>2 DEF Latest
  <2>3. ASSUME e \notin log'.raced PROVE Final(e)' = log'.want[e]
    <3>1. wr[w].row \in Final(e)
      BY <2>1, <2>3
    <3>2. \A s \in Of(e) : s.ver \in Nat /\ s.ver <= wr[w].row.ver
      BY <3>1 DEF Final, Of, JournalTypeOK, Row
    <3>3. \A s \in Of(r.id) : s.ver < r.ver
      BY <1>2, <3>2
    <3>4. Final(r.id)' = {r}
      BY <1>1, <3>3, NewestWins
    <3> QED BY <1>2, <2>1, <3>4
  <2> QED BY <2>2, <2>3 DEF Latest
<1> QED BY <1>4, <1>5, <1>6, <1>7, <1>8

\* An insert that is lost, and a restart.
LEMMA JournalLossHolds ==
  ASSUME JInv, \/ \E w \in Writers : InsertLost(w)
               \/ \E p \in Processes : Restart(p)
               \/ UNCHANGED journalVars
  PROVE  JInv'
<1>0. JournalTypeOK
  BY DEF JInv
<1>1. ASSUME NEW w \in Writers, InsertLost(w) PROVE JInv'
  <2>1. /\ wr' \in [Writers -> {Resting} \cup [at : {"read", "send"}, by : Processes,
                                              row : Row, new : Row]]
        /\ \A u \in Writers : wr'[u] \in {Resting, wr[u]}
    BY <1>0, <1>1 DEF InsertLost, JournalTypeOK
  <2> QED BY <1>0, <1>1, <2>1, JournalRestHolds DEF InsertLost, JournalTypeOK
<1>2. ASSUME NEW p \in Processes, Restart(p) PROVE JInv'
  <2>1. /\ wr' \in [Writers -> {Resting} \cup [at : {"read", "send"}, by : Processes,
                                              row : Row, new : Row]]
        /\ \A u \in Writers : wr'[u] \in {Resting, wr[u]}
    BY <1>0, <1>2 DEF Restart, JournalTypeOK
  <2>2. /\ proc' \in [Processes -> [last : Nat, life : Nat]]
        /\ \A o \in Processes : proc'[o] = proc[o] \/ proc'[o].life = proc[o].life + 1
    BY <1>0, <1>2 DEF Restart, JournalTypeOK
  <2>3. log' = [log EXCEPT !.restarts = @ + 1] /\ UNCHANGED rows
    BY <1>2 DEF Restart
  <2>4. /\ log' \in [want : [LogIds -> SUBSET Row], raced : SUBSET LogIds,
                     stamps : Nat, restarts : Nat]
        /\ log'.want = log.want /\ log'.raced = log.raced
    BY <1>0, <2>3 DEF JournalTypeOK
  <2> QED BY <2>1, <2>2, <2>3, <2>4, JournalRestHolds
<1>3. CASE UNCHANGED journalVars
  BY <1>0, <1>3, JournalRestHolds DEF journalVars, JournalTypeOK
<1> QED BY <1>1, <1>2, <1>3

LEMMA JournalStepHolds == JInv /\ [JournalNext]_journalVars => JInv'
<1> SUFFICES ASSUME JInv, [JournalNext]_journalVars PROVE JInv'
  OBVIOUS
<1>1. CASE CreateOperationLog
  BY <1>1, JournalCreateHolds
<1>2. ASSUME NEW w \in Writers, FetchCurrent(w) \/ Stamp(w) \/ InsertRow(w) \/ InsertLost(w)
      PROVE  JInv'
  BY <1>2, JournalFetchHolds, JournalStampHolds, JournalInsertHolds, JournalLossHolds
<1>3. CASE \E p \in Processes : Restart(p)
  BY <1>3, JournalLossHolds
<1>4. CASE UNCHANGED journalVars
  BY <1>4, JournalLossHolds
<1> QED BY <1>1, <1>2, <1>3, <1>4 DEF JournalNext

LEMMA JournalInvariant == JournalSpec => []JInv
BY JournalInitHolds, JournalStepHolds, PTL DEF JournalSpec

-----------------------------------------------------------------------------
(* The lists.                                                               *)

\* Whether something is newer than another is told apart for all items.
Dated == \A i \in Items : item[i].time \in Nat

\* By time and id items are in a strict and total order.
LEMMA InOrder ==
    ASSUME Dated, NEW S \in SUBSET Items, NEW j \in S, NEW k \in S
    PROVE  /\ j \notin Before(S, j)
           /\ k \in Before(S, j) => Before(S, k) \subseteq Before(S, j) \ {k}
           /\ k # j => k \in Before(S, j) \/ j \in Before(S, k)
           /\ k \in Before(S, j) <=> After(item[k].time, k, j)
<1>1. /\ item[j].time \in Nat /\ item[k].time \in Nat /\ j \in Nat /\ k \in Nat
      /\ \A i \in S : item[i].time \in Nat /\ i \in Nat
  BY PagesAssumption DEF Dated
<1>2. /\ j \notin Before(S, j)
      /\ k # j => k \in Before(S, j) \/ j \in Before(S, k)
      /\ k \in Before(S, j) <=> After(item[k].time, k, j)
  BY <1>1 DEF Before, After
<1>3. ASSUME k \in Before(S, j), NEW i \in Before(S, k) PROVE i \in Before(S, j) \ {k}
  <2>1. item[k].time \in Nat /\ item[i].time \in Nat /\ i \in Nat /\ i \in S
    BY <1>1 DEF Before
  <2>2. After(item[i].time, i, k) /\ After(item[k].time, k, j)
    BY <1>3 DEF Before
  <2>3. After(item[i].time, i, j) /\ i # k
    BY <1>1, <2>1, <2>2 DEF After
  <2> QED BY <2>1, <2>3 DEF Before
<1> QED BY <1>2, <1>3

\* A set that is not empty has a last item.
LEMMA LastIs ==
    ASSUME Dated, NEW S \in SUBSET Items, S # {}
    PROVE  Last(S) \in S /\ Before(S, Last(S)) = S \ {Last(S)}
<1>1. IsFiniteSet(S)
  BY PagesAssumption, FS_Subset
<1> DEFINE Rest == {S \ Before(S, j) : j \in S}
<1>2. PICK R \in Rest : \A Q \in Rest : <<Q, R>> \notin StrictSubsetOrdering(S)
  <2>1. IsWellFoundedOn(StrictSubsetOrdering(S), SUBSET S)
    BY <1>1, FS_StrictSubsetOrderingWellFounded, FS_FiniteSubsetsOfFinite
  <2>2. Rest \subseteq SUBSET S /\ Rest # {}
    OBVIOUS
  <2> HIDE DEF Rest
  <2> QED BY <2>1, <2>2, WFMin
<1>3. PICK j \in S : R = S \ Before(S, j)
  OBVIOUS
<1>4. ASSUME NEW k \in S, k # j PROVE k \in Before(S, j)
  <2> SUFFICES ASSUME k \notin Before(S, j) PROVE FALSE
    OBVIOUS
  <2>1. Before(S, j) \subseteq Before(S, k) \ {j} /\ j \in Before(S, k) /\ j \notin Before(S, j)
    BY <1>4, InOrder
  <2>2. S \ Before(S, k) \subseteq R /\ S \ Before(S, k) # R
    BY <1>3, <2>1
  <2>3. <<S \ Before(S, k), R>> \in StrictSubsetOrdering(S)
    BY <1>3, <2>2 DEF StrictSubsetOrdering
  <2> QED BY <1>2, <2>3
<1>5. Before(S, j) = S \ {j}
  BY <1>4, InOrder DEF Before
<1> QED BY <1>5 DEF Last

\* Where n items or more come before one, the first n are those before another.
LEMMA FirstAreBefore ==
    ASSUME Dated, NEW S \in SUBSET Items, NEW n \in Nat, NEW i \in S, n <= Cardinality(Before(S, i))
    PROVE  \E j \in S : First(S, n) = Before(S, j) /\ Cardinality(First(S, n)) = n
<1>1. IsFiniteSet(S)
  BY PagesAssumption, FS_Subset
<1>0. \A j \in S : /\ Before(S, j) \subseteq S /\ IsFiniteSet(Before(S, j))
                   /\ Cardinality(Before(S, j)) \in Nat
  BY <1>1, FS_Subset, FS_CardinalityType DEF Before
<1> DEFINE Heads == {Before(S, j) : j \in {k \in S : n <= Cardinality(Before(S, k))}}
<1>2. PICK H \in Heads : \A G \in Heads : <<G, H>> \notin StrictSubsetOrdering(S)
  <2>1. IsWellFoundedOn(StrictSubsetOrdering(S), SUBSET S)
    BY <1>1, FS_StrictSubsetOrderingWellFounded, FS_FiniteSubsetsOfFinite
  <2>2. Heads \subseteq SUBSET S /\ Heads # {}
    BY <1>0
  <2> HIDE DEF Heads
  <2> QED BY <2>1, <2>2, WFMin
<1>3. PICK j \in S : H = Before(S, j) /\ n <= Cardinality(Before(S, j))
  OBVIOUS
<1>4. Cardinality(Before(S, j)) = n
  <2> SUFFICES ASSUME n < Cardinality(Before(S, j)) PROVE FALSE
    BY <1>0, <1>3
  <2> DEFINE B == Before(S, j)
             l == Last(B)
  <2>1. B # {} /\ B \in SUBSET Items
    BY <1>0, FS_EmptySet
  <2>2. l \in B /\ Before(B, l) = B \ {l}
    BY <2>1, LastIs
  <2>3. l \in S /\ Before(S, l) \subseteq B \ {l}
    BY <1>0, <2>2, InOrder
  <2>4. Before(S, l) = B \ {l}
    BY <1>0, <2>2, <2>3 DEF Before
  <2>5. Cardinality(B \ {l}) = Cardinality(B) - 1
    BY <1>0, <2>2, FS_RemoveElement
  <2>6. n <= Cardinality(Before(S, l))
    BY <1>0, <2>4, <2>5
  <2>7. Before(S, l) \in Heads
    BY <2>3, <2>6
  <2>8. <<Before(S, l), H>> \in StrictSubsetOrdering(S)
    BY <1>0, <1>3, <2>2, <2>4 DEF StrictSubsetOrdering
  <2> QED BY <1>2, <2>7, <2>8
<1>5. First(S, n) = Before(S, j)
  <2>1. ASSUME NEW k \in First(S, n) PROVE k \in Before(S, j)
    <3>1. k \in S /\ Cardinality(Before(S, k)) < n
      BY DEF First
    <3>2. ASSUME j \in Before(S, k) PROVE FALSE
      <4>1. Before(S, j) \subseteq Before(S, k)
        BY <3>1, <3>2, InOrder
      <4>2. Cardinality(Before(S, j)) <= Cardinality(Before(S, k))
        BY <1>0, <3>1, <4>1, FS_Subset
      <4> QED BY <1>0, <1>4, <3>1, <4>2
    <3> QED BY <1>4, <3>1, <3>2, InOrder
  <2>2. ASSUME NEW k \in Before(S, j) PROVE k \in First(S, n)
    <3>1. k \in S /\ Before(S, k) \subseteq Before(S, j) \ {k}
      BY <1>0, InOrder
    <3>2. Cardinality(Before(S, j) \ {k}) = n - 1 /\ IsFiniteSet(Before(S, j) \ {k})
      BY <1>0, <1>4, FS_RemoveElement
    <3>3. Cardinality(Before(S, k)) <= n - 1
      BY <1>0, <3>1, <3>2, FS_Subset
    <3> QED BY <1>0, <3>1, <3>3 DEF First
  <2> QED BY <2>1, <2>2
<1> QED BY <1>4, <1>5

\* What is not among the first comes after all of them.
LEMMA FirstComeFirst ==
    ASSUME Dated, NEW S \in SUBSET Items, NEW n \in Nat, NEW i \in First(S, n), NEW k \in S \ First(S, n)
    PROVE  i \in Before(S, k)
<1>1. IsFiniteSet(S) /\ i \in S
  BY PagesAssumption, FS_Subset DEF First
<1>2. /\ Cardinality(Before(S, i)) \in Nat /\ Cardinality(Before(S, k)) \in Nat
      /\ IsFiniteSet(Before(S, i))
  BY <1>1, FS_Subset, FS_CardinalityType DEF Before
<1>3. Cardinality(Before(S, i)) < n /\ n <= Cardinality(Before(S, k))
  BY <1>1, <1>2 DEF First
<1>4. ASSUME k \in Before(S, i) PROVE FALSE
  <2>1. Before(S, k) \subseteq Before(S, i)
    BY <1>1, <1>4, InOrder
  <2> QED BY <1>2, <1>3, <2>1, FS_Subset
<1> QED BY <1>1, <1>3, <1>4, InOrder

\* The first n of the first m are the first n.
LEMMA FirstOfFirst ==
    ASSUME Dated, NEW S \in SUBSET Items, NEW n \in Nat, NEW m \in Nat, n <= m
    PROVE  First(First(S, m), n) = First(S, n)
<1> DEFINE F == First(S, m)
<1>1. IsFiniteSet(S) /\ F \in SUBSET S
  BY PagesAssumption, FS_Subset DEF First
<1>2. ASSUME NEW j \in F PROVE Before(F, j) = Before(S, j)
  <2>1. ASSUME NEW k \in Before(S, j) PROVE k \in F
    <3>1. k \in S
      BY DEF Before
    <3> SUFFICES ASSUME k \notin F PROVE FALSE
      OBVIOUS
    <3>2. j \in Before(S, k)
      BY <3>1, FirstComeFirst
    <3> QED BY <1>1, <2>1, <3>1, <3>2, InOrder
  <2> QED BY <1>1, <2>1 DEF Before
<1>3. \A j \in S : Cardinality(Before(S, j)) \in Nat
  BY <1>1, FS_Subset, FS_CardinalityType DEF Before
<1>4. \A j \in S : Cardinality(Before(S, j)) < n => j \in F
  BY <1>3 DEF First
<1>5. First(F, n) = {j \in F : Cardinality(Before(S, j)) < n}
  BY <1>2 DEF First
<1> HIDE DEF F
<1>6. First(S, n) = {j \in S : Cardinality(Before(S, j)) < n}
  BY DEF First
<1>7. First(F, n) = First(S, n)
  BY <1>1, <1>4, <1>5, <1>6
<1> QED BY <1>7 DEF F

\* Where a page is cut, there is a last row on it and what follows comes after
\* it; and where it is not, it is all.
LEMMA PageCut ==
    ASSUME Dated, NEW S \in SUBSET Items, NEW n \in Nat \ {0},
           Cardinality(First(S, n + 1)) > n
    PROVE  /\ Last(First(S, n)) \in First(S, n)
           /\ \A i \in First(S, n) : ~After(item[Last(First(S, n))].time, Last(First(S, n)), i)
           /\ \A i \in S \ First(S, n) : After(item[Last(First(S, n))].time, Last(First(S, n)), i)
<1> DEFINE F == First(S, n)
           l == Last(F)
<1>1. IsFiniteSet(S) /\ F \in SUBSET Items /\ F \subseteq S /\ IsFiniteSet(First(S, n + 1))
  BY PagesAssumption, FS_Subset DEF First
<1>2. F # {}
  <2>1. First(S, n + 1) # {}
    BY FS_EmptySet
  <2>2. PICK i \in S : TRUE
    BY <2>1 DEF First
  <2>3. Cardinality(Before(S, i)) \in Nat
    BY <1>1, FS_Subset, FS_CardinalityType DEF Before
  <2>4. PICK j \in S : Cardinality(First(S, 0)) = 0 /\ First(S, 0) = Before(S, j)
    BY <2>3, FirstAreBefore
  <2>5. Cardinality(Before(S, j)) = 0
    BY <2>4
  <2> QED BY <2>5 DEF First
<1>3. l \in F /\ Before(F, l) = F \ {l}
  BY <1>1, <1>2, LastIs
<1>4. ASSUME NEW i \in F PROVE ~After(item[l].time, l, i)
  <2>1. l \notin Before(F, i)
    <3>1. CASE i = l
      BY <1>1, <1>3, <3>1, InOrder
    <3>2. CASE i # l
      <4>1. i \in Before(F, l)
        BY <1>3, <3>2
      <4> QED BY <1>1, <1>3, <4>1, InOrder
    <3> QED BY <3>1, <3>2
  <2> QED BY <1>1, <1>3, <2>1, InOrder
<1>5. ASSUME NEW i \in S \ F PROVE After(item[l].time, l, i)
  <2>1. l \in Before(S, i)
    BY <1>3, FirstComeFirst
  <2> QED BY <1>1, <1>3, <2>1, InOrder
<1> QED BY <1>3, <1>4, <1>5

LEMMA PageWhole ==
    ASSUME Dated, NEW S \in SUBSET Items, NEW n \in Nat,
           ~(Cardinality(First(S, n + 1)) > n)
    PROVE  First(S, n) = S
<1>1. IsFiniteSet(S)
  BY PagesAssumption, FS_Subset
<1>2. \A j \in S : Cardinality(Before(S, j)) \in Nat /\ Before(S, j) \subseteq S
  BY <1>1, FS_Subset, FS_CardinalityType DEF Before
<1>3. ASSUME NEW i \in S PROVE Cardinality(Before(S, i)) < n + 1
  BY <1>2, FirstAreBefore
<1>4. First(S, n + 1) = S
  BY <1>3 DEF First
<1>5. ASSUME NEW i \in S PROVE Cardinality(Before(S, i)) < n
  <2>1. Before(S, i) \subseteq S \ {i}
    BY <1>2, InOrder
  <2>2. IsFiniteSet(S \ {i}) /\ Cardinality(S \ {i}) = Cardinality(S) - 1 /\ Cardinality(S) \in Nat
    BY <1>1, FS_RemoveElement, FS_CardinalityType
  <2>3. Cardinality(Before(S, i)) <= Cardinality(S) - 1
    BY <2>1, <2>2, FS_Subset
  <2> QED BY <1>2, <1>4, <2>2, <2>3
<1> QED BY <1>5 DEF First

WalkRecord == [at : {"page", "end"}, style : Styles \cup {"none"}, limit : Nat, time : Nat, id : Nat,
               offset : Nat, changes : Nat, ever : SUBSET Items, stayed : SUBSET Items,
               left : BOOLEAN, got : SUBSET Items, twice : SUBSET Items, legs : SUBSET Sources,
               found : SUBSET Items]
ItemRecord == [there : BOOLEAN, time : Nat, src : Sources \cup {0, Min(Sources)}]

PagesTypes ==
  /\ item \in [Items -> ItemRecord] /\ walk \in WalkRecord
  /\ \A i \in walk.ever : item[i].time # 0
  /\ walk.stayed \subseteq Listed /\ Listed \subseteq walk.ever
  /\ walk.found \subseteq walk.ever /\ walk.got \subseteq walk.ever
  /\ walk.at = "page" => walk.limit # 0

Passed(i) == After(walk.time, walk.id, i)

\* Nothing of what was shown comes after the cursor.
ShownOnce ==
  /\ walk.style # "offset" => walk.twice = {}
  /\ walk.at = "page" /\ walk.time = 0 => walk.got = {}
  /\ walk.at = "page" /\ walk.style # "offset" /\ walk.time # 0 => \A i \in walk.got : ~Passed(i)

\* What stayed was shown or is still to come.
ToCome ==
  /\ walk.style = "keyset" => \A i \in walk.stayed :
       i \in walk.got \/ (walk.at = "page" /\ (walk.time = 0 \/ Passed(i)))
  /\ walk.style = "offset" /\ ~walk.left => \A i \in walk.stayed :
       i \in walk.got \/ (walk.at = "page" /\ walk.offset <= Cardinality(Before(Listed, i)))

PagesInv == PagesTypes /\ ShownOnce /\ ToCome

LEMMA PagesDated == PagesTypes => Dated /\ Listed \in SUBSET Items
BY DEF PagesTypes, Dated, ItemRecord, Listed

\* A page of what S holds; `next` is its last row.
PageOf(S, page, more, next) ==
  /\ page \subseteq S
  /\ more => next \in page /\ (\A i \in page : ~After(item[next].time, next, i))

LEMMA AnswerTypes ==
    ASSUME PagesTypes, UNCHANGED item, walk.at = "page", NEW page \in SUBSET walk.ever, NEW more \in BOOLEAN,
           NEW next, more => next \in walk.ever, Answer(page, more, next)
    PROVE  /\ PagesTypes'
           /\ walk'.at = (IF more THEN "page" ELSE "end") /\ walk'.style = walk.style
           /\ walk'.got = walk.got \cup page /\ walk'.twice = walk.twice \cup (walk.got \cap page)
           /\ walk'.offset = walk.offset + walk.limit /\ walk'.stayed = walk.stayed
           /\ walk'.left = walk.left
           /\ more => walk'.time = item[next].time /\ walk'.id = next /\ walk'.time # 0
<1>1. walk \in WalkRecord /\ item \in [Items -> ItemRecord]
  BY DEF PagesTypes
<1>2. /\ walk'.at = (IF more THEN "page" ELSE "end") /\ walk'.style = walk.style
      /\ walk'.got = walk.got \cup page /\ walk'.twice = walk.twice \cup (walk.got \cap page)
      /\ walk'.offset = walk.offset + walk.limit /\ walk'.stayed = walk.stayed
      /\ walk'.left = walk.left /\ walk'.limit = walk.limit /\ walk'.ever = walk.ever
      /\ walk'.found = {}
      /\ more => walk'.time = item[next].time /\ walk'.id = next
  BY <1>1 DEF Answer, WalkRecord
<1>3. walk' \in WalkRecord
  <2>1. walk.ever \subseteq Items /\ walk.limit \in Nat /\ walk.offset + walk.limit \in Nat
    BY <1>1 DEF WalkRecord
  <2>2. more => item[next].time \in Nat /\ next \in Nat
    BY <1>1, <2>1, PagesAssumption DEF ItemRecord
  <2> QED BY ZenonT(30), <1>1, <2>1, <2>2 DEF Answer, WalkRecord
<1>4. Listed' = Listed
  BY DEF Listed
<1> QED BY <1>1, <1>2, <1>3, <1>4 DEF PagesTypes

LEMMA AnswerShowsOnce ==
    ASSUME PagesTypes, ShownOnce, UNCHANGED item, walk.at = "page", walk.style # "offset",
           NEW S, S \subseteq walk.ever, walk.time # 0 => \A i \in S : Passed(i),
           NEW page, NEW more \in BOOLEAN, NEW next, PageOf(S, page, more, next),
           Answer(page, more, next)
    PROVE  PagesTypes' /\ ShownOnce'
<1>1. page \subseteq S /\ page \in SUBSET walk.ever /\ (more => next \in walk.ever)
  BY DEF PageOf
<1>2. /\ PagesTypes'
      /\ walk'.at = (IF more THEN "page" ELSE "end") /\ walk'.style = walk.style
      /\ walk'.got = walk.got \cup page /\ walk'.twice = walk.twice \cup (walk.got \cap page)
      /\ more => walk'.time = item[next].time /\ walk'.id = next /\ walk'.time # 0
  BY <1>1, AnswerTypes
<1>3. walk.got \cap page = {}
  BY <1>1 DEF ShownOnce
<1>4. ASSUME more, NEW i \in walk.got \cup page PROVE ~After(item[next].time, next, i)
  <2>1. CASE i \in page
    BY <1>4, <2>1 DEF PageOf
  <2>2. CASE i \in walk.got
    <3>1. walk.time # 0 /\ ~Passed(i) /\ Passed(next)
      BY <1>1, <1>4, <2>2 DEF ShownOnce, PageOf
    <3>2. /\ item[i].time \in Nat /\ item[next].time \in Nat /\ i \in Nat /\ next \in Nat
          /\ walk.time \in Nat /\ walk.id \in Nat
      BY <1>1, <1>4, <2>2, PagesAssumption DEF PagesTypes, WalkRecord, ItemRecord
    <3> QED BY <3>1, <3>2 DEF Passed, After
  <2> QED BY <1>4, <2>1, <2>2
<1>5. ASSUME more, NEW i PROVE Passed(i)' <=> After(item[next].time, next, i)
  BY <1>2, <1>5 DEF Passed, After
<1>6. more => \A i \in walk'.got : ~Passed(i)'
  BY <1>2, <1>4, <1>5
<1>7. walk.twice = {} /\ (walk.time # 0 \/ walk.got = {})
  BY DEF ShownOnce
<1>8. walk'.style # "offset" => walk'.twice = {}
  BY <1>2, <1>3, <1>7
<1> QED BY <1>2, <1>6, <1>8 DEF ShownOnce

LEMMA KeysetKeeps == PagesInv /\ KeysetPage => PagesInv'
<1> SUFFICES ASSUME PagesInv, KeysetPage PROVE PagesInv'
  OBVIOUS
<1> DEFINE n == walk.limit
           fetched == First(Beyond, n + 1)
           more == Cardinality(fetched) > n
           page == First(Beyond, n)
           next == IF more THEN NextFrom(fetched, n) ELSE 0
<1>0. Answer(First(fetched, n), more, next)
  BY Zenon DEF KeysetPage
<1>1. /\ walk.at = "page" /\ walk.style = "keyset" /\ UNCHANGED item
      /\ PagesTypes /\ ShownOnce /\ ToCome
  BY DEF KeysetPage, PagesInv
<1>2. Dated /\ Beyond \in SUBSET Items /\ Beyond \subseteq Listed /\ n \in Nat \ {0}
  BY <1>1, PagesDated DEF Beyond, PagesTypes, WalkRecord
<1>3. First(fetched, n) = page
  BY <1>2, FirstOfFirst
<1>4. more => /\ next \in page
              /\ \A i \in page : ~After(item[next].time, next, i)
              /\ \A i \in Beyond \ page : After(item[next].time, next, i)
  BY <1>2, <1>3, PageCut DEF NextFrom
<1>5. ~more => page = Beyond
  BY <1>2, PageWhole
<1>6. page \subseteq Beyond
  BY DEF First
<1>7. Beyond \subseteq walk.ever /\ (walk.time # 0 => \A i \in Beyond : Passed(i))
  BY <1>1, <1>2 DEF PagesTypes, Beyond, Passed
<1>8. more \in BOOLEAN
  OBVIOUS
<1>9. more \in BOOLEAN /\ Answer(page, more, next)
  <2> HIDE DEF more, next, page, fetched
  <2> QED BY <1>0, <1>3, <1>8
<1> HIDE DEF fetched, more, page, next, n
<1>10. PageOf(Beyond, page, more, next)
  BY <1>4, <1>6 DEF PageOf
<1>11. PagesTypes' /\ ShownOnce'
  BY <1>1, <1>7, <1>9, <1>10, AnswerShowsOnce
<1>12. /\ walk'.at = (IF more THEN "page" ELSE "end") /\ walk'.style = walk.style
       /\ walk'.got = walk.got \cup page /\ walk'.stayed = walk.stayed
       /\ more => walk'.time = item[next].time /\ walk'.id = next
  <2>1. page \in SUBSET walk.ever /\ (more => next \in walk.ever)
    BY <1>4, <1>6, <1>7
  <2> QED BY <1>1, <1>9, <2>1, AnswerTypes
<1>13. ASSUME NEW i \in walk.stayed PROVE i \in walk'.got \/ (more /\ Passed(i)')
  <2>1. i \in Listed
    BY <1>1 DEF PagesTypes
  <2>2. i \in walk.got \/ i \in Beyond
    BY <1>1, <2>1 DEF ToCome, Beyond, Passed
  <2>3. CASE i \in walk.got \/ i \in page
    BY <1>12, <2>3
  <2>4. CASE i \in Beyond \ page
    <3>1. more /\ After(item[next].time, next, i)
      BY <1>4, <1>5, <2>4
    <3> QED BY <1>1, <1>12, <3>1 DEF Passed, After
  <2> QED BY <2>2, <2>3, <2>4
<1>14. ToCome'
  BY <1>1, <1>12, <1>13 DEF ToCome
<1> QED BY <1>11, <1>14 DEF PagesInv

LEMMA OffsetKeeps == PagesInv /\ OffsetPage => PagesInv'
<1> SUFFICES ASSUME PagesInv, OffsetPage PROVE PagesInv'
  OBVIOUS
<1> DEFINE o == walk.offset
           l == walk.limit
           fetched == First(Listed, o + l) \ First(Listed, o)
           more == Cardinality(fetched) = l
           next == IF more THEN Last(fetched) ELSE 0
<1>0. Answer(fetched, more, next)
  BY Zenon DEF OffsetPage
<1>1. /\ walk.at = "page" /\ walk.style = "offset" /\ UNCHANGED item
      /\ PagesTypes /\ ShownOnce /\ ToCome
  BY DEF OffsetPage, PagesInv
<1>2. Dated /\ Listed \in SUBSET Items /\ Listed \subseteq walk.ever /\ l \in Nat \ {0} /\ o \in Nat
  BY <1>1, PagesDated DEF PagesTypes, WalkRecord
<1>3. fetched \in SUBSET walk.ever /\ fetched \in SUBSET Items
  BY <1>2 DEF First
<1>4. ASSUME more PROVE next \in walk.ever
  <2>1. fetched # {}
    BY <1>2, <1>4, FS_EmptySet
  <2> QED BY <1>2, <1>3, <1>4, <2>1, LastIs
<1>5. more \in BOOLEAN
  OBVIOUS
<1>6. ASSUME NEW i \in Listed, o <= Cardinality(Before(Listed, i)), i \notin fetched
      PROVE  more /\ o + l <= Cardinality(Before(Listed, i))
  <2>1. IsFiniteSet(Listed) /\ Cardinality(Before(Listed, i)) \in Nat
    <3>1. IsFiniteSet(Listed) /\ Before(Listed, i) \subseteq Listed
      BY <1>2, PagesAssumption, FS_Subset DEF Before
    <3> QED BY <3>1, FS_Subset, FS_CardinalityType
  <2>2. o + l <= Cardinality(Before(Listed, i))
    BY <1>2, <1>6, <2>1 DEF First
  <2>3. Cardinality(First(Listed, o + l)) = o + l /\ Cardinality(First(Listed, o)) = o
    BY <1>2, <1>6, <2>1, <2>2, FirstAreBefore
  <2>4. First(Listed, o) \subseteq First(Listed, o + l)
    <3>1. \A j \in Listed : Cardinality(Before(Listed, j)) \in Nat
      BY <2>1, FS_Subset, FS_CardinalityType DEF Before
    <3> QED BY <1>2, <3>1 DEF First
  <2>5. IsFiniteSet(First(Listed, o + l))
    BY <2>1, FS_Subset DEF First
  <2>6. Cardinality(fetched) = Cardinality(First(Listed, o + l)) - Cardinality(First(Listed, o + l) \cap First(Listed, o))
    BY <2>5, FS_Difference
  <2>7. First(Listed, o + l) \cap First(Listed, o) = First(Listed, o)
    BY <2>4
  <2>8. Cardinality(fetched) = (o + l) - o
    BY <2>3, <2>6, <2>7
  <2> HIDE DEF fetched, o, l
  <2>9. Cardinality(fetched) = l
    BY <1>2, <2>8
  <2> QED BY <2>2, <2>9
<1> HIDE DEF fetched, more, next, o, l
<1>7. /\ PagesTypes'
      /\ walk'.at = (IF more THEN "page" ELSE "end") /\ walk'.style = walk.style
      /\ walk'.got = walk.got \cup fetched /\ walk'.offset = o + l
      /\ walk'.stayed = walk.stayed /\ walk'.left = walk.left
      /\ more => walk'.time # 0
  BY <1>0, <1>1, <1>3, <1>4, <1>5, AnswerTypes DEF o, l
<1>8. ShownOnce'
  BY <1>1, <1>7 DEF ShownOnce
<1>9. Listed' = Listed /\ \A i : Before(Listed, i)' = Before(Listed, i)
  BY <1>1 DEF Listed, Before, After
<1>10. ASSUME ~walk.left, NEW i \in walk.stayed
       PROVE  i \in walk'.got \/ (more /\ walk'.offset <= Cardinality(Before(Listed, i)))
  <2>1. i \in Listed /\ (i \in walk.got \/ o <= Cardinality(Before(Listed, i)))
    BY <1>1, <1>10 DEF PagesTypes, ToCome, o
  <2> QED BY <1>6, <1>7, <2>1
<1>11. ToCome'
  BY <1>1, <1>7, <1>9, <1>10 DEF ToCome
<1> QED BY <1>7, <1>8, <1>11 DEF PagesInv

LEMMA ActivityKeeps == PagesInv /\ (ActivityLeg \/ ActivityPage) => PagesInv'
<1> SUFFICES ASSUME PagesInv PROVE ActivityLeg \/ ActivityPage => PagesInv'
  OBVIOUS
<1>1. ASSUME ActivityLeg PROVE PagesInv'
  <2>1. PICK s \in Sources : /\ walk.at = "page" /\ walk.style = "activity" /\ UNCHANGED item
          /\ LET upTo == {j \in Listed : item[j].src = s /\ (walk.time = 0 \/ item[j].time <= walk.time)} IN
             walk' = [walk EXCEPT !.legs = @ \cup {s}, !.found = @ \cup First(upTo, walk.limit + 1)]
    BY <1>1 DEF ActivityLeg
  <2>2. PICK F : F \subseteq Listed /\ walk' = [walk EXCEPT !.legs = @ \cup {s}, !.found = @ \cup F]
    BY <2>1 DEF First
  <2>3. PagesTypes /\ ShownOnce /\ ToCome
    BY DEF PagesInv
  <2>4. /\ walk'.at = walk.at /\ walk'.style = walk.style /\ walk'.limit = walk.limit
        /\ walk'.time = walk.time /\ walk'.id = walk.id /\ walk'.got = walk.got
        /\ walk'.twice = walk.twice /\ walk'.ever = walk.ever /\ walk'.stayed = walk.stayed
        /\ walk'.found = walk.found \cup F
    BY <2>2, <2>3 DEF PagesTypes, WalkRecord
  <2>5. walk' \in WalkRecord
    BY <2>2, <2>3 DEF PagesTypes, WalkRecord
  <2>6. Listed' = Listed /\ \A i : Passed(i)' <=> Passed(i)
    BY <2>1, <2>4 DEF Listed, Passed, After
  <2>7. PagesTypes'
    BY <2>1, <2>2, <2>3, <2>4, <2>5, <2>6 DEF PagesTypes
  <2>8. ShownOnce' /\ ToCome'
    BY <2>1, <2>3, <2>4, <2>6 DEF ShownOnce, ToCome
  <2> QED BY <2>7, <2>8 DEF PagesInv
<1>2. ASSUME ActivityPage PROVE PagesInv'
  <2> DEFINE S == IF walk.time = 0 THEN walk.found ELSE {j \in walk.found : After(walk.time, walk.id, j)}
             n == walk.limit
             more == Cardinality(S) > n
             page == First(S, n)
             next == IF more THEN NextFrom(S, n) ELSE 0
  <2>0. Answer(page, more, next)
    BY <1>2, Zenon DEF ActivityPage
  <2>1. /\ walk.at = "page" /\ walk.style = "activity" /\ UNCHANGED item
        /\ PagesTypes /\ ShownOnce /\ ToCome
    BY <1>2 DEF ActivityPage, PagesInv
  <2>2. Dated /\ n \in Nat \ {0} /\ S \in SUBSET walk.ever /\ S \in SUBSET Items
    BY <2>1, PagesDated DEF PagesTypes, WalkRecord
  <2>3. more => next \in page /\ \A i \in page : ~After(item[next].time, next, i)
    <3>1. ASSUME more PROVE Cardinality(First(S, n + 1)) > n
      <4>1. CASE Cardinality(First(S, n + 1)) > n
        BY <4>1
      <4>2. CASE ~(Cardinality(First(S, n + 1)) > n)
        <5>1. First(S, n) = S
          BY <2>2, <4>2, PageWhole
        <5>2. IsFiniteSet(S) /\ First(S, n + 1) = S
          <6>1. IsFiniteSet(S) /\ \A j \in S : Cardinality(Before(S, j)) \in Nat
            BY <2>2, PagesAssumption, FS_Subset, FS_CardinalityType DEF Before
          <6>2. First(S, n) \subseteq First(S, n + 1) /\ First(S, n + 1) \subseteq S
            BY <2>2, <6>1 DEF First
          <6> QED BY <5>1, <6>1, <6>2
        <5> QED BY <3>1, <4>2, <5>2
      <4> QED BY <4>1, <4>2
    <3> QED BY <2>2, <3>1, PageCut DEF NextFrom
  <2>4. page \subseteq S /\ more \in BOOLEAN
    BY DEF First
  <2>5. walk.time # 0 => \A i \in S : Passed(i)
    BY DEF Passed
  <2> HIDE DEF S, more, page, next, n
  <2>6. PageOf(S, page, more, next)
    BY <2>3, <2>4 DEF PageOf
  <2>7. PagesTypes' /\ ShownOnce'
    BY <2>0, <2>1, <2>2, <2>4, <2>5, <2>6, AnswerShowsOnce
  <2>8. walk'.style = "activity"
    BY <2>0, <2>1 DEF Answer, PagesTypes, WalkRecord
  <2> QED BY <2>7, <2>8 DEF PagesInv, ToCome
<1> QED BY <1>1, <1>2

LEMMA ListChanges == PagesInv /\ (AddItem \/ RemoveItem) => PagesInv'
<1> SUFFICES ASSUME PagesInv PROVE AddItem \/ RemoveItem => PagesInv'
  OBVIOUS
<1>0. PagesTypes /\ ShownOnce /\ ToCome /\ walk \in WalkRecord /\ item \in [Items -> ItemRecord]
  BY DEF PagesInv, PagesTypes
<1>1. ASSUME AddItem PROVE PagesInv'
  <2>1. PICK i \in Items, t \in Times, s \in Sources :
          /\ i \notin walk.ever
          /\ item' = [item EXCEPT ![i] = [there |-> TRUE, time |-> t, src |-> s]]
          /\ walk' = [walk EXCEPT !.ever = @ \cup {i}, !.changes = @ + 1]
    BY <1>1 DEF AddItem
  <2>2. /\ walk'.at = walk.at /\ walk'.style = walk.style /\ walk'.limit = walk.limit
        /\ walk'.time = walk.time /\ walk'.id = walk.id /\ walk'.got = walk.got
        /\ walk'.twice = walk.twice /\ walk'.stayed = walk.stayed /\ walk'.left = walk.left
        /\ walk'.found = walk.found /\ walk'.offset = walk.offset
        /\ walk'.ever = walk.ever \cup {i}
    BY <1>0, <2>1 DEF WalkRecord
  <2>3. walk' \in WalkRecord
    <3>1. walk.ever \cup {i} \in SUBSET Items /\ walk.changes + 1 \in Nat
      BY <1>0 DEF WalkRecord
    <3> QED BY <1>0, <2>1, <3>1 DEF WalkRecord
  <2>4. t \in Nat /\ t # 0
    BY PagesAssumption
  <2>5. item' \in [Items -> ItemRecord] /\ \A j \in Items \ {i} : item'[j] = item[j]
    BY <1>0, <2>1, <2>4 DEF ItemRecord
  <2>6. item'[i].there /\ item'[i].time # 0
    BY <1>0, <2>1, <2>4
  <2>7. Listed' = Listed \cup {i} /\ i \notin Listed
    BY <1>0, <2>1, <2>5, <2>6 DEF Listed, PagesTypes
  <2>8. PagesTypes'
    BY <1>0, <2>2, <2>3, <2>5, <2>6, <2>7 DEF PagesTypes, WalkRecord
  <2>9. \A j \in walk.ever : Passed(j)' <=> Passed(j)
    BY <1>0, <2>1, <2>2, <2>5 DEF Passed, After, WalkRecord
  <2>10. ShownOnce'
    BY <1>0, <2>2, <2>9 DEF ShownOnce, PagesTypes
  <2>11. ASSUME NEW j \in Listed PROVE Cardinality(Before(Listed, j)) <= Cardinality(Before(Listed, j)')
    <3>1. Listed' \subseteq Items /\ IsFiniteSet(Listed') /\ Before(Listed, j)' \subseteq Listed'
      BY PagesAssumption, FS_Subset DEF Listed, Before
    <3>2. Before(Listed, j) \subseteq Before(Listed, j)'
      <4>1. ASSUME NEW k \in Before(Listed, j) PROVE k \in Before(Listed, j)'
        <5>1. k \in Listed /\ item'[k] = item[k] /\ item'[j] = item[j] /\ k \in Listed'
          BY <2>5, <2>7 DEF Before, Listed
        <5> QED BY <5>1 DEF Before, After
      <4> QED BY <4>1
    <3>3. IsFiniteSet(Before(Listed, j)')
      BY <3>1, FS_Subset
    <3> QED BY <3>2, <3>3, FS_Subset
  <2>12. ASSUME NEW j \in Listed, walk.offset <= Cardinality(Before(Listed, j))
         PROVE  walk.offset <= Cardinality(Before(Listed, j)')
    <3>1. IsFiniteSet(Before(Listed, j)) /\ IsFiniteSet(Before(Listed, j)')
      BY PagesAssumption, FS_Subset DEF Listed, Before
    <3>2. Cardinality(Before(Listed, j)) \in Nat /\ Cardinality(Before(Listed, j)') \in Nat
      BY <3>1, FS_CardinalityType
    <3> QED BY <1>0, <2>11, <2>12, <3>2 DEF WalkRecord
  <2>13. walk.stayed \subseteq Listed /\ walk.stayed \subseteq walk.ever
    BY <1>0 DEF PagesTypes
  <2>14. ToCome'
    BY <1>0, <2>2, <2>9, <2>12, <2>13 DEF ToCome
  <2> QED BY <2>8, <2>10, <2>14 DEF PagesInv
<1>2. ASSUME RemoveItem PROVE PagesInv'
  <2>1. PICK i \in Listed :
          /\ item' = [item EXCEPT ![i].there = FALSE]
          /\ walk' = [walk EXCEPT !.stayed = @ \ {i}, !.left = TRUE, !.changes = @ + 1]
    BY <1>2 DEF RemoveItem
  <2>2. /\ walk'.at = walk.at /\ walk'.style = walk.style /\ walk'.limit = walk.limit
        /\ walk'.time = walk.time /\ walk'.id = walk.id /\ walk'.got = walk.got
        /\ walk'.twice = walk.twice /\ walk'.stayed = walk.stayed \ {i} /\ walk'.left = TRUE
        /\ walk'.found = walk.found /\ walk'.ever = walk.ever
    BY <1>0, <2>1 DEF WalkRecord
  <2>3. walk' \in WalkRecord
    <3>1. walk.stayed \ {i} \in SUBSET Items /\ walk.changes + 1 \in Nat
      BY <1>0 DEF WalkRecord
    <3> QED BY <1>0, <2>1, <3>1 DEF WalkRecord
  <2>4. i \in Items /\ item[i] \in ItemRecord
    BY <1>0 DEF Listed
  <2>5. [item[i] EXCEPT !.there = FALSE] \in ItemRecord
    BY <2>4 DEF ItemRecord
  <2>6. /\ item' \in [Items -> ItemRecord] /\ ~item'[i].there
        /\ \A j \in Items : item'[j].time = item[j].time
        /\ \A j \in Items \ {i} : item'[j] = item[j]
    BY <1>0, <2>1, <2>4, <2>5 DEF ItemRecord
  <2>7. Listed' = Listed \ {i}
    BY <2>4, <2>6 DEF Listed
  <2>8. PagesTypes'
    BY <1>0, <2>2, <2>3, <2>6, <2>7 DEF PagesTypes, WalkRecord
  <2>9. \A j \in Items : Passed(j)' <=> Passed(j)
    BY <2>2, <2>6 DEF Passed, After
  <2>10. walk.got \subseteq Items /\ walk.stayed \subseteq Items
    BY <1>0 DEF WalkRecord
  <2>11. ShownOnce' /\ ToCome'
    BY <1>0, <2>2, <2>9, <2>10 DEF ShownOnce, ToCome
  <2> QED BY <2>8, <2>11 DEF PagesInv
<1> QED BY <1>1, <1>2

LEMMA PagesStepKeeps == PagesInv /\ [PagesNext]_pageVars => PagesInv'
<1> SUFFICES ASSUME PagesInv, UNCHANGED pageVars PROVE PagesInv'
  BY KeysetKeeps, OffsetKeeps, ActivityKeeps, ListChanges DEF PagesNext
<1>1. UNCHANGED <<item, walk>>
  BY DEF pageVars
<1>2. Listed' = Listed /\ (\A i : Passed(i)' <=> Passed(i))
      /\ \A i : Before(Listed, i)' = Before(Listed, i)
  BY <1>1 DEF Listed, Passed, After, Before
<1> QED BY <1>1, <1>2 DEF PagesInv, PagesTypes, ShownOnce, ToCome

LEMMA PagesStart == NoPages \/ PagesInit => PagesInv
<1>1. ASSUME NoPages PROVE PagesInv
  <2>1. walk \in WalkRecord
    BY <1>1 DEF NoPages, NoWalk, WalkRecord
  <2>2. item \in [Items -> ItemRecord] /\ \A i \in Items : ~item[i].there
    BY <1>1 DEF NoPages, Absent, ItemRecord
  <2>3. Listed = {}
    BY <2>2 DEF Listed
  <2> QED BY <1>1, <2>1, <2>2, <2>3 DEF NoPages, NoWalk, PagesInv, PagesTypes, ShownOnce, ToCome
<1>2. ASSUME PagesInit PROVE PagesInv
  <2>1. PICK style \in Styles, n \in Limits, S \in SUBSET Items :
          \E t \in [S -> Times], s \in [S -> IF style = "activity" THEN Sources ELSE {Min(Sources)}] :
            /\ item = [i \in Items |-> IF i \in S THEN [there |-> TRUE, time |-> t[i], src |-> s[i]] ELSE Absent]
            /\ walk = [NoWalk EXCEPT !.at = "page", !.style = style, !.limit = n, !.ever = S, !.stayed = S]
    BY <1>2 DEF PagesInit
  <2>2. PICK t \in [S -> Times], s \in [S -> IF style = "activity" THEN Sources ELSE {Min(Sources)}] :
            /\ item = [i \in Items |-> IF i \in S THEN [there |-> TRUE, time |-> t[i], src |-> s[i]] ELSE Absent]
            /\ walk = [NoWalk EXCEPT !.at = "page", !.style = style, !.limit = n, !.ever = S, !.stayed = S]
    BY <2>1
  <2>3. walk = [at |-> "page", style |-> style, limit |-> n, time |-> 0, id |-> 0, offset |-> 0, changes |-> 0,
                ever |-> S, stayed |-> S, left |-> FALSE, got |-> {}, twice |-> {}, legs |-> {}, found |-> {}]
    BY <2>2 DEF NoWalk
  <2>4. n \in Nat \ {0} /\ \A i \in S : t[i] \in Nat \ {0}
    BY PagesAssumption
  <2>5. walk \in WalkRecord
    BY <2>3, <2>4 DEF WalkRecord
  <2>6. \A i \in S : s[i] \in Sources \cup {0, Min(Sources)}
    OBVIOUS
  <2>7. item \in [Items -> ItemRecord] /\ \A i \in S : item[i].there /\ item[i].time # 0
    BY <2>2, <2>4, <2>6 DEF Absent, ItemRecord
  <2>8. Listed = S
    BY <2>2, <2>7 DEF Absent, Listed
  <2>9. \A i \in S : 0 <= Cardinality(Before(Listed, i))
    <3>1. \A i \in S : IsFiniteSet(Before(Listed, i))
      BY <2>8, PagesAssumption, FS_Subset DEF Before
    <3> QED BY <3>1, FS_CardinalityType
  <2> QED BY <2>3, <2>4, <2>5, <2>7, <2>8, <2>9 DEF PagesInv, PagesTypes, ShownOnce, ToCome
<1> QED BY <1>1, <1>2

-----------------------------------------------------------------------------
(* The workspace.                                                           *)

LEMMA PoolStarts ==
    ASSUME PoolInit
    PROVE  PoolInv /\ \A q \in Slots : req[q] = Idle /\ req[q].at = "idle"
<1>1. begun \in 0..MaxBegun[mix] /\ faults \in 0..MaxFaults
  BY RequestAssumption DEF PoolInit
<1> QED BY <1>1, IdleOK DEF PoolInit, PoolInv, PoolTypeOK

LEMMA DocumentsStart ==
    ASSUME PoolInit, DocInit
    PROVE  DocInv
<1> DEFINE d1 == CHOOSE d \in Docs : TRUE
<1> DEFINE t1 == CHOOSE t \in Tags : TRUE
<1> DEFINE s1 == CHOOSE s \in TagSlugs : TRUE
<1> DEFINE first == [NoDoc EXCEPT !.there = TRUE]
<1>0. d1 \in Docs /\ t1 \in Tags /\ s1 \in TagSlugs
  BY DocumentsAssumption
<1>1. /\ first = [NoDoc EXCEPT !.there = TRUE]
      /\ doc = [node |-> [d \in Docs |-> IF d = d1 THEN first ELSE NoDoc],
                edges |-> [d \in Docs |-> IF d = d1 THEN [NoEdges EXCEPT ![t1] = 1] ELSE NoEdges],
                anchored |-> TRUE,
                tag |-> [t \in Tags |-> [slug |-> IF t = t1 THEN s1 ELSE None, about |-> 1]],
                thread |-> [t \in Threads |->
                   IF t = 1 THEN [there |-> TRUE, doc |-> d1, resolved |-> None] ELSE NoThread],
                comment |-> [c \in Comments |-> IF c = 1 THEN NewComment(1) ELSE NoComment]]
      /\ docLog = [born |-> {d1}, want |-> doc.node, stale |-> {},
                   tags |-> [d \in Docs |-> {t \in Tags : doc.edges[d][t] > 0}], torn |-> {},
                   threads |-> 1, comments |-> 1,
                   home |-> [c \in Comments |-> IF c = 1 THEN 1 ELSE 0],
                   acks |-> [c \in Comments |-> {}], lost |-> {}, crossed |-> {}]
  BY DEF DocInit
<1> HIDE DEF d1, t1, s1, first
<1>2. /\ 1 \in Threads /\ 1 \in Comments /\ Threads \subseteq Nat /\ Comments \subseteq Nat
      /\ None \notin Docs \cup TagSlugs
  BY DocumentsAssumption DEF Threads, Comments
<1>3. first.there /\ NoDoc \in DocNode /\ ~NoDoc.there /\ first \in DocNode
  <2>1. 1 \in Texts
    BY DEF Texts
  <2>2. /\ NoDoc = [there |-> FALSE, title |-> 1, pinned |-> 1]
        /\ first = [there |-> TRUE, title |-> 1, pinned |-> 1]
    BY <1>1 DEF NoDoc
  <2> QED BY <2>1, <2>2 DEF DocNode
<1>4. /\ doc.node = [d \in Docs |-> IF d = d1 THEN first ELSE NoDoc]
      /\ doc.edges = [d \in Docs |-> IF d = d1 THEN [NoEdges EXCEPT ![t1] = 1] ELSE NoEdges]
      /\ doc.tag = [t \in Tags |-> [slug |-> IF t = t1 THEN s1 ELSE None, about |-> 1]]
      /\ doc.thread = [t \in Threads |->
                         IF t = 1 THEN [there |-> TRUE, doc |-> d1, resolved |-> None] ELSE NoThread]
      /\ doc.comment = [c \in Comments |-> IF c = 1 THEN NewComment(1) ELSE NoComment]
  BY <1>1
<1>5. /\ docLog.born = {d1} /\ docLog.want = doc.node /\ docLog.stale = {} /\ docLog.torn = {}
      /\ docLog.tags = [d \in Docs |-> {t \in Tags : doc.edges[d][t] > 0}]
      /\ docLog.threads = 1 /\ docLog.comments = 1
      /\ docLog.home = [c \in Comments |-> IF c = 1 THEN 1 ELSE 0]
      /\ docLog.acks = [c \in Comments |-> {}] /\ docLog.lost = {} /\ docLog.crossed = {}
  BY <1>1
<1>6. \A d \in Docs, t \in Tags : doc.edges[d][t] = IF d = d1 /\ t = t1 THEN 1 ELSE 0
  BY <1>4 DEF NoEdges
<1>7. \A d \in Docs : docLog.tags[d] = IF d = d1 THEN {t1} ELSE {}
  BY <1>0, <1>5, <1>6
<1>8. \A q \in Slots : req[q].at = "idle"
  BY PoolStarts
<1>9. \A d \in Docs : Tagging(d) = {} /\ Attaching(d) = {} /\ Creating(d) = {}
  BY <1>8 DEF Tagging, Attaching, Detaching, Creating, At
<1>10. DocTypes
  <2>1. doc.node \in [Docs -> DocNode]
    BY <1>1, <1>3, <1>4
  <2>2. doc.edges \in [Docs -> [Tags -> Nat]]
    BY <1>0, <1>4 DEF NoEdges
  <2>3. doc.tag \in [Tags -> TagNode]
    BY <1>0, <1>4 DEF TagNode, Texts
  <2>4. doc.thread \in [Threads -> ThreadNode]
    BY <1>0, <1>4 DEF ThreadNode, NoThread
  <2>5. doc.comment \in [Comments -> CommentNode]
    <3>1. 1 \in Texts /\ 0 \in 0..MaxThreads /\ 1 \in 0..MaxThreads
      BY DocumentsAssumption DEF Texts
    <3>2. NoComment \in CommentNode
      BY <3>1 DEF CommentNode, NoComment
    <3>3. NewComment(1) \in CommentNode
      BY <3>1 DEF CommentNode, NewComment
    <3> QED BY <1>4, <3>2, <3>3
  <2>6. doc \in DocRecord
    BY <1>1, <2>1, <2>2, <2>3, <2>4, <2>5 DEF DocRecord
  <2>7. docLog.tags \in [Docs -> SUBSET Tags] /\ docLog.home \in [Comments -> 0..MaxThreads]
    <3>1. docLog.tags \in [Docs -> SUBSET Tags]
      BY <1>5
    <3>2. 0 \in 0..MaxThreads /\ 1 \in 0..MaxThreads
      BY DocumentsAssumption
    <3> QED BY <1>5, <3>1, <3>2
  <2>8. docLog \in DocLogRecord
    BY <1>0, <1>1, <1>2, <2>1, <2>7 DEF DocLogRecord
  <2> QED BY <2>6, <2>8 DEF DocTypes
<1>11. Attached
  <2>1. \A d \in Docs, t \in Tags : doc.edges[d][t] > 0 => doc.node[d].there /\ doc.tag[t].slug # None
    BY <1>0, <1>2, <1>3, <1>4, <1>6
  <2>2. \A s, t \in Tags : doc.tag[s].slug = doc.tag[t].slug => s = t \/ doc.tag[s].slug = None
    BY <1>4
  <2>3. \A t \in Threads : doc.thread[t].doc # None => doc.node[doc.thread[t].doc].there
    BY <1>0, <1>3, <1>4 DEF NoThread
  <2>4. \A c \in Comments : doc.comment[c].thread # 0 => doc.thread[doc.comment[c].thread].there
    BY <1>2, <1>4 DEF NoComment, NewComment
  <2> QED BY <2>1, <2>2, <2>3, <2>4 DEF Attached
<1>12. Births
  BY <1>4, <1>5, <1>7, <1>9 DEF Births
<1>13. FewEdges
  <2>1. Cardinality(Slots) \in Nat /\ Cardinality(Slots) # 0
    BY DocumentsAssumption, FS_CardinalityType, FS_EmptySet
  <2>2. \A d \in Docs : Cardinality(Attaching(d)) = 0
    BY <1>9, FS_EmptySet
  <2> QED BY <1>6, <2>1, <2>2 DEF FewEdges, FewEdgesOf
<1>14. TitlesKept
  BY <1>5 DEF TitlesKept
<1>15. TagsKept
  <2>1. \A d \in Docs : doc.edges[d] = EdgesOf(docLog.tags[d])
    BY <1>4, <1>7 DEF EdgesOf, NoEdges
  <2> QED BY ZenonT(30), <1>3, <1>4, <1>7, <1>9, <2>1 DEF TagsKept, TagKept
<1>16. Numbered
  BY <1>2, <1>4, <1>5, <1>8 DEF Numbered, NewComment, NoComment
<1>17. ThreadsHoldComments
  <2>1. 1 \in InThread(1)
    BY <1>2, <1>4 DEF InThread, NewComment
  <2>2. \A t \in Threads : doc.thread[t].there => t = 1
    BY <1>4 DEF NoThread
  <2>3. \A c \in Comments : doc.comment[c].there => c = 1 /\ doc.comment[c].thread = docLog.home[c]
    BY <1>4, <1>5 DEF NoComment, NewComment
  <2>4. \A c \in Comments : doc.comment[c].acks = docLog.acks[c]
    BY <1>4, <1>5 DEF NoComment, NewComment
  <2> QED BY <2>1, <2>2, <2>3, <2>4 DEF ThreadsHoldComments
<1> QED BY <1>10, <1>11, <1>12, <1>13, <1>14, <1>15, <1>16, <1>17 DEF DocInv

LEMMA CatalogueStarts ==
    ASSUME PoolInit, CatInit
    PROVE  CatInv
<1>1. PICK e1 \in Entries, s1 \in TagSlugs, T \in SUBSET Types :
        /\ cat = [node |-> [e \in Entries |-> IF e = e1 THEN Made(s1, T) ELSE Gone], type |-> Types]
        /\ catLog = [want |-> cat.node, stale |-> {}, kept |-> {}, doubled |-> FALSE, met |-> FALSE,
                     owed |-> {}]
  <2>1. (CHOOSE e \in Entries : TRUE) \in Entries /\ (CHOOSE s \in TagSlugs : TRUE) \in TagSlugs
    BY DocumentsAssumption, CatalogueAssumption
  <2>2. SUBSET (IF mix \cap {"policies", "blueprints"} # {} THEN Types ELSE {}) \subseteq SUBSET Types
    OBVIOUS
  <2> QED BY <2>1, <2>2 DEF CatInit
<1>2. /\ cat.node = [e \in Entries |-> IF e = e1 THEN Made(s1, T) ELSE Gone] /\ cat.type = Types
      /\ catLog.want = cat.node /\ catLog.stale = {} /\ ~catLog.doubled /\ catLog.owed = {}
  BY <1>1
<1>3. \A q \in Slots : req[q].at = "idle"
  BY PoolStarts
<1>4. /\ Made(s1, T) \in EntryNode /\ Made(s1, T).there /\ Made(s1, T).slug = s1 /\ s1 # None
      /\ Made(s1, T).links = T
      /\ Gone \in EntryNode /\ ~Gone.there /\ Gone.slug = None /\ Gone.links = {}
  BY MadeOK
<1>5. CatTypes
  <2>1. cat.node \in [Entries -> EntryNode]
    BY <1>2, <1>4
  <2> QED BY <1>1, <2>1 DEF CatTypes, CatRecord, CatLogRecord
<1>6. OneKind
  BY <1>3 DEF OneKind, PlainLabels, NamedLabels, WebhookLabels, McpLabels, TemplateLabels, PolicyLabels,
              BlueprintLabels
<1>7. Linked
  BY <1>2, <1>4 DEF Linked, Here
<1>8. Unique
  BY <1>2, <1>3, <1>4 DEF Unique, Here, At
<1>9. EntriesAsAsked
  BY <1>2 DEF EntriesAsAsked, BearsAsked, Here
<1>10. Owing
  BY <1>2, <1>3 DEF Owing
<1> QED BY <1>5, <1>6, <1>7, <1>8, <1>9, <1>10 DEF CatInv

LEMMA UploadsStart ==
    ASSUME PoolInit, UpInit
    PROVE  UpInv
<1>1. /\ up = [known |-> {}, record |-> [f \in Files |-> NoRecord], stored |-> [f \in Files |-> {}]]
  BY DEF UpInit
<1>2. \A q \in Slots : req[q].at \notin UpLabels
  BY PoolStarts, IdleOK
<1>3. Working
  BY <1>2 DEF Working, WorkingOf
<1>4. Kept
  BY <1>1 DEF Kept, KeptOf, Served, NoRecord
<1>5. UpTypes
  BY <1>1 DEF UpTypes, UpRecord, NoRecord
<1> QED BY <1>3, <1>4, <1>5 DEF UpInv

WorkspaceInv == WorkInv /\ JInv /\ PagesInv

LEMMA WorkspaceStarts == Init => WorkspaceInv
BY PoolStarts, DocumentsStart, CatalogueStarts, UploadsStart, JournalInitHolds, PagesStart
   DEF Init, WorkspaceInv, WorkInv

\* The log and the lists are on their own.
LEMMA WorkStays ==
    ASSUME WorkInv, UNCHANGED <<pool, docVars, catVars, upVars>>
    PROVE  WorkInv'
<1>1. /\ UNCHANGED <<req, begun, faults, mix>> /\ UNCHANGED <<doc, docLog>> /\ UNCHANGED <<cat, catLog>>
      /\ UNCHANGED <<up, upLost>>
  BY DEF pool, docVars, catVars, upVars
<1>2. PoolInv'
  BY <1>1 DEF WorkInv, PoolInv, PoolTypeOK
<1>3. PICK q \in Slots : TRUE
  BY DocumentsAssumption
<1>4. PICK next : next = req[q]
  OBVIOUS
<1>5. \A r \in Slots : At(r, "doc.create")' = At(r, "doc.create") /\ At(r, "doc.detach")' = At(r, "doc.detach")
                       /\ At(r, "doc.attach")' = At(r, "doc.attach") /\ req'[r] = req[r]
  BY <1>1 DEF At
<1>6. \A d : /\ Creating(d)' = Creating(d) /\ Attaching(d)' = Attaching(d) /\ Tagging(d)' = Tagging(d)
  BY <1>5 DEF Creating, Attaching, Detaching, Tagging
<1>7. DocInv'
  <2>1. DocTypes' /\ Attached' /\ TitlesKept'
    BY <1>1 DEF WorkInv, DocInv, DocTypes, Attached, TitlesKept
  <2>2. Births' /\ FewEdges'
    BY <1>1, <1>6 DEF WorkInv, DocInv, Births, FewEdges, FewEdgesOf
  <2>3. TagsKept'
    <3>1. \A S : Tagged(S)' = Tagged(S)
      BY <1>1 DEF Tagged
    <3> QED BY <1>1, <1>6, <3>1 DEF WorkInv, DocInv, TagsKept, TagKept
  <2>4. Numbered' /\ ThreadsHoldComments'
    BY <1>1 DEF WorkInv, DocInv, Numbered, ThreadsHoldComments, InThread
  <2> QED BY <2>1, <2>2, <2>3, <2>4 DEF DocInv
<1>8. CatInv'
  <2>1. CatTypes' /\ OneKind' /\ Linked' /\ EntriesAsAsked'
    BY <1>1 DEF WorkInv, CatInv, CatTypes, OneKind, Linked, EntriesAsAsked, BearsAsked, Here
  <2>2. Unique'
    <3>1. \A s : Named(s)' = Named(s)
      BY <1>1 DEF Named, Here
    <3> QED BY <1>1, <3>1 DEF WorkInv, CatInv, Unique, Here, At
  <2>3. Owing'
    <3>1. \A r \in Slots : Will(req[r])' = Will(req[r])
      BY <1>1 DEF Will, Covers
    <3> QED BY <1>1, <3>1 DEF WorkInv, CatInv, Owing
  <2> QED BY <2>1, <2>2, <2>3 DEF CatInv
<1>9. UpInv'
  <2>1. \A f : \A r \in Slots : On(r, f)' <=> On(r, f)
    BY <1>1 DEF On
  <2>2. \A r \in Slots : Pending(req[r])' = Pending(req[r])
    BY <1>1 DEF Pending
  <2>3. \A f \in Files : KeptOf(f) => KeptOf(f)'
    BY <1>1, <2>1, <2>2 DEF KeptOf, Served
  <2>4. \A r \in Slots : WorkingOf(r) => WorkingOf(r)'
    BY <1>1, <2>1 DEF WorkingOf, Made1
  <2> QED BY <1>1, <2>3, <2>4 DEF WorkInv, UpInv, UpTypes, Working, Kept
<1> QED BY <1>2, <1>7, <1>8, <1>9 DEF WorkInv

LEMMA JournalStays ==
    ASSUME JInv, UNCHANGED journalVars
    PROVE  JInv'
BY JournalStepHolds

LEMMA WorkspaceStep == WorkspaceInv /\ [Next]_workspaceVars => WorkspaceInv'
<1> SUFFICES ASSUME WorkspaceInv, [Next]_workspaceVars PROVE WorkspaceInv'
  OBVIOUS
<1>0. PagesInv'
  <2>1. [PagesNext]_pageVars
    BY DEF Next, workspaceVars
  <2> QED BY <2>1, PagesStepKeeps DEF WorkspaceInv
<1>1. PoolInv /\ DocInv /\ CatInv /\ UpInv /\ JInv /\ DocsInv /\ CatsInv /\ UpsInv
  BY DEF WorkspaceInv, WorkInv, DocsInv, CatsInv, UpsInv
<1>2. CASE DocumentsNext /\ PruneTags /\ UNCHANGED <<upVars, journalVars, pageVars>>
  <2>1. DocInv' /\ \E q \in Slots : DocGoes(q)
    BY <1>1, <1>2, DocumentsKeep
  <2>2. PICK q \in Slots : DocGoes(q)
    BY <2>1
  <2>3. PICK next : /\ Moves(q, next) /\ (next = Idle \/ DocLocals(next))
                    /\ req[q].at \in DocLabels \cup {"idle"}
    BY <2>2 DEF DocGoes
  <2>4. CatInv'
    BY <1>1, <1>2, <2>2, TagsPruned
  <2>5. Locals(next) /\ next.at \notin UpLabels /\ req[q].at \notin UpLabels
    BY <2>3, StandsApart, GroupsApart, IdleOK DEF Locals
  <2>6. PoolInv'
    BY <1>1, <2>3, <2>5, PoolKept
  <2>7. UpInv'
    BY <1>1, <1>2, <2>3, <2>5, UploadsRest DEF upVars
  <2>8. JInv'
    BY <1>1, <1>2, JournalStays
  <2> QED BY <1>0, <2>1, <2>4, <2>6, <2>7, <2>8 DEF WorkspaceInv, WorkInv
<1>3. CASE CatalogueNext /\ UNCHANGED <<docVars, upVars, journalVars, pageVars>>
  <2>0. UNCHANGED <<doc, docLog>> /\ UNCHANGED <<up, upLost>>
    BY <1>3 DEF docVars, upVars
  <2>1. CatInv' /\ \E q \in Slots : CatGoes(q)
    BY <1>1, <1>3, <2>0, CatalogueKeep
  <2>2. PICK q \in Slots : CatGoes(q)
    BY <2>1
  <2>3. PICK next : /\ Moves(q, next) /\ (next = Idle \/ CatLocals(next))
                    /\ req[q].at \in CatLabels \cup {"idle"}
    BY <2>2 DEF CatGoes
  <2>4. /\ Locals(next) /\ next.at \notin UpLabels /\ req[q].at \notin UpLabels
        /\ next.at \notin DocLabels /\ req[q].at \notin DocLabels
    BY <2>3, StandsApart, GroupsApart, IdleOK DEF Locals
  <2>5. PoolInv'
    BY <1>1, <2>3, <2>4, PoolKept
  <2>6. DocInv'
    BY <1>1, <2>0, <2>3, <2>4, DocumentsRest
  <2>7. UpInv'
    BY <1>1, <2>0, <2>3, <2>4, UploadsRest
  <2>8. JInv'
    BY <1>1, <1>3, JournalStays
  <2> QED BY <1>0, <2>1, <2>5, <2>6, <2>7, <2>8 DEF WorkspaceInv, WorkInv
<1>4. CASE UploadsNext /\ UNCHANGED <<docVars, catVars, journalVars, pageVars>>
  <2>0. UNCHANGED <<doc, docLog>> /\ UNCHANGED <<cat, catLog>>
    BY <1>4 DEF docVars, catVars
  <2>1. UpInv' /\ \E q \in Slots : UpGoes(q)
    BY <1>1, <1>4, UploadsKeep
  <2>2. PICK q \in Slots : UpGoes(q)
    BY <2>1
  <2>3. PICK next : /\ Moves(q, next) /\ (next = Idle \/ UpLocals(next))
                    /\ req[q].at \in UpLabels \cup {"idle"}
    BY <2>2 DEF UpGoes
  <2>4. /\ Locals(next) /\ next.at \in UpLabels \cup {"idle"}
        /\ next.at \notin DocLabels /\ req[q].at \notin DocLabels
    BY <2>3, StandsApart, GroupsApart, IdleOK DEF Locals
  <2>5. PoolInv'
    BY <1>1, <2>3, <2>4, PoolKept
  <2>6. DocInv'
    BY <1>1, <2>0, <2>3, <2>4, DocumentsRest
  <2>7. CatInv'
    BY <1>1, <2>0, <2>3, <2>4, CatalogueRest
  <2>8. JInv'
    BY <1>1, <1>4, JournalStays
  <2> QED BY <1>0, <2>1, <2>5, <2>6, <2>7, <2>8 DEF WorkspaceInv, WorkInv
<1>5. CASE (\E q \in Slots : DieW(q)) /\ UNCHANGED <<journalVars, pageVars>>
  <2>1. PICK q \in Slots : DieW(q)
    BY <1>5
  <2>2. Moves(q, Idle)
    BY <1>1, <2>1, DieMoves DEF DieW
  <2>3. PoolInv'
    BY <1>1, <2>2, PoolKept, IdleOK
  <2>4. DocInv' /\ CatInv' /\ UpInv'
    BY <1>1, <2>1, DocumentsDie, CatalogueDie, UploadsDie
  <2>5. JInv'
    BY <1>1, <1>5, JournalStays
  <2> QED BY <1>0, <2>3, <2>4, <2>5 DEF WorkspaceInv, WorkInv
<1>6. CASE JournalNext /\ UNCHANGED <<pool, docVars, catVars, upVars, pageVars>>
  <2>1. JInv'
    BY <1>1, <1>6, JournalStepHolds
  <2> QED BY <1>0, <1>6, <2>1, WorkStays DEF WorkspaceInv
<1>7. CASE PagesNext /\ UNCHANGED <<pool, docVars, catVars, upVars, journalVars>>
  BY <1>0, <1>1, <1>7, WorkStays, JournalStays DEF WorkspaceInv
<1>8. CASE UNCHANGED workspaceVars
  BY <1>0, <1>1, <1>8, WorkStays, JournalStays DEF WorkspaceInv, workspaceVars
<1> QED BY <1>2, <1>3, <1>4, <1>5, <1>6, <1>7, <1>8 DEF Next

LEMMA WorkspaceInvariant == Spec => []WorkspaceInv
BY WorkspaceStarts, WorkspaceStep, PTL DEF Spec

-----------------------------------------------------------------------------
(* Theorems.                                                                *)

\* Every reachable state is well typed: edges, links and comments hang on what
\* is there, and a slug names one tag.
THEOREM WorkspaceTypes == Spec => []TypeOK
<1>1. WorkspaceInv => TypeOK
  <2> SUFFICES ASSUME WorkspaceInv PROVE TypeOK
    OBVIOUS
  <2>1. PoolTypeOK /\ JournalTypeOK
    BY DEF WorkspaceInv, WorkInv, PoolInv, JInv
  <2>2. DocTypeOK
    <3>1. doc \in DocRecord /\ Attached /\ FewEdges
      BY DEF WorkspaceInv, WorkInv, DocInv, DocTypes
    <3>2. ASSUME NEW d \in Docs, NEW t \in Tags PROVE doc.edges[d][t] \in 0..Cardinality(Slots)
      <4>1. Cardinality(Slots) \in Nat /\ Cardinality(Attaching(d)) \in Nat
        <5>1. Attaching(d) \subseteq Slots
          BY DEF Attaching
        <5> QED BY <5>1, DocumentsAssumption, FS_CardinalityType, FS_Subset
      <4>2. doc.edges[d][t] \in Nat /\ doc.edges[d][t] + Cardinality(Attaching(d)) <= Cardinality(Slots)
        BY <3>1 DEF FewEdges, FewEdgesOf, DocRecord
      <4> QED BY <4>1, <4>2
    <3>3. doc.edges \in [Docs -> [Tags -> 0..Cardinality(Slots)]]
      BY <3>1, <3>2 DEF DocRecord
    <3> QED BY <3>1, <3>3 DEF DocTypeOK, DocRecord, DocNode, Attached
  <2>3. CatTypeOK
    BY DEF WorkspaceInv, WorkInv, CatInv, CatTypes, CatRecord, EntryNode, Linked, CatTypeOK
  <2>4. UpTypeOK
    BY DEF WorkspaceInv, WorkInv, UpInv, UpTypes, UpRecord, UpTypeOK
  <2> QED BY <2>1, <2>2, <2>3, <2>4 DEF TypeOK
<1> QED BY <1>1, WorkspaceInvariant, PTL

\* Title and pin of a document are what was last asked for, and its edges the
\* tags asked for, each once, when no replacement is under way and none was torn.
THEOREM DocumentsKept == Spec => []DocumentsAsAsked
<1>1. WorkspaceInv => DocumentsAsAsked
  <2> SUFFICES ASSUME WorkspaceInv, NEW d \in Docs
               PROVE  /\ d \notin docLog.stale => doc.node[d] = docLog.want[d]
                      /\ Retagging(d) = {} /\ d \notin docLog.torn =>
                           doc.edges[d] = [t \in Tags |-> IF t \in docLog.tags[d] THEN 1 ELSE 0]
    BY DEF DocumentsAsAsked
  <2>1. DocInv
    BY DEF WorkspaceInv, WorkInv
  <2>2. DocsInv
    BY DEF WorkspaceInv, WorkInv, DocsInv
  <2>3. Tagging(d) \subseteq Retagging(d)
    BY <2>2, TaggingRetags
  <2> QED BY <2>1, <2>3 DEF DocInv, TitlesKept, TagsKept, TagKept, EdgesOf
<1> QED BY <1>1, WorkspaceInvariant, PTL

\* A thread that is there has a comment, and a comment that is there is in its
\* thread; who acknowledged it stays listed.
THEOREM ThreadsHold == Spec => []ThreadsHoldComments
<1>1. WorkspaceInv => ThreadsHoldComments
  BY DEF WorkspaceInv, WorkInv, DocInv
<1> QED BY <1>1, WorkspaceInvariant, PTL

\* The entries of the catalogue are as asked, and a slug names at most one.
THEOREM CatalogueKept == Spec => []EntriesKept
<1>1. WorkspaceInv => EntriesKept
  <2> SUFFICES ASSUME WorkspaceInv PROVE EntriesKept
    OBVIOUS
  <2>1. CatInv
    BY DEF WorkspaceInv, WorkInv
  <2>2. ASSUME ~catLog.doubled, NEW s \in TagSlugs PROVE Cardinality(Named(s)) <= 1
    <3>1. CASE Named(s) = {}
      BY <3>1, FS_EmptySet
    <3>2. CASE Named(s) # {}
      <4>1. PICK e : Named(s) = {e}
        <5>1. PICK e : e \in Named(s)
          BY <3>2
        <5>2. \A o \in Named(s) : o = e
          BY <2>1, <2>2, <5>1 DEF CatInv, Unique, Named
        <5> QED BY <5>1, <5>2
      <4> QED BY <4>1, FS_Singleton
    <3> QED BY <3>1, <3>2
  <2> QED BY <2>1, <2>2 DEF EntriesKept, SlugsNameOne, CatInv
<1> QED BY <1>1, WorkspaceInvariant, PTL

\* Once no request is under way, the projects a changed policy covers or covered
\* and those of a written blueprint have been queued, unless two changes of one
\* policy met or a request died.
THEOREM CoveredRequeued == Spec => []CoveredAreRequeued
<1>1. WorkspaceInv => CoveredAreRequeued
  <2> SUFFICES ASSUME WorkspaceInv, InFlight = {}, faults = 0, ~catLog.met PROVE catLog.owed = {}
    BY DEF CoveredAreRequeued
  <2>1. \A q \in Slots : req[q] = Idle
    BY DEF InFlight
  <2>2. \A q \in Slots : Will(req[q]) = {}
    BY <2>1, IdleFits
  <2>3. catLog.owed \subseteq UNION {Will(req[q]) : q \in Slots}
    BY DEF WorkspaceInv, WorkInv, CatInv, Owing
  <2> QED BY <2>2, <2>3
<1> QED BY <1>1, WorkspaceInvariant, PTL

\* What a record names is in the store at every moment; and what is in the store
\* is named by a record, once no request is at work on it, none has died over it
\* and the store has refused nothing.
THEOREM StoredAsRecorded == Spec => []UploadsStored
<1>1. WorkspaceInv => UploadsStored
  <2> SUFFICES ASSUME WorkspaceInv, NEW f \in Files
               PROVE  /\ Served(f) \subseteq up.stored[f]
                      /\ (\A q \in InFlight : "f" \notin DOMAIN req[q] \/ req[q].f # f) /\ f \notin upLost
                           => up.stored[f] \subseteq up.record[f].keys
    BY DEF UploadsStored
  <2>1. KeptOf(f) /\ UpsInv
    BY DEF WorkspaceInv, WorkInv, UpInv, Kept, UpsInv
  <2>2. ASSUME NEW q \in Slots, On(q, f)
        PROVE  q \in InFlight /\ "f" \in DOMAIN req[q] /\ req[q].f = f
    <3>1. req[q].at \in UpLabels /\ req[q].f = f
      BY <2>2 DEF On
    <3>2. UpLocals(req[q])
      BY <2>1, <3>1, UpStands
    <3>3. req[q] # Idle
      BY <3>1, IdleOK
    <3> QED BY <3>1, <3>2, <3>3 DEF InFlight, UpLocals
  <2> QED BY <2>1, <2>2 DEF KeptOf
<1> QED BY <1>1, WorkspaceInvariant, PTL

\* Whoever reads a list page by page while it changes has seen what stayed on it by
\* the end, nothing twice by a keyset, and by an offset all of it as long as nothing
\* left: however long the list is and whatever the size of a page.
THEOREM ListsComplete == Spec => []WalksComplete
<1>1. WorkspaceInv => WalksComplete
  BY DEF WorkspaceInv, PagesInv, ShownOnce, ToCome, WalksComplete
<1> QED BY <1>1, WorkspaceInvariant, PTL

\* FINAL keeps the last row written of every entry of the operations log that is
\* not raced, and no version is given out twice by one life of a process, with
\* any number of processes, writers and restarts, and clocks that do as they
\* please.
THEOREM LogKept == Spec => []LogConverges
<1>1. WorkspaceInv => LogConverges
  BY DEF WorkspaceInv, JInv, Latest, Distinct, Same, LogConverges
<1> QED BY <1>1, WorkspaceInvariant, PTL

\* The same of the log alone, and its types.
THEOREM Converges == JournalSpec => [](JournalTypeOK /\ LogConverges)
<1>1. JInv => JournalTypeOK /\ LogConverges
  BY DEF JInv, Latest, Distinct, Same, LogConverges
<1> QED BY <1>1, JournalInvariant, PTL
=============================================================================
