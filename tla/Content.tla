------------------------------ MODULE Content ------------------------------
(***************************************************************************)
(* Content attached to a node or an edge: the builder stores a blob and    *)
(* then sets three properties (object id, size, MIME type), the commit     *)
(* anchors the blobs in its tree, and the reads put the three registers    *)
(* together again.  Writers attach concurrently, several attachments of    *)
(* one builder are under way at once, and a commit may overtake them.      *)
(*                                                                         *)
(* One node, and one edge that leaves it.  The i-th attachment has the     *)
(* object id, size and type i: only their identity matters.                *)
(***************************************************************************)
EXTENDS Integers, Sequences, FiniteSets

CONSTANTS
    ContentWriter,   \* numbers, in the order of the writer ids
    Reborn,          \* what is added and removed again: of the node and the edge
    MaxAttachments,  \* bounds
    MaxContentOps, MaxContentPatches

ASSUME ContentAssumption ==
    ContentWriter \subseteq Nat /\ 1 \in ContentWriter /\ IsFiniteSet(ContentWriter)

VARIABLES
    builders,   \* builders[w]: << >> or the open builder of w
    published,  \* published[w]: the patches on the chain of w
    blobs,      \* the blobs in the object database
    attached    \* attachments begun so far

contentVars == <<builders, published, blobs, attached>>

Target == {"node", "edge"}
Null == 0

----------------------------------------------------------------------------
(* Registers of a state; a state is the set of the patches applied.        *)

known == UNION {{published[w][i] : i \in 1..Len(published[w])} : w \in ContentWriter}

\* the states a replica can have: a prefix of each chain
replicaStates ==
    {UNION {{published[w][i] : i \in 1..n[w]} : w \in ContentWriter} :
       n \in {m \in [ContentWriter -> UNION {0..Len(published[v]) : v \in ContentWriter}] :
                \A w \in ContentWriter : m[w] <= Len(published[w])}}

eventBefore(d, e) ==
    \/ d[1] < e[1]
    \/ d[1] = e[1] /\ d[2] < e[2]
    \/ d[1] = e[1] /\ d[2] = e[2] /\ d[3] < e[3]

\* the operations of S with their events (lamport, writer, index)
events(S) == UNION {{[op |-> p.ops[i], at |-> <<p.lamport, p.writer, i>>] : i \in 1..Len(p.ops)} : p \in S}

addsOf(S, t) == {e.at : e \in {x \in events(S) : x.op.type = "add" /\ x.op.target = t}}

aliveDots(S, t) ==
    addsOf(S, t) \ UNION {e.op.observed : e \in {x \in events(S) : x.op.type = "remove"}}

\* the latest write to a key, << >> if there is none
register(S, t, key) ==
    LET writes == {e \in events(S) : e.op.type = "set" /\ e.op.target = t /\ e.op.key = key}
    IN  IF writes = {} THEN << >>
        ELSE <<CHOOSE e \in writes : \A f \in writes : e = f \/ eventBefore(f.at, e.at)>>

\* an edge shows no value older than its latest birth
visibleEdgeRegister(S, key) ==
    LET r == register(S, "edge", key)
    IN  IF r # << >> /\ \E d \in addsOf(S, "edge") : eventBefore(r[1].at, d) THEN << >> ELSE r

\* << >> unless the node, or the edge and its ends, are alive
getNodeContentRegister(S, key) ==
    IF aliveDots(S, "node") = {} THEN << >> ELSE register(S, "node", key)

getEdgeContentRegister(S, key) ==
    IF aliveDots(S, "edge") = {} \/ aliveDots(S, "node") = {} THEN << >>
    ELSE visibleEdgeRegister(S, key)

contentRegister(S, t, key) ==
    IF t = "node" THEN getNodeContentRegister(S, key) ELSE getEdgeContentRegister(S, key)

\* a mutant: metadata of any patch
isAnyLineage(content, candidate) == candidate # << >>

\* the same patch, whatever the index of the operation
isSameAttachmentLineage(content, candidate) ==
    candidate # << >> /\ content[1].at[1] = candidate[1].at[1] /\ content[1].at[2] = candidate[1].at[2]

sameLineageValue(content, candidate) ==
    IF isSameAttachmentLineage(content, candidate) THEN candidate[1].op.value ELSE Null

\* getContentMeta, getEdgeContentMeta: << >> without content
extractContentMeta(S, t) ==
    LET content == contentRegister(S, t, "oid")
    IN  IF content = << >> THEN << >>
        ELSE <<[oid |-> content[1].op.value,
                size |-> sameLineageValue(content, contentRegister(S, t, "size")),
                mime |-> sameLineageValue(content, contentRegister(S, t, "mime"))]>>

----------------------------------------------------------------------------
(* Builders.                                                               *)

\* the node and the edge were there before
basePatch ==
    [writer |-> 1, lamport |-> 1, anchors |-> {},
     ops |-> <<[type |-> "add", target |-> "node"], [type |-> "add", target |-> "edge"]>>]

ContentInit ==
    /\ builders = [w \in ContentWriter |-> << >>]
    /\ published = [w \in ContentWriter |-> IF w = 1 THEN <<basePatch>> ELSE << >>]
    /\ blobs = {} /\ attached = 0

\* the lamport is above the own chain, and above the others' if they are known
openBuilder(w) ==
    /\ builders[w] = << >>
    /\ Cardinality(known) + Cardinality({v \in ContentWriter : builders[v] # << >>})
         < MaxContentPatches
    /\ \E heard \in replicaStates, top \in {p.lamport : p \in known} \cup {0} :
         /\ \A i \in 1..Len(published[w]) : published[w][i] \in heard
         /\ top \in {p.lamport : p \in heard} \cup {0} /\ \A p \in heard : p.lamport <= top
         /\ builders' = [builders EXCEPT ![w] =
              <<[lamport |-> 1 + top, ops |-> << >>,
                 snapshot |-> heard, storing |-> {}, contentBlobs |-> {}, committing |-> FALSE]>>]
    /\ UNCHANGED <<published, blobs, attached>>

usable(w) == builders[w] # << >> /\ ~builders[w][1].committing

addsTarget(b, t) == \E i \in 1..Len(b.ops) : b.ops[i].type = "add" /\ b.ops[i].target = t

\* _assertNodeExistsForContent and _assertEdgeExists
canAttach(b, t) == addsTarget(b, t) \/ aliveDots(b.snapshot, t) # {}

push(w, ops) == builders' = [builders EXCEPT ![w][1].ops = @ \o ops]

addTarget(w, t) ==
    /\ usable(w) /\ Len(builders[w][1].ops) < MaxContentOps
    /\ push(w, <<[type |-> "add", target |-> t]>>)
    /\ UNCHANGED <<published, blobs, attached>>

removeTarget(w, t) ==
    /\ usable(w) /\ Len(builders[w][1].ops) < MaxContentOps
    /\ aliveDots(builders[w][1].snapshot, t) # {}
    /\ push(w, <<[type |-> "remove", observed |-> aliveDots(builders[w][1].snapshot, t)]>>)
    /\ UNCHANGED <<published, blobs, attached>>

\* setProperty on the content key alone, as clients without metadata do;
\* after an attachment in the same patch its lineage would be the same, so it
\* comes first
setContentOnly(w, t) ==
    /\ usable(w) /\ builders[w][1].ops = << >> /\ canAttach(builders[w][1], t)
    /\ \E i \in blobs : push(w, <<[type |-> "set", target |-> t, key |-> "oid", value |-> i]>>)
    /\ UNCHANGED <<published, blobs, attached>>

\* attachContent, attachEdgeContent up to the await: the blob is written
attachContent(w, t) ==
    /\ usable(w) /\ canAttach(builders[w][1], t) /\ attached < MaxAttachments
    /\ Len(builders[w][1].ops) <= MaxContentOps
    /\ attached' = attached + 1
    /\ blobs' = blobs \cup {attached + 1}
    /\ builders' = [builders EXCEPT ![w][1].storing = @ \cup {<<attached + 1, t>>}]
    /\ UNCHANGED published

\* setProperty asserts again that nothing was committed: then the call
\* throws, and the blob stays behind
attachEnds(w, a) ==
    /\ builders[w] # << >> /\ a \in builders[w][1].storing
    /\ LET b == [builders[w][1] EXCEPT !.storing = @ \ {a}]
           set(key, value) == [type |-> "set", target |-> a[2], key |-> key, value |-> value]
       IN  builders' = [builders EXCEPT ![w] =
             <<IF b.committing THEN b
               ELSE [b EXCEPT !.contentBlobs = @ \cup {a[1]},
                              !.ops = @ \o <<set("oid", a[1]), set("size", a[1]), set("mime", a[1])>>]>>]
    /\ UNCHANGED <<published, blobs, attached>>

commitBegins(w) ==
    /\ usable(w) /\ builders[w][1].ops # << >>
    /\ builders' = [builders EXCEPT ![w][1].committing = TRUE]
    /\ UNCHANGED <<published, blobs, attached>>

\* tree and commit are written and the ref moved; attachments still being
\* stored will find the builder committed
commitLands(w) ==
    /\ builders[w] # << >> /\ builders[w][1].committing
    /\ published' = [published EXCEPT ![w] = Append(@,
          [writer |-> w, lamport |-> builders[w][1].lamport, ops |-> builders[w][1].ops,
           anchors |-> builders[w][1].contentBlobs])]
    /\ builders' = [builders EXCEPT ![w] = << >>]
    /\ UNCHANGED <<blobs, attached>>

\* a Git call fails: the builder can be used again
commitFails(w) ==
    /\ builders[w] # << >> /\ builders[w][1].committing
    /\ builders' = [builders EXCEPT ![w][1].committing = FALSE]
    /\ UNCHANGED <<published, blobs, attached>>

\* a commit reaches the blob, or it is as young as an open builder's, within
\* Git's grace period
isKept(x) ==
    \/ \E p \in known : x \in p.anchors
    \/ \E w \in ContentWriter :
         /\ builders[w] # << >>
         /\ x \in builders[w][1].contentBlobs \cup {a[1] : a \in builders[w][1].storing}

\* Git prunes the others
pruneBlobs ==
    /\ \E x \in blobs : ~isKept(x)
    /\ blobs' = {x \in blobs : isKept(x)}
    /\ UNCHANGED <<builders, published, attached>>

ContentNext ==
    \/ \E w \in ContentWriter :
         \/ openBuilder(w) \/ commitBegins(w) \/ commitLands(w) \/ commitFails(w)
         \/ \E t \in Reborn : addTarget(w, t) \/ removeTarget(w, t)
         \/ \E t \in Target : setContentOnly(w, t) \/ attachContent(w, t)
         \/ \E a \in (1..MaxAttachments) \X Target : attachEnds(w, a)
    \/ pruneBlobs

ContentSpec == ContentInit /\ [][ContentNext]_contentVars

----------------------------------------------------------------------------
(* Property.                                                               *)

\* Whatever patches a replica has, the size and type it reports for a content
\* are those of the attachment the content came with, or none for content that
\* was set alone; and the blob of an attachment is there to be read
\* (getContentMeta, getContent; attachContent, commit)
ContentStaysWhole ==
    \A S \in replicaStates, t \in Target :
      LET meta == extractContentMeta(S, t)
      IN  meta # << >> =>
            LET m == meta[1]
            IN  /\ m.size \in {m.oid, Null} /\ m.mime = m.size
                /\ \A p \in S : (\E i \in 1..Len(p.ops) : /\ p.ops[i].type = "set"
                                                         /\ p.ops[i].key = "size"
                                                         /\ p.ops[i].value = m.oid) => m.oid \in blobs
=============================================================================
