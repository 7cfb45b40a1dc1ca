---------------------------- MODULE ArtifactStore ----------------------------
(***************************************************************************)
(* The content-addressed store of the artifacts crate and its garbage      *)
(* collector.  Code: artifacts/src/store.rs, gc.rs, lock.rs and the        *)
(* publications of heyvm.rs and dockerfile.rs.                             *)
(*                                                                         *)
(* A publication links its blobs, then its manifest, then sets a tag; each *)
(* link takes the store lock for itself, the tag takes none.  A collection *)
(* holds the lock exclusively from before it reads the first tag until the *)
(* last manifest is swept.                                                 *)
(*                                                                         *)
(* Abstractions.  An object is its digest: two inserts of the same bytes   *)
(* are inserts of the same object.  Time is one bit per object, whether it *)
(* is older than min_age.  A stat and the unlink it decides are one step:  *)
(* a link made between them keeps the bytes.  A dry run changes nothing    *)
(* and is no step.  Labels and public markers, which keep nothing alive,   *)
(* are left out.  The field made of a publication is history: what it      *)
(* stored itself and nobody took from the store against the sweep's rules. *)
(***************************************************************************)
EXTENDS Naturals, FiniteSets

CONSTANTS
    None,
    Blobs,          \* digests of blobs
    Manifests,      \* digests of manifests
    Entries,        \* the blobs each manifest tags
    Tags,
    Publishers      \* processes that import images, bundles or Dockerfiles

Objects == Blobs \cup Manifests

ASSUME StoreAssumption ==
    /\ Blobs \cap Manifests = {} /\ None \notin Objects \cup Tags
    /\ Entries \in [Manifests -> SUBSET Blobs]

VARIABLES
    objs,           \* objects that have a name in blobs/ or manifests/
    old,            \* those older than min_age
    linked,         \* blobs with a hard link outside of the store
    tags,           \* what each tag tags
    pub,            \* the publication each publisher is in
    gc,             \* the collection
    steady          \* tags nobody wrote, and whose read did not fail, since the
                    \* collection under way began

vars == <<objs, old, linked, tags, pub, gc, steady>>

IdlePub == [pc |-> "idle", man |-> None, tag |-> None, todo |-> {}, last |-> None,
            made |-> {}]
IdleGc  == [pc |-> "idle", todo |-> {}, live |-> {}]

Init ==
    /\ objs = {} /\ old = {} /\ linked = {}
    /\ tags = [t \in Tags |-> None]
    /\ pub = [p \in Publishers |-> IdlePub]
    /\ gc = IdleGc
    /\ steady = {}

\* The collector holds the lock exclusively for all of its steps.
SharedLock == gc.pc = "idle"

\* A manifest and the blobs it names.
Parts(m) == {m} \cup Entries[m]

\* What a digest keeps alive: itself and, if it is a manifest in the store, its
\* entries.
Reach(d) == IF d = None THEN {}
            ELSE {d} \cup (IF d \in Manifests \cap objs THEN Entries[d] ELSE {})

-----------------------------------------------------------------------------
(* Publications: import, bundle_import, Dockerfile store *)

BeginPublish(p, m, t) ==
    /\ pub[p].pc \in {"idle", "done"}
    /\ pub' = [pub EXCEPT ![p] = [IdlePub EXCEPT !.pc = "insert", !.man = m, !.tag = t,
                                                 !.todo = Entries[m]]]
    /\ UNCHANGED <<objs, old, linked, tags, gc, steady>>

\* link_into: the first writer wins; a second one finds the name taken, and the
\* object keeps the age it has.
Link(p, x) ==
    /\ SharedLock
    /\ objs' = objs \cup {x}
    /\ UNCHANGED <<old, linked, tags, gc, steady>>

Made(p, x) == IF x \in objs THEN pub[p].made ELSE pub[p].made \cup {x}

\* commit_blob: the lock is released after the link, before the stat.
commit_blob(p, b) ==
    /\ pub[p].pc = "insert" /\ pub[p].last = None /\ b \in pub[p].todo
    /\ Link(p, b)
    /\ pub' = [pub EXCEPT ![p] = [pub[p] EXCEPT !.last = b, !.made = Made(p, b)]]

StatBlob(p) ==
    /\ pub[p].last # None
    /\ pub' = [pub EXCEPT ![p] =
                  IF pub[p].last \in objs
                  THEN [pub[p] EXCEPT !.todo = pub[p].todo \ {pub[p].last}, !.last = None]
                  ELSE IdlePub]
    /\ UNCHANGED <<objs, old, linked, tags, gc, steady>>

put_manifest(p) ==
    /\ pub[p].pc = "insert" /\ pub[p].todo = {}
    /\ Link(p, pub[p].man)
    /\ pub' = [pub EXCEPT ![p] = [pub[p] EXCEPT !.pc = "tag", !.made = Made(p, pub[p].man)]]

\* Publications that are done and whose tag is written again, or could not be
\* read, are forgotten.
Overwritten(t) ==
    [p \in Publishers |-> IF pub[p].pc = "done" /\ pub[p].tag = t THEN IdlePub ELSE pub[p]]

\* set_tag: a rename, without the lock and without a look at the object.
set_tag(p) ==
    LET t == pub[p].tag IN
    /\ pub[p].pc = "tag"
    /\ tags' = [tags EXCEPT ![t] = pub[p].man]
    /\ steady' = steady \ {t}
    /\ pub' = [Overwritten(t) EXCEPT ![p].pc = "done"]
    /\ UNCHANGED <<objs, old, linked, gc>>

\* The process dies or its caller stops before a tag is set.
AbortPublish(p) ==
    /\ pub[p].pc \in {"insert", "tag"}
    /\ pub' = [pub EXCEPT ![p] = IdlePub]
    /\ UNCHANGED <<objs, old, linked, tags, gc, steady>>

-----------------------------------------------------------------------------
(* Tags and materializations, none under the lock *)

\* A tag may name a manifest, a blob or an object that is not there.
Retag(t, d) ==
    /\ tags[t] # d
    /\ tags' = [tags EXCEPT ![t] = d]
    /\ steady' = steady \ {t}
    /\ pub' = Overwritten(t)
    /\ UNCHANGED <<objs, old, linked, gc>>

\* A read-only materialization on the same filesystem is a hard link.
materialize(b) ==
    /\ b \in objs \ linked
    /\ linked' = linked \cup {b}
    /\ UNCHANGED <<objs, old, tags, pub, gc, steady>>

release(b) ==
    /\ b \in linked
    /\ linked' = linked \ {b}
    /\ UNCHANGED <<objs, old, tags, pub, gc, steady>>

\* As Unlink, but the age of what goes is kept.
UnlinkKeepsAge(S) == objs' = objs \ S /\ linked' = linked \ S /\ UNCHANGED old

Unlink(S) == objs' = objs \ S /\ old' = old \ S /\ linked' = linked \ S

\* What is taken against the sweep's rules is what no publication made.
Taken(S) == pub' = [p \in Publishers |-> [pub[p] EXCEPT !.made = @ \ S]]

\* art rm: no lock and no look at the tags; with --force no look at the links.
rm(b) ==
    /\ b \in objs
    /\ Unlink({b})
    /\ Taken({b})
    /\ UNCHANGED <<tags, gc, steady>>

-----------------------------------------------------------------------------
(* The collection: collect, mark *)

CollectBegins ==
    /\ SharedLock
    /\ gc' = [IdleGc EXCEPT !.pc = "mark", !.todo = Tags]
    /\ steady' = Tags
    /\ UNCHANGED <<objs, old, linked, tags, pub>>

\* A tag cannot be read and is skipped, or its manifest cannot be read and counts
\* as absent; a manifest that cannot be parsed is kept without its entries.
MarkFails(t) ==
    /\ gc.pc = "mark" /\ t \in gc.todo /\ tags[t] # None
    /\ \E kept \in {{}, {tags[t]}} :
          gc' = [gc EXCEPT !.todo = @ \ {t}, !.live = @ \cup kept]
    /\ steady' = steady \ {t}
    /\ pub' = Overwritten(t)
    /\ UNCHANGED <<objs, old, linked, tags>>

\* As mark below, but the entries of a tagged manifest are forgotten.
MarkShallow(t) ==
    /\ gc.pc = "mark" /\ t \in gc.todo
    /\ gc' = [gc EXCEPT !.todo = @ \ {t}, !.live = @ \cup ({tags[t]} \ {None})]
    /\ UNCHANGED <<objs, old, linked, tags, pub, steady>>

\* The tags are read one after the other; no manifest changes meanwhile.
mark(t) ==
    /\ gc.pc = "mark" /\ t \in gc.todo
    /\ gc' = [gc EXCEPT !.todo = @ \ {t}, !.live = @ \cup Reach(tags[t])]
    /\ UNCHANGED <<objs, old, linked, tags, pub, steady>>

\* The clock is read once, after the mark.
BeginSweep ==
    /\ gc.pc = "mark" /\ gc.todo = {}
    /\ gc' = [gc EXCEPT !.pc = "blobs", !.todo = Blobs \cap objs]
    /\ UNCHANGED <<objs, old, linked, tags, pub, steady>>

\* As Swept below, without the grace window.
SweptYoung(x) == x \notin gc.live /\ x \notin linked

Swept(x) == x \notin gc.live /\ x \notin linked /\ x \in old

\* A blob whose stat fails stays.
SweepBlob(b) ==
    /\ gc.pc = "blobs" /\ b \in gc.todo
    /\ gc' = [gc EXCEPT !.todo = @ \ {b}]
    /\ \E S \in SUBSET {x \in {b} : Swept(x)} : Unlink(S)
    /\ UNCHANGED <<tags, pub, steady>>

\* A manifest that is not live and whose stat fails goes whatever its age; nothing
\* another process does bears on the others.
SweepManifests ==
    /\ gc.pc = "blobs" /\ gc.todo = {}
    /\ gc' = IdleGc
    /\ \E unread \in SUBSET ((Manifests \cap objs) \ gc.live) :
          /\ Unlink(unread \cup {x \in Manifests \cap objs : Swept(x)})
          /\ Taken(unread)
    /\ steady' = {}
    /\ UNCHANGED tags

\* flock ends with the process; what was unlinked stays unlinked.
CollectorDies ==
    /\ gc.pc # "idle"
    /\ gc' = IdleGc
    /\ steady' = {}
    /\ UNCHANGED <<objs, old, linked, tags, pub>>

\* min_age passes for an object.  Assumed, and enforced nowhere: min_age, an hour
\* unless --min-age says otherwise and counted from the birth of the staged file,
\* outlasts the publication that made the object and a collection that began
\* before that publication was done.  A collection judges ages by one clock
\* reading, so that what ages under it ages after it.
Ages(x) ==
    /\ SharedLock
    /\ x \in objs \ old
    /\ \A p \in Publishers : x \in pub[p].made => pub[p].pc = "done"
    /\ old' = old \cup {x}
    /\ UNCHANGED <<objs, linked, tags, pub, gc, steady>>

-----------------------------------------------------------------------------
Publish(p) ==
    \/ \E m \in Manifests, t \in Tags : BeginPublish(p, m, t)
    \/ \E b \in Blobs : commit_blob(p, b)
    \/ StatBlob(p) \/ put_manifest(p) \/ set_tag(p) \/ AbortPublish(p)

Operator ==
    \/ \E t \in Tags, d \in Objects \cup {None} : Retag(t, d)
    \/ \E b \in Blobs : materialize(b) \/ release(b) \/ rm(b)

Collect ==
    \/ CollectBegins \/ BeginSweep \/ SweepManifests \/ CollectorDies
    \/ \E t \in Tags : mark(t) \/ MarkFails(t)
    \/ \E b \in Blobs : SweepBlob(b)

Next ==
    \/ \E p \in Publishers : Publish(p)
    \/ Operator
    \/ Collect
    \/ \E x \in Objects : Ages(x)

Spec == Init /\ [][Next]_vars

-----------------------------------------------------------------------------
(* Properties *)

\* Every variable has its type; ages and links are of objects that are in the
\* store, so that an object that comes back starts young (link_into, collect).
TypeOK ==
    /\ objs \subseteq Objects /\ old \subseteq objs
    /\ linked \subseteq Blobs \cap objs
    /\ tags \in [Tags -> Objects \cup {None}]
    /\ gc.live \subseteq Objects
    /\ steady \subseteq Tags

\* What a tag kept alive when the collection began, and keeps alive still, is not
\* removed by it if the collector could read the tag and its manifest, whatever
\* other tags and publications do meanwhile and whatever else could not be read
\* (collect, mark).  Only art rm, which looks at no tag, removes it.
SteadyTagKeeps ==
    [][\/ \A t \in steady : Reach(tags[t]) \cap objs \subseteq objs'
       \/ \E b \in Blobs : rm(b)]_vars

\* A publication that stored all of its objects itself is whole as long as its
\* tag stays and collections can read it, though the store lock was free between
\* its links and its tag: the grace window bridges the gap.
PublishedWhole ==
    \A p \in Publishers :
        pub[p].pc = "done" /\ Parts(pub[p].man) \subseteq pub[p].made
            => Parts(pub[p].man) \subseteq objs

=============================================================================
