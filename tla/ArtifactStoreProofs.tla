------------------------- MODULE ArtifactStoreProofs -------------------------
(***************************************************************************)
(* Machine-checked proofs about ArtifactStore, for any number of blobs,    *)
(* manifests, tags and publishers.                                         *)
(*                                                                         *)
(* Two arguments meet.  What a tag keeps is safe because the collector     *)
(* marks it before it sweeps (MarkInv); what a publication has linked and  *)
(* not yet tagged is safe because it is young (PublishInv).  A publication *)
(* that is done passes from the second to the first: a collection that was *)
(* under way when its tag was set finds its objects young to the end, and  *)
(* a later one finds the tag.                                              *)
(***************************************************************************)
EXTENDS ArtifactStore, TLAPS

\* The types TypeOK leaves open: publications and the collection.
Publication ==
    [pc : {"idle", "insert", "tag", "done"}, man : Manifests \cup {None},
     tag : Tags \cup {None}, todo : SUBSET Blobs, last : Blobs \cup {None},
     made : SUBSET Objects]

Collection ==
    [pc : {"idle", "mark", "blobs"}, todo : SUBSET (Tags \cup Blobs), live : SUBSET Objects]

StateType ==
    /\ TypeOK
    /\ pub \in [Publishers -> Publication]
    /\ \A p \in Publishers : pub[p].pc # "idle" => pub[p].man \in Manifests /\ pub[p].tag \in Tags
    /\ gc \in Collection

\* What a steady tag keeps is live as soon as the collector has read the tag.
MarkInv ==
    /\ gc.pc = "mark" => \A t \in steady \ gc.todo : Reach(tags[t]) \subseteq gc.live
    /\ gc.pc = "blobs" => \A t \in steady : Reach(tags[t]) \subseteq gc.live

\* p stored all objects of its publication itself.
OwnPublication(p) ==
    pub[p].pc = "done" /\ Parts(pub[p].man) \subseteq pub[p].made

\* Until its tag is set, what a publication has linked is there and young.  After
\* that the tag stands, and a collection finds the objects young, or has yet to
\* read the tag, or has marked them.
PublishInv ==
    \A p \in Publishers :
        /\ pub[p].pc = "idle" => pub[p].made = {}
        /\ pub[p].pc \in {"insert", "tag"} => pub[p].made \subseteq objs \ old
        /\ OwnPublication(p) =>
              /\ Parts(pub[p].man) \subseteq objs
              /\ tags[pub[p].tag] = pub[p].man
              /\ gc.pc # "idle" =>
                    \/ Parts(pub[p].man) \cap old = {}
                    \/ gc.pc = "mark" /\ pub[p].tag \in gc.todo
                    \/ Parts(pub[p].man) \subseteq gc.live

StoreInv == StateType /\ MarkInv /\ PublishInv

-----------------------------------------------------------------------------
\* The empty store satisfies the invariant.
LEMMA InitInv == Init => StoreInv
<1>1. IdlePub \in Publication /\ IdleGc \in Collection
  BY DEF IdlePub, IdleGc, Publication, Collection
<1> QED
  BY <1>1
  DEF Init, StoreInv, StateType, TypeOK, MarkInv, PublishInv, OwnPublication, IdlePub, IdleGc

\* Every step leaves each publisher in a publication.
LEMMA NextPublication ==
    ASSUME StateType, [Next]_vars PROVE pub' \in [Publishers -> Publication]
<1>0. IdlePub \in Publication
  BY DEF IdlePub, Publication
<1>a. pub \in [Publishers -> Publication]
  BY DEF StateType
<1>1. ASSUME NEW p \in Publishers, NEW m \in Manifests, NEW t \in Tags, BeginPublish(p, m, t)
      PROVE pub' \in [Publishers -> Publication]
  <2>1. Entries[m] \in SUBSET Blobs
    BY StoreAssumption
  <2>2. [IdlePub EXCEPT !.pc = "insert", !.man = m, !.tag = t, !.todo = Entries[m]] \in Publication
    BY <1>0, <2>1, Zenon DEF Publication
  <2> QED
    BY <1>1, <1>a, <2>2, Zenon DEF BeginPublish
<1>2. ASSUME NEW p \in Publishers, NEW b \in Blobs, commit_blob(p, b)
      PROVE pub' \in [Publishers -> Publication]
  <2>1. Made(p, b) \in SUBSET Objects
    BY <1>a DEF Made, Publication, Objects
  <2>2. [pub[p] EXCEPT !.last = b, !.made = Made(p, b)] \in Publication
    BY <1>a, <2>1, Zenon DEF Publication
  <2> QED
    BY <1>2, <1>a, <2>2, Zenon DEF commit_blob
<1>3. ASSUME NEW p \in Publishers, StatBlob(p) PROVE pub' \in [Publishers -> Publication]
  <2>1. pub[p].todo \ {pub[p].last} \in SUBSET Blobs
    BY <1>a DEF Publication
  <2>2. [pub[p] EXCEPT !.todo = pub[p].todo \ {pub[p].last}, !.last = None] \in Publication
    BY <1>a, <2>1, Zenon DEF Publication
  <2> QED
    BY <1>3, <1>0, <1>a, <2>2, Zenon DEF StatBlob
<1>4. ASSUME NEW p \in Publishers, put_manifest(p) PROVE pub' \in [Publishers -> Publication]
  <2>1. pub[p].man \in Manifests
    BY <1>4 DEF put_manifest, StateType
  <2>2. Made(p, pub[p].man) \in SUBSET Objects
    BY <1>a, <2>1 DEF Made, Publication, Objects
  <2>3. [pub[p] EXCEPT !.pc = "tag", !.made = Made(p, pub[p].man)] \in Publication
    BY <1>a, <2>2, Zenon DEF Publication
  <2> QED
    BY <1>4, <1>a, <2>3, Zenon DEF put_manifest
<1>5. ASSUME NEW t \in Tags PROVE Overwritten(t) \in [Publishers -> Publication]
  BY <1>0, <1>a DEF Overwritten
<1>6. ASSUME NEW p \in Publishers, set_tag(p) PROVE pub' \in [Publishers -> Publication]
  <2>1. pub[p].tag \in Tags
    BY <1>6 DEF set_tag, StateType
  <2>2. Overwritten(pub[p].tag) \in [Publishers -> Publication]
    BY <1>5, <2>1
  <2>3. pub' = [Overwritten(pub[p].tag) EXCEPT ![p].pc = "done"]
    BY <1>6 DEF set_tag
  <2> QED
    BY <2>2, <2>3 DEF Publication
<1>7. ASSUME NEW p \in Publishers, AbortPublish(p) PROVE pub' \in [Publishers -> Publication]
  BY <1>7, <1>0, <1>a DEF AbortPublish
<1>8. ASSUME NEW t \in Tags, NEW d \in Objects \cup {None}, Retag(t, d)
      PROVE pub' \in [Publishers -> Publication]
  BY <1>8, <1>5 DEF Retag
<1>9. ASSUME UNCHANGED pub PROVE pub' \in [Publishers -> Publication]
  BY <1>9, <1>a
<1>10. ASSUME NEW t \in Tags, MarkFails(t) PROVE pub' \in [Publishers -> Publication]
  BY <1>10, <1>5 DEF MarkFails
<1>11. ASSUME NEW S, Taken(S) PROVE pub' \in [Publishers -> Publication]
  <2>1. ASSUME NEW p \in Publishers PROVE [pub[p] EXCEPT !.made = @ \ S] \in Publication
    BY <1>a DEF Publication
  <2> QED
    BY <1>11, <2>1, Zenon DEF Taken
<1>12. CASE SweepManifests
  BY <1>12, <1>11 DEF SweepManifests
<1>13. ASSUME NEW b \in Blobs, rm(b) PROVE pub' \in [Publishers -> Publication]
  BY <1>13, <1>11 DEF rm
<1> QED
  BY <1>1, <1>2, <1>3, <1>4, <1>6, <1>7, <1>8, <1>9, <1>10, <1>12, <1>13
  DEF Next, Publish, Operator, Collect, CollectBegins, BeginSweep, CollectorDies, mark,
      SweepBlob, Ages, materialize, release, vars

\* Every step leaves the collector in a collection.
LEMMA NextCollection == ASSUME StateType, [Next]_vars PROVE gc' \in Collection
<1>0. IdleGc \in Collection
  BY DEF IdleGc, Collection
<1>a. gc \in Collection
  BY DEF StateType
<1>1. CASE CollectBegins
  BY <1>1, <1>0, Zenon DEF CollectBegins, Collection
<1>2. ASSUME NEW t \in Tags, mark(t) PROVE gc' \in Collection
  <2>1. Reach(tags[t]) \subseteq Objects
    BY StoreAssumption DEF Reach, StateType, TypeOK, Objects
  <2>2. gc.todo \ {t} \in SUBSET (Tags \cup Blobs) /\ gc.live \cup Reach(tags[t]) \in SUBSET Objects
    BY <1>a, <2>1 DEF Collection
  <2> QED
    BY <1>2, <1>a, <2>2, Zenon DEF mark, Collection
<1>3. CASE BeginSweep
  <2>1. Blobs \cap objs \in SUBSET (Tags \cup Blobs)
    OBVIOUS
  <2> QED
    BY <1>3, <1>a, <2>1, Zenon DEF BeginSweep, Collection
<1>4. ASSUME NEW b \in Blobs, SweepBlob(b) PROVE gc' \in Collection
  BY <1>4, <1>a DEF SweepBlob, Collection
<1>5. CASE SweepManifests \/ CollectorDies
  BY <1>5, <1>0 DEF SweepManifests, CollectorDies
<1>6. ASSUME UNCHANGED gc PROVE gc' \in Collection
  BY <1>6, <1>a
<1>7. ASSUME NEW t \in Tags, MarkFails(t) PROVE gc' \in Collection
  <2>1. tags[t] \in Objects
    BY <1>7 DEF MarkFails, StateType, TypeOK
  <2>2. PICK kept \in {{}, {tags[t]}} : gc' = [gc EXCEPT !.todo = @ \ {t}, !.live = @ \cup kept]
    BY <1>7 DEF MarkFails
  <2>3. gc.todo \ {t} \in SUBSET (Tags \cup Blobs) /\ gc.live \cup kept \in SUBSET Objects
    BY <1>a, <2>1 DEF Collection
  <2> QED
    BY <1>a, <2>2, <2>3, Zenon DEF Collection
<1> QED
  BY <1>1, <1>2, <1>3, <1>4, <1>5, <1>6, <1>7
  DEF Next, Publish, Operator, Collect, BeginPublish, commit_blob, StatBlob, put_manifest,
      set_tag, AbortPublish, Retag, Link, Ages, materialize, release, rm, vars

\* Setting a tag ends its publication and forgets the earlier ones of the tag.
LEMMA SetTagPub ==
    ASSUME StateType, NEW p \in Publishers, set_tag(p)
    PROVE  \A q \in Publishers :
              /\ q = p => /\ pub'[q].pc = "done" /\ pub'[q].man = pub[q].man
                          /\ pub'[q].tag = pub[q].tag /\ pub'[q].made = pub[q].made
              /\ q # p => pub'[q] = IF pub[q].pc = "done" /\ pub[q].tag = pub[p].tag
                                    THEN IdlePub ELSE pub[q]
<1> DEFINE O == Overwritten(pub[p].tag)
<1>1. O \in [Publishers -> Publication]
  BY DEF Overwritten, StateType, IdlePub, Publication
<1>2. O[p] = pub[p]
  BY DEF set_tag, Overwritten
<1>3. \A q \in Publishers :
         O[q] = IF pub[q].pc = "done" /\ pub[q].tag = pub[p].tag THEN IdlePub ELSE pub[q]
  BY DEF Overwritten
<1>4. pub' = [O EXCEPT ![p].pc = "done"]
  BY DEF set_tag
<1> HIDE DEF O
<1>5. \A q \in Publishers : q # p => pub'[q] = O[q]
  BY <1>1, <1>4
<1>6. /\ pub'[p].pc = "done" /\ pub'[p].man = O[p].man
      /\ pub'[p].tag = O[p].tag /\ pub'[p].made = O[p].made
  BY <1>1, <1>4 DEF Publication
<1> QED
  BY <1>2, <1>3, <1>5, <1>6

\* What is taken from the store leaves every publication as it is but for what it
\* made.
LEMMA TakenPub ==
    ASSUME StateType, NEW S, Taken(S), NEW p \in Publishers
    PROVE  /\ pub'[p].pc = pub[p].pc /\ pub'[p].man = pub[p].man /\ pub'[p].tag = pub[p].tag
           /\ pub'[p].made = pub[p].made \ S
<1>1. pub[p] \in Publication
  BY DEF StateType
<1>2. pub'[p] = [pub[p] EXCEPT !.made = @ \ S]
  BY DEF Taken
<1> QED
  BY <1>1, <1>2 DEF Publication

\* Every step keeps the types.
LEMMA NextType == ASSUME StateType, [Next]_vars PROVE StateType'
<1>a. pub' \in [Publishers -> Publication] /\ gc' \in Collection
  BY NextPublication, NextCollection
<1> USE StoreAssumption, <1>a DEF StateType, TypeOK, Objects, Publication, Collection, IdlePub
<1>1. ASSUME NEW p \in Publishers, NEW m \in Manifests, NEW t \in Tags, BeginPublish(p, m, t)
      PROVE StateType'
  BY <1>1 DEF BeginPublish
<1>2. ASSUME NEW p \in Publishers, NEW b \in Blobs, commit_blob(p, b) PROVE StateType'
  BY <1>2 DEF commit_blob, Link
<1>3. ASSUME NEW p \in Publishers, StatBlob(p) PROVE StateType'
  BY <1>3 DEF StatBlob
<1>4. ASSUME NEW p \in Publishers, put_manifest(p) PROVE StateType'
  BY <1>4 DEF put_manifest, Link
<1>5. ASSUME NEW p \in Publishers, set_tag(p) PROVE StateType'
  <2>1. /\ pub[p].pc = "tag"
        /\ tags' = [tags EXCEPT ![pub[p].tag] = pub[p].man]
        /\ steady' = steady \ {pub[p].tag}
        /\ UNCHANGED <<objs, old, linked, gc>>
    BY <1>5 DEF set_tag
  <2>2. \A q \in Publishers :
           /\ q = p => /\ pub'[q].pc = "done" /\ pub'[q].man = pub[q].man
                       /\ pub'[q].tag = pub[q].tag /\ pub'[q].made = pub[q].made
           /\ q # p => pub'[q] = IF pub[q].pc = "done" /\ pub[q].tag = pub[p].tag
                                 THEN IdlePub ELSE pub[q]
    BY <1>5, SetTagPub
  <2> QED
    BY <2>1, <2>2
<1>6. ASSUME NEW p \in Publishers, AbortPublish(p) PROVE StateType'
  BY <1>6 DEF AbortPublish
<1>7. ASSUME NEW t \in Tags, NEW d \in Objects \cup {None}, Retag(t, d) PROVE StateType'
  BY <1>7 DEF Retag, Overwritten
<1>8. ASSUME NEW b \in Blobs, materialize(b) \/ release(b) PROVE StateType'
  BY <1>8 DEF materialize, release
<1>9. CASE CollectBegins
  BY <1>9 DEF CollectBegins
<1>15. CASE BeginSweep \/ CollectorDies
  BY <1>15 DEF BeginSweep, CollectorDies
<1>10. ASSUME NEW t \in Tags, mark(t) PROVE StateType'
  BY <1>10 DEF mark
<1>11. ASSUME NEW b \in Blobs, SweepBlob(b) PROVE StateType'
  BY <1>11 DEF SweepBlob, Unlink
<1>12. CASE SweepManifests
  <2>1. PICK S : /\ Unlink(S \cup {x \in Manifests \cap objs : Swept(x)}) /\ Taken(S)
    BY <1>12 DEF SweepManifests
  <2>2. \A p \in Publishers : pub'[p].pc = pub[p].pc /\ pub'[p].man = pub[p].man /\ pub'[p].tag = pub[p].tag
    BY <2>1, TakenPub
  <2> QED
    BY <1>12, <2>1, <2>2 DEF SweepManifests, Unlink
<1>17. ASSUME NEW t \in Tags, MarkFails(t) PROVE StateType'
  BY <1>17 DEF MarkFails, Overwritten
<1>18. ASSUME NEW b \in Blobs, rm(b) PROVE StateType'
  <2>1. \A p \in Publishers : pub'[p].pc = pub[p].pc /\ pub'[p].man = pub[p].man /\ pub'[p].tag = pub[p].tag
    BY <1>18, TakenPub DEF rm
  <2> QED
    BY <1>18, <2>1 DEF rm, Unlink
<1>13. ASSUME NEW x \in Objects, Ages(x) PROVE StateType'
  BY <1>13 DEF Ages
<1>14. CASE UNCHANGED vars
  BY <1>14 DEF vars
<1> QED
  BY <1>17, <1>18, <1>1, <1>2, <1>3, <1>4, <1>5, <1>6, <1>7, <1>8, <1>9, <1>10, <1>11, <1>12, <1>13, <1>14, <1>15
  DEF Next, Publish, Operator, Collect

\* Every step keeps what the collector knows of the steady tags: the lock keeps
\* manifests from coming or going under it, and a tag that is written is steady
\* no more.
LEMMA NextMark == ASSUME StoreInv, [Next]_vars PROVE MarkInv'
<1> USE StoreAssumption DEF StoreInv, StateType, Publication, Collection, TypeOK, Objects, IdleGc, MarkInv, Reach
<1>1. ASSUME NEW p \in Publishers, NEW m \in Manifests, NEW t \in Tags, BeginPublish(p, m, t)
      PROVE MarkInv'
  BY <1>1 DEF BeginPublish
<1>2. ASSUME NEW p \in Publishers, NEW b \in Blobs, commit_blob(p, b) PROVE MarkInv'
  BY <1>2 DEF commit_blob, Link, SharedLock
<1>3. ASSUME NEW p \in Publishers, StatBlob(p) PROVE MarkInv'
  BY <1>3 DEF StatBlob
<1>4. ASSUME NEW p \in Publishers, put_manifest(p) PROVE MarkInv'
  BY <1>4 DEF put_manifest, Link, SharedLock
<1>5. ASSUME NEW p \in Publishers, set_tag(p) PROVE MarkInv'
  BY <1>5 DEF set_tag
<1>6. ASSUME NEW p \in Publishers, AbortPublish(p) PROVE MarkInv'
  BY <1>6 DEF AbortPublish
<1>7. ASSUME NEW t \in Tags, NEW d \in Objects \cup {None}, Retag(t, d) PROVE MarkInv'
  BY <1>7 DEF Retag
<1>8. ASSUME NEW b \in Blobs, materialize(b) \/ release(b) PROVE MarkInv'
  BY <1>8 DEF materialize, release
<1>9. CASE CollectBegins
  BY <1>9 DEF CollectBegins
<1>15. CASE BeginSweep
  <2>1. gc'.pc = "blobs" /\ gc'.live = gc.live
    BY <1>15 DEF BeginSweep
  <2> QED
    BY <1>15, <2>1 DEF BeginSweep
<1>16. CASE CollectorDies
  BY <1>16 DEF CollectorDies
<1>10. ASSUME NEW t \in Tags, mark(t) PROVE MarkInv'
  BY <1>10 DEF mark
<1>11. ASSUME NEW b \in Blobs, SweepBlob(b) PROVE MarkInv'
  BY <1>11 DEF SweepBlob, Unlink
<1>12. CASE SweepManifests
  BY <1>12 DEF SweepManifests
<1>17. ASSUME NEW t \in Tags, MarkFails(t) PROVE MarkInv'
  <2>1. steady' \ gc'.todo \subseteq steady \ gc.todo /\ gc.live \subseteq gc'.live
    BY <1>17 DEF MarkFails
  <2> QED
    BY <1>17, <2>1 DEF MarkFails
<1>18. ASSUME NEW b \in Blobs, rm(b) PROVE MarkInv'
  BY <1>18 DEF rm, Unlink
<1>13. ASSUME NEW x \in Objects, Ages(x) PROVE MarkInv'
  BY <1>13 DEF Ages
<1>14. CASE UNCHANGED vars
  BY <1>14 DEF vars
<1> QED
  BY <1>17, <1>18, <1>1, <1>2, <1>3, <1>4, <1>5, <1>6, <1>7, <1>8, <1>9, <1>10, <1>11, <1>12, <1>13, <1>14, <1>15, <1>16
  DEF Next, Publish, Operator, Collect

\* Every step keeps what protects the objects of a publication.
LEMMA NextPublish == ASSUME StoreInv, [Next]_vars PROVE PublishInv'
<1> USE StoreAssumption
        DEF StoreInv, StateType, Publication, Collection, TypeOK, Objects, IdlePub, IdleGc, PublishInv, OwnPublication, Parts
<1>1. ASSUME NEW p \in Publishers, NEW m \in Manifests, NEW t \in Tags, BeginPublish(p, m, t)
      PROVE PublishInv'
  BY <1>1 DEF BeginPublish
<1>2. ASSUME NEW p \in Publishers, NEW b \in Blobs, commit_blob(p, b) PROVE PublishInv'
  BY <1>2 DEF commit_blob, Link, Made, SharedLock
<1>3. ASSUME NEW p \in Publishers, StatBlob(p) PROVE PublishInv'
  BY <1>3 DEF StatBlob
<1>4. ASSUME NEW p \in Publishers, put_manifest(p) PROVE PublishInv'
  BY <1>4 DEF put_manifest, Link, Made, SharedLock
<1>5. ASSUME NEW p \in Publishers, set_tag(p) PROVE PublishInv'
  <2>1. /\ pub[p].pc = "tag"
        /\ tags' = [tags EXCEPT ![pub[p].tag] = pub[p].man]
        /\ steady' = steady \ {pub[p].tag}
        /\ UNCHANGED <<objs, old, linked, gc>>
    BY <1>5 DEF set_tag
  <2>2. \A q \in Publishers :
           /\ q = p => /\ pub'[q].pc = "done" /\ pub'[q].man = pub[q].man
                       /\ pub'[q].tag = pub[q].tag /\ pub'[q].made = pub[q].made
           /\ q # p => pub'[q] = IF pub[q].pc = "done" /\ pub[q].tag = pub[p].tag
                                 THEN IdlePub ELSE pub[q]
    BY <1>5, SetTagPub
  <2> QED
    BY <2>1, <2>2
<1>6. ASSUME NEW p \in Publishers, AbortPublish(p) PROVE PublishInv'
  BY <1>6 DEF AbortPublish
<1>7. ASSUME NEW t \in Tags, NEW d \in Objects \cup {None}, Retag(t, d) PROVE PublishInv'
  BY <1>7 DEF Retag, Overwritten
<1>8. ASSUME NEW b \in Blobs, materialize(b) \/ release(b) PROVE PublishInv'
  BY <1>8 DEF materialize, release
<1>9. CASE CollectBegins
  BY <1>9 DEF CollectBegins, SharedLock
<1>15. CASE BeginSweep
  <2>1. gc'.pc = "blobs" /\ gc'.live = gc.live
    BY <1>15 DEF BeginSweep
  <2> QED
    BY <1>15, <2>1 DEF BeginSweep
<1>16. CASE CollectorDies
  BY <1>16 DEF CollectorDies
<1>10. ASSUME NEW t \in Tags, mark(t) PROVE PublishInv'
  BY <1>10 DEF mark, Reach
<1>11. ASSUME NEW b \in Blobs, SweepBlob(b) PROVE PublishInv'
  BY <1>11 DEF SweepBlob, Unlink, Swept
<1>12. CASE SweepManifests
  <2>1. PICK S : /\ Unlink(S \cup {x \in Manifests \cap objs : Swept(x)}) /\ Taken(S)
    BY <1>12 DEF SweepManifests
  <2>2. \A p \in Publishers :
           /\ pub'[p].pc = pub[p].pc /\ pub'[p].man = pub[p].man /\ pub'[p].tag = pub[p].tag
           /\ pub'[p].made = pub[p].made \ S
    BY <2>1, TakenPub
  <2>3. gc.pc = "blobs" /\ gc'.pc = "idle" /\ tags' = tags
    BY <1>12 DEF SweepManifests
  <2>4. objs' = objs \ (S \cup {x \in Manifests \cap objs : Swept(x)}) /\ old' \subseteq old
    BY <2>1 DEF Unlink
  <2>5. ASSUME NEW p \in Publishers, pub'[p].pc \in {"insert", "tag"} PROVE pub'[p].made \subseteq objs' \ old'
    BY <2>2, <2>4, <2>5 DEF Swept
  <2>6. ASSUME NEW p \in Publishers, OwnPublication(p)'
        PROVE  Parts(pub'[p].man) \subseteq objs' /\ tags'[pub'[p].tag] = pub'[p].man
    <3>1. OwnPublication(p) /\ Parts(pub[p].man) \cap S = {}
      BY <2>2, <2>6
    <3>2. Parts(pub[p].man) \subseteq objs /\ tags[pub[p].tag] = pub[p].man
      BY <3>1
    <3>3. \A x \in Parts(pub[p].man) : ~Swept(x)
      BY <2>3, <3>1 DEF Swept
    <3> QED
      BY <2>2, <2>3, <2>4, <3>1, <3>2, <3>3
  <2> QED
    BY <2>2, <2>3, <2>5, <2>6
<1>17. ASSUME NEW t \in Tags, MarkFails(t) PROVE PublishInv'
  BY <1>17 DEF MarkFails, Overwritten
<1>18. ASSUME NEW b \in Blobs, rm(b) PROVE PublishInv'
  <2>1. \A p \in Publishers :
           /\ pub'[p].pc = pub[p].pc /\ pub'[p].man = pub[p].man /\ pub'[p].tag = pub[p].tag
           /\ pub'[p].made = pub[p].made \ {b}
    BY <1>18, TakenPub DEF rm
  <2>2. UNCHANGED <<tags, gc>> /\ objs' = objs \ {b} /\ old' \subseteq old
    BY <1>18 DEF rm, Unlink
  <2>3. ASSUME NEW p \in Publishers, OwnPublication(p)' PROVE OwnPublication(p)
    BY <2>1, <2>3
  <2> QED
    BY <2>1, <2>2, <2>3
<1>13. ASSUME NEW x \in Objects, Ages(x) PROVE PublishInv'
  BY <1>13 DEF Ages, SharedLock
<1>14. CASE UNCHANGED vars
  BY <1>14 DEF vars
<1> QED
  BY <1>17, <1>18, <1>1, <1>2, <1>3, <1>4, <1>5, <1>6, <1>7, <1>8, <1>9, <1>10, <1>11, <1>12, <1>13, <1>14, <1>15, <1>16
  DEF Next, Publish, Operator, Collect

\* The invariant holds in every reachable state of the store.
THEOREM StoreInvariant == Spec => []StoreInv
<1>1. StoreInv /\ [Next]_vars => StoreInv'
  BY NextType, NextMark, NextPublish DEF StoreInv
<1> QED
  BY InitInv, <1>1, PTL DEF Spec

\* TypeOK for any store: ages and links are of objects that are in it.
THEOREM TypeCorrect == Spec => []TypeOK
BY StoreInvariant, PTL DEF StoreInv, StateType

\* A publication that stored its objects itself is whole while its tag stands,
\* although the store lock is free between its links and its tag.
THEOREM PublicationsWhole == Spec => []PublishedWhole
<1>1. StoreInv => PublishedWhole
  BY DEF StoreInv, PublishInv, OwnPublication, PublishedWhole
<1> QED
  BY StoreInvariant, <1>1, PTL

\* No collection removes what a tag kept when it began and keeps still, unless
\* the tag or its manifest could not be read.
THEOREM SteadyTagsKept == Spec => SteadyTagKeeps
<1> DEFINE Kept == \/ \A t \in steady : Reach(tags[t]) \cap objs \subseteq objs'
                   \/ \E b \in Blobs : rm(b)
<1>1. ASSUME StoreInv, [Next]_vars PROVE Kept
  <2>1. ASSUME NEW b \in Blobs, SweepBlob(b) PROVE Kept
    BY <1>1, <2>1 DEF SweepBlob, Unlink, Swept, StoreInv, MarkInv
  <2>2. CASE SweepManifests
    BY <1>1, <2>2 DEF SweepManifests, Unlink, Swept, StoreInv, MarkInv
  <2>3. ASSUME objs \subseteq objs' PROVE Kept
    BY <2>3
  <2> QED
    BY <1>1, <2>1, <2>2, <2>3
    DEF Next, Publish, Operator, Collect, BeginPublish, commit_blob, StatBlob, put_manifest,
        set_tag, AbortPublish, Retag, Link, Ages, materialize, release, CollectBegins,
        BeginSweep, CollectorDies, mark, MarkFails, vars
<1>2. StoreInv /\ [Next]_vars => [Kept]_vars
  BY <1>1
<1> QED
  BY StoreInvariant, <1>2, PTL DEF Spec, SteadyTagKeeps

=============================================================================
