-------------------------- MODULE ScanQueueProofs ---------------------------
(***************************************************************************)
(* Proofs about the scan queue of a phone with the scan jobs of its store, *)
(* for any photos, shelves, limits and numbers of failures: types, that    *)
(* the phone does to the server what any phone may do (ScanQueue           *)
(* implements ScanJobs), and that ScanQueue implements PhotoLife.          *)
(***************************************************************************)
EXTENDS ScanQueue, ScanJobsProofs

----------------------------------------------------------------------------
(* Items and patches.                                                      *)

\* A pending transaction.
Op == [data : Item \cup {NoItem}, ack : JobId \cup {NoJob}]
Fields == {"st", "att", "job", "goods", "why", "wait"}

\* A patch that leaves an item an item; Saves: it marks the item as saved.
Good(c) ==
  /\ DOMAIN c \subseteq Fields
  /\ "st" \in DOMAIN c => c["st"] \in
       {"queued", "detecting", "detected", "saving", "saved", "failed"}
  /\ "att" \in DOMAIN c => c["att"] \in 0 .. MAX_ATTEMPTS
  /\ "job" \in DOMAIN c => c["job"] \in JobId \cup {NoJob}
  /\ "goods" \in DOMAIN c => c["goods"] \in BOOLEAN
  /\ "why" \in DOMAIN c => c["why"] \in {"none", "network", "detect", "save", "permanent"}
  /\ "wait" \in DOMAIN c => c["wait"] \in BOOLEAN
Saves(c) == "st" \in DOMAIN c /\ c["st"] = "saved"

LEMMA MergeGood ==
  ASSUME NEW r \in Item, NEW c, Good(c)
  PROVE  /\ Merge(r, c) \in Item
         /\ Merge(r, c).st = IF "st" \in DOMAIN c THEN c["st"] ELSE r.st
<1>1. DOMAIN r = Fields
  BY DEF Item, Fields
<1>2. \A x \in Fields : Merge(r, c)[x] = IF x \in DOMAIN c THEN c[x] ELSE r[x]
  BY <1>1 DEF Merge
<1>3. Merge(r, c) = [st |-> Merge(r, c).st, att |-> Merge(r, c).att,
                     job |-> Merge(r, c).job, goods |-> Merge(r, c).goods,
                     why |-> Merge(r, c).why, wait |-> Merge(r, c).wait]
  BY <1>1 DEF Merge, Fields
<1>4. /\ Merge(r, c).st \in {"queued", "detecting", "detected", "saving", "saved", "failed"}
      /\ Merge(r, c).att \in 0 .. MAX_ATTEMPTS /\ Merge(r, c).job \in JobId \cup {NoJob}
      /\ Merge(r, c).goods \in BOOLEAN /\ Merge(r, c).wait \in BOOLEAN
      /\ Merge(r, c).why \in {"none", "network", "detect", "save", "permanent"}
  BY <1>2 DEF Good, Fields, Item
<1>5. Merge(r, c) \in Item
  BY <1>3, <1>4 DEF Item
<1> QED BY <1>2, <1>5 DEF Fields

LEMMA PatchesGood ==
  /\ \A st \in {"queued", "detecting", "detected", "saving", "saved", "failed"} :
       Good([st |-> st]) /\ (Saves([st |-> st]) => st = "saved")
  /\ \A id \in JobId \cup {NoJob} : Good([job |-> id]) /\ ~Saves([job |-> id])
  /\ Good([wait |-> FALSE]) /\ ~Saves([wait |-> FALSE])
  /\ Good([st |-> "queued", wait |-> TRUE]) /\ ~Saves([st |-> "queued", wait |-> TRUE])
  /\ LET again == [st |-> "queued", att |-> 0, why |-> "none", wait |-> FALSE]
     IN  Good(again) /\ ~Saves(again)
  /\ \A goods \in BOOLEAN : Good(Found(goods)) /\ ~Saves(Found(goods))
  /\ \A st \in {"queued", "detected", "failed"}, n \in 0 .. MAX_ATTEMPTS, wait \in BOOLEAN,
        why \in {"none", "network", "detect", "save", "permanent"} :
       LET c == [st |-> st, att |-> n, why |-> why, wait |-> wait]
       IN  Good(c) /\ ~Saves(c)
  /\ \A st \in {"queued", "detected"}, goods \in BOOLEAN :
       LET c == [st |-> st, att |-> 0, why |-> "none", wait |-> FALSE, goods |-> goods]
       IN  Good(c) /\ ~Saves(c)
<1> USE QueueAssumption DEF Good, Saves, Fields
<1>8. \A st \in {"queued", "detected"}, goods \in BOOLEAN :
       LET c == [st |-> st, att |-> 0, why |-> "none", wait |-> FALSE, goods |-> goods]
       IN  Good(c) /\ ~Saves(c)
  OBVIOUS
<1>1. \A st \in {"queued", "detecting", "detected", "saving", "saved", "failed"} :
        Good([st |-> st]) /\ (Saves([st |-> st]) => st = "saved")
  OBVIOUS
<1>2. \A id \in JobId \cup {NoJob} : Good([job |-> id]) /\ ~Saves([job |-> id])
  OBVIOUS
<1>3. Good([wait |-> FALSE]) /\ ~Saves([wait |-> FALSE])
  OBVIOUS
<1>4. Good([st |-> "queued", wait |-> TRUE]) /\ ~Saves([st |-> "queued", wait |-> TRUE])
  OBVIOUS
<1>5. \A goods \in BOOLEAN : Good(Found(goods)) /\ ~Saves(Found(goods))
  BY DEF Found
<1>6. \A st \in {"queued", "detected", "failed"}, n \in 0 .. MAX_ATTEMPTS, wait \in BOOLEAN,
        why \in {"none", "network", "detect", "save", "permanent"} :
       LET c == [st |-> st, att |-> n, why |-> why, wait |-> wait]
       IN  Good(c) /\ ~Saves(c)
  OBVIOUS
<1>7. 0 \in 0 .. MAX_ATTEMPTS
  OBVIOUS
<1> QED BY <1>1, <1>2, <1>3, <1>4, <1>5, <1>6, <1>7, <1>8

----------------------------------------------------------------------------
(* The invariant.                                                          *)

\* TypeOK of the phone's part, with the transactions as sequences.
PhoneTypes ==
  /\ item \in [Photo -> Item \cup {NoItem}]
  /\ rec \in [Photo -> Item \cup {NoItem}]
  /\ idb \in [Photo -> Seq(Op)]
  /\ enabled \in BOOLEAN /\ awake \in BOOLEAN
  /\ view \in {"none", "open", "preparing"}
  /\ polls \subseteq [photo : Photo, job : JobId]
  /\ save = NoSave \/ save \in [photo : Photo, step :
       {"sent", "held", "landed", "broken"}]
  /\ blobs \subseteq Photo /\ prep \subseteq Photo /\ confirmed \subseteq Photo
  /\ writes \subseteq Photo /\ listed \subseteq Photo /\ taken \subseteq Photo
  /\ given \subseteq Photo
  /\ fresh \subseteq Shelf

\* The photos whose shelf has a product in the catalogue, which is what
\* verifyServerSideSave can see, and those that may be let go of.
Backed == {p \in Photo : \E q \in listed : ShelfOf[q] = ShelfOf[p]}
Safe == Backed \cup given

\* A pending transaction marks p as saved only when it is backed, and neither
\* makes nor drops the record of a photo that is not safe.
OpFits(p, o) ==
  /\ o.data.st = "saved" => p \in Backed
  /\ p \in Safe \/ (o.data = NoItem <=> rec[p] = NoItem)

\* What every step keeps of a photo: what is not enqueued has no trace, nothing
\* is taken for saved that is not backed, wherever the mark is kept.
PhotoFits(p) ==
  /\ p \in taken \cup Safe \/ (item[p] = NoItem /\ rec[p] = NoItem /\ idb[p] = <<>>)
  /\ \A k \in DOMAIN idb[p] : OpFits(p, idb[p][k])
  /\ item[p].st = "saved" => p \in Backed
  /\ rec[p].st = "saved" => p \in Backed
  /\ p \in confirmed => p \in Backed
  /\ ShelfOf[p] \in fresh => p \in Backed
SaveFits == save.step = "landed" => save.photo \in Backed

PhonePart == PhoneTypes /\ (\A p \in Photo : PhotoFits(p)) /\ SaveFits

LEMMA NotSaved ==
  /\ NoItem.st = "none" /\ NoItem.wait = FALSE /\ NoItem.job = NoJob
  /\ NoItem \notin Item /\ NewItem \in Item /\ NewItem.st = "queued"
  /\ Delete \in Op /\ Delete.data = NoItem
<1> USE DEF NoItem
<1>1. NoItem.st = "none" /\ NoItem.wait = FALSE /\ NoItem.job = NoJob
  OBVIOUS
<1>2. NoItem \notin Item
  BY DEF Item
<1>3. NewItem \in Item /\ NewItem.st = "queued"
  <2> DEFINE Blank == [st : {"none"}, att : 0 .. MAX_ATTEMPTS, job : JobId \cup {NoJob},
                       goods : BOOLEAN,
                       why : {"none", "network", "detect", "save", "permanent"},
                       wait : BOOLEAN]
  <2>1. NoItem \in Blank
    <3>1. 0 \in 0 .. MAX_ATTEMPTS
      BY QueueAssumption
    <3> QED BY <3>1
  <2>2. \A r \in Blank : [r EXCEPT !.st = "queued"] \in Item
                         /\ [r EXCEPT !.st = "queued"].st = "queued"
    BY DEF Item
  <2> HIDE DEF Blank, NoItem
  <2> QED BY <2>1, <2>2 DEF NewItem
<1>4. Delete \in Op /\ Delete.data = NoItem
  BY DEF Delete, Op
<1> QED BY <1>1, <1>2, <1>3, <1>4

LEMMA UpdateFits ==
  ASSUME PhoneTypes, NEW p \in Photo, PhotoFits(p), NEW c, Good(c),
         Saves(c) => p \in Backed, NEW id \in JobId \cup {NoJob}
  PROVE  Update(p, c, id) \in Op /\ OpFits(p, Update(p, c, id))
<1>1. CASE rec[p] = NoItem
  BY <1>1, NotSaved DEF Update, Op, OpFits
<1>2. CASE rec[p] # NoItem
  <2>1. rec[p] \in Item
    BY <1>2 DEF PhoneTypes
  <2>2. Merge(rec[p], c) \in Item /\ (Merge(rec[p], c).st = "saved" => p \in Backed)
    BY <2>1, MergeGood DEF Saves, PhotoFits
  <2> QED BY <1>2, <2>2, NotSaved DEF Update, Op, OpFits
<1> QED BY <1>1, <1>2

LEMMA Concatenated ==
  ASSUME NEW s \in Seq(Op), NEW t \in Seq(Op)
  PROVE  /\ s \o t \in Seq(Op)
         /\ \A k \in DOMAIN (s \o t) :
              \/ k \in DOMAIN s /\ (s \o t)[k] = s[k]
              \/ \E j \in DOMAIN t : (s \o t)[k] = t[j]
<1>1. s \o t \in Seq(Op) /\ Len(s \o t) = Len(s) + Len(t)
  OBVIOUS
<1>2. ASSUME NEW k \in 1 .. Len(s) + Len(t)
      PROVE  \/ k \in DOMAIN s /\ (s \o t)[k] = s[k]
             \/ \E j \in DOMAIN t : (s \o t)[k] = t[j]
  <2>1. CASE k <= Len(s)
    BY <2>1
  <2>2. CASE k > Len(s)
    <3>1. k - Len(s) \in DOMAIN t /\ (s \o t)[k] = t[k - Len(s)]
      BY <2>2
    <3> QED BY <3>1
  <2> QED BY <2>1, <2>2
<1> QED BY <1>1, <1>2

\* Transactions that fit are queued for one photo.
LEMMA QueueFits ==
  ASSUME PhoneTypes, NEW p \in Photo, NEW ops \in Seq(Op), Queue(p, ops),
         \A q \in Photo : PhotoFits(q),
         p \in taken \cup Safe,
         item' \in [Photo -> Item \cup {NoItem}],
         \A q \in Photo \ {p} : item'[q] = item[q],
         item'[p].st = "saved" => p \in Backed,
         rec' = rec, taken' = taken, listed' = listed, given \subseteq given',
         confirmed' \subseteq confirmed \cup Backed, fresh' = fresh,
         \A k \in DOMAIN ops :
           \/ OpFits(p, ops[k])
           \/ ops[k] = Delete /\ p \in Backed' \cup given'
  PROVE  idb' \in [Photo -> Seq(Op)] /\ \A q \in Photo : PhotoFits(q)'
<1>1. idb[p] \in Seq(Op) /\ idb' = [idb EXCEPT ![p] = idb[p] \o ops]
  BY DEF PhoneTypes, Queue
<1>2. idb' \in [Photo -> Seq(Op)]
  BY <1>1, Concatenated DEF PhoneTypes
<1>3. ASSUME NEW q \in Photo, q # p PROVE PhotoFits(q)'
  <2>1. idb'[q] = idb[q] /\ item'[q] = item[q] /\ PhotoFits(q)
    BY <1>1, <1>3 DEF PhoneTypes
  <2> QED BY <2>1 DEF PhotoFits, OpFits, Safe, Backed
<1>4. PhotoFits(p)'
  <2>1. idb'[p] = idb[p] \o ops /\ PhotoFits(p)
    BY <1>1 DEF PhoneTypes
  <2>2. \A k \in DOMAIN ops : OpFits(p, ops[k])'
    BY NotSaved DEF OpFits, Safe, Backed
  <2>3. ASSUME NEW k \in DOMAIN idb[p] PROVE OpFits(p, idb[p][k])'
    BY <2>1 DEF PhotoFits, OpFits, Safe, Backed
  <2>4. \A k \in DOMAIN (idb[p] \o ops) : OpFits(p, (idb[p] \o ops)[k])'
    BY <1>1, <2>1, <2>2, <2>3, Concatenated
  <2> QED BY <2>1, <2>4 DEF PhotoFits, Safe, Backed
<1> QED BY <1>2, <1>3, <1>4

\* An item and its record are given one patch.
LEMMA PatchFits ==
  ASSUME PhoneTypes, NEW p \in Photo, Has(p), NEW c, Good(c), Saves(c) => p \in Backed,
         Patch(p, c), \A q \in Photo : PhotoFits(q),
         rec' = rec, taken' = taken, listed' = listed, given' = given,
         confirmed' \subseteq confirmed \cup Backed, fresh' = fresh
  PROVE  /\ item' \in [Photo -> Item \cup {NoItem}]
         /\ idb' \in [Photo -> Seq(Op)] /\ \A q \in Photo : PhotoFits(q)'
<1>1. item[p] \in Item /\ p \in taken \cup Safe
  BY DEF Has, PhoneTypes, PhotoFits
<1>2. /\ item' = [item EXCEPT ![p] = Merge(item[p], c)]
      /\ Merge(item[p], c) \in Item /\ (Merge(item[p], c).st = "saved" => p \in Backed)
  BY <1>1, MergeGood DEF Patch, Saves, PhotoFits
<1>3. /\ item' \in [Photo -> Item \cup {NoItem}]
      /\ \A q \in Photo \ {p} : item'[q] = item[q]
      /\ item'[p].st = "saved" => p \in Backed
  BY <1>2 DEF PhoneTypes
<1>4. Update(p, c, NoJob) \in Op /\ OpFits(p, Update(p, c, NoJob))
  BY UpdateFits
<1> DEFINE ops == <<Update(p, c, NoJob)>>
<1>5. /\ ops \in Seq(Op) /\ Queue(p, ops)
      /\ \A k \in DOMAIN ops : OpFits(p, ops[k])
  BY <1>4 DEF Patch
<1> HIDE DEF ops
<1> QED BY <1>1, <1>3, <1>5, QueueFits

\* Items, records and transactions stay; the catalogue may grow.
LEMMA SameFits ==
  ASSUME PhoneTypes, \A q \in Photo : PhotoFits(q),
         UNCHANGED <<item, rec, idb>>, taken \subseteq taken', given \subseteq given',
         listed \subseteq listed', confirmed' \subseteq confirmed \cup Backed',
         \A q \in Photo : ShelfOf[q] \in fresh' \ fresh => q \in Backed'
  PROVE  \A q \in Photo : PhotoFits(q)'
BY DEF PhotoFits, OpFits, Safe, Backed

----------------------------------------------------------------------------
(* The steps.                                                              *)

LEMMA IdbStepFits ==
  ASSUME PhonePart, NEW p \in Photo, IdbStep(p)
  PROVE  PhonePart'
<1>1. idb[p] \in Seq(Op) /\ idb[p] # <<>>
  BY DEF PhonePart, PhoneTypes, IdbStep
<1> DEFINE o == Head(idb[p])
           rest == Tail(idb[p])
<1>2. /\ o \in Op /\ rest \in Seq(Op) /\ 1 \in DOMAIN idb[p] /\ o = idb[p][1]
      /\ \A k \in DOMAIN rest : k + 1 \in DOMAIN idb[p] /\ rest[k] = idb[p][k + 1]
  BY <1>1
<1>3. rec' = [rec EXCEPT ![p] = o.data] /\ idb' = [idb EXCEPT ![p] = rest]
  BY DEF IdbStep
<1>4. OpFits(p, o) /\ \A k \in DOMAIN rest : OpFits(p, rest[k])
  BY <1>2 DEF PhonePart, PhotoFits
<1>5. /\ UNCHANGED <<item, blobs, enabled, view, prep, polls, save, confirmed,
                     writes, fresh, listed, taken, given>>
      /\ awake' \in BOOLEAN
  BY DEF IdbStep, Acknowledge, PhonePart, PhoneTypes
<1>6. PhoneTypes'
  <2>1. o.data \in Item \cup {NoItem}
    BY <1>2 DEF Op
  <2> HIDE DEF o, rest
  <2> QED BY <1>2, <1>3, <1>5, <2>1 DEF PhonePart, PhoneTypes
<1>7. ASSUME NEW q \in Photo, q # p PROVE PhotoFits(q)'
  <2>1. rec'[q] = rec[q] /\ idb'[q] = idb[q] /\ PhotoFits(q)
    BY <1>3, <1>7 DEF PhonePart, PhoneTypes
  <2> QED BY <1>5, <2>1 DEF PhotoFits, OpFits, Safe, Backed
<1>8. PhotoFits(p)'
  <2>1. rec'[p] = o.data /\ idb'[p] = rest /\ PhotoFits(p)
    BY <1>3 DEF PhonePart, PhoneTypes
  <2>2. p \in taken \cup Safe
    BY <1>1, <2>1 DEF PhotoFits
  <2> HIDE DEF o, rest
  <2>3. \A k \in DOMAIN rest : rest[k].data.st = "saved" => p \in Backed
    BY <1>4 DEF OpFits
  <2>4. \A k \in DOMAIN rest : p \in Safe \/ (rest[k].data = NoItem <=> o.data = NoItem)
    BY <1>4 DEF OpFits
  <2>5. o.data.st = "saved" => p \in Backed
    BY <1>4 DEF OpFits
  <2>6. (\A k \in DOMAIN idb[p] : OpFits(p, idb[p][k]))'
    BY <1>5, <2>1, <2>3, <2>4 DEF OpFits, Safe, Backed
  <2> QED BY <1>5, <2>1, <2>2, <2>5, <2>6 DEF PhotoFits, Safe, Backed
<1> QED BY <1>5, <1>6, <1>7, <1>8 DEF PhonePart, SaveFits, Backed

LEMMA EnqueueFits ==
  ASSUME PhonePart, NEW p \in Photo, Enqueue(p)
  PROVE  PhonePart'
<1>1. /\ item' = [item EXCEPT ![p] = NewItem] /\ taken' = taken \cup {p}
      /\ rec' = [rec EXCEPT ![p] = NewItem] \/ rec' = rec
      /\ p \notin taken /\ blobs' = blobs \cup {p} /\ awake' = TRUE
      /\ UNCHANGED <<idb, enabled, view, prep, polls, save, confirmed, writes,
                     fresh, listed, given>>
  BY DEF Enqueue
<1>2. PhoneTypes'
  BY <1>1, NotSaved DEF PhonePart, PhoneTypes
<1>3. ASSUME NEW q \in Photo, q # p PROVE PhotoFits(q)'
  <2>1. rec'[q] = rec[q] /\ item'[q] = item[q] /\ PhotoFits(q)
    BY <1>1, <1>3 DEF PhonePart, PhoneTypes
  <2> QED BY <1>1, <2>1 DEF PhotoFits, OpFits, Safe, Backed
<1>4. PhotoFits(p)'
  <2>1. /\ item'[p].st = "queued" /\ PhotoFits(p)
        /\ rec'[p] = rec[p] \/ rec'[p].st = "queued"
    BY <1>1, NotSaved DEF PhonePart, PhoneTypes
  <2>2. CASE p \in Safe
    BY <1>1, <2>1, <2>2 DEF PhotoFits, OpFits, Safe, Backed
  <2>3. CASE p \notin Safe
    <3>1. idb'[p] = <<>>
      BY <1>1, <2>1, <2>3 DEF PhotoFits
    <3> QED BY <1>1, <2>1, <3>1 DEF PhotoFits, Safe, Backed
  <2> QED BY <2>2, <2>3
<1> QED BY <1>1, <1>2, <1>3, <1>4 DEF PhonePart, SaveFits, Backed

LEMMA RemoveFits ==
  ASSUME PhonePart, NEW p \in Photo, RemoveItem(p)
  PROVE  PhonePart'
<1>1. /\ item' = [item EXCEPT ![p] = NoItem] /\ given' = given \cup {p}
      /\ blobs' = blobs \ {p} /\ Queue(p, <<Delete>>) /\ Has(p)
      /\ UNCHANGED <<rec, enabled, view, awake, prep, polls, save, confirmed,
                     writes, fresh, listed, taken>>
  BY DEF RemoveItem
<1>2. /\ item' \in [Photo -> Item \cup {NoItem}] /\ item'[p].st = "none"
      /\ \A q \in Photo \ {p} : item'[q] = item[q]
  BY <1>1, NotSaved DEF PhonePart, PhoneTypes
<1>3. p \in taken \cup Safe
  BY <1>1 DEF PhonePart, PhotoFits, Has
<1> DEFINE ops == <<Delete>>
<1>4. ops \in Seq(Op) /\ \A k \in DOMAIN ops : ops[k] = Delete
  BY NotSaved
<1>5. Queue(p, ops) /\ p \in Backed' \cup given'
  BY <1>1
<1> HIDE DEF ops
<1>6. idb' \in [Photo -> Seq(Op)] /\ \A q \in Photo : PhotoFits(q)'
  BY <1>1, <1>2, <1>3, <1>4, <1>5, QueueFits DEF PhonePart
<1>7. PhoneTypes'
  BY <1>1, <1>2, <1>6 DEF PhonePart, PhoneTypes
<1> QED BY <1>1, <1>6, <1>7 DEF PhonePart, SaveFits, Backed

\* The rest of the phone's state, when a step only patches an item.
LEMMA PatchStep ==
  ASSUME PhonePart, NEW p \in Photo, Has(p), NEW c, Good(c), Saves(c) => p \in Backed,
         Patch(p, c),
         UNCHANGED <<rec, view, confirmed, writes, fresh, listed, taken, given>>,
         blobs' = blobs, prep' \subseteq Photo, enabled' \in BOOLEAN, awake' \in BOOLEAN,
         polls' \subseteq polls,
         save' = save
  PROVE  PhonePart'
<1>1. /\ item' \in [Photo -> Item \cup {NoItem}]
      /\ idb' \in [Photo -> Seq(Op)] /\ \A q \in Photo : PhotoFits(q)'
  BY PatchFits DEF PhonePart
<1>2. PhoneTypes'
  BY <1>1 DEF PhonePart, PhoneTypes
<1> QED BY <1>1, <1>2 DEF PhonePart, SaveFits, Backed

\* ... and when it touches neither items nor records.
LEMMA SameStep ==
  ASSUME PhonePart,
         UNCHANGED <<item, rec, idb, taken, given>>,
         blobs' = blobs, prep' \subseteq Photo, enabled' \in BOOLEAN, awake' \in BOOLEAN,
         view' \in {"none", "open", "preparing"},
         polls' \subseteq [photo : Photo, job : JobId],
         listed' = listed, confirmed' = confirmed, fresh' \subseteq fresh,
         writes' \subseteq Photo,
         \/ save' = save
         \/ save' \in [photo : Photo, step : {"sent", "held", "broken"}]
         \/ save' = [save EXCEPT !.step = "broken"]
            /\ save \in [photo : Photo, step : {"sent", "held", "landed", "broken"}]
  PROVE  PhonePart'
<1>1. \A q \in Photo : PhotoFits(q)'
  BY SameFits DEF PhonePart
<1>2. \/ save' = NoSave
      \/ save' \in [photo : Photo, step : {"sent", "held", "landed", "broken"}]
  BY DEF PhonePart, PhoneTypes
<1>3. save'.step = "landed" => save' = save
  BY DEF PhonePart, PhoneTypes
<1>4. PhoneTypes'
  BY <1>2 DEF PhonePart, PhoneTypes
<1> QED BY <1>1, <1>3, <1>4 DEF PhonePart, SaveFits, Backed

LEMMA FailureGood ==
  ASSUME PhoneTypes, NEW p \in Photo, Has(p), NEW safe \in {"queued", "detected"},
         NEW why \in {"network", "detect", "save", "permanent"}, NEW autoRetry \in BOOLEAN
  PROVE  Good(Failure(p, safe, why, autoRetry)) /\ ~Saves(Failure(p, safe, why, autoRetry))
<1>1. item[p].att \in Nat /\ MAX_ATTEMPTS \in Nat
  BY QueueAssumption DEF PhoneTypes, Has, Item
<1> DEFINE tries == item[p].att + 1
           n == IF tries > MAX_ATTEMPTS THEN MAX_ATTEMPTS ELSE tries
<1>2. n \in 0 .. MAX_ATTEMPTS
  BY <1>1
<1>3. \/ Failure(p, safe, why, autoRetry) =
           [st |-> safe, att |-> n, why |-> "none", wait |-> TRUE]
      \/ Failure(p, safe, why, autoRetry) =
           [st |-> "failed", att |-> n, why |-> why, wait |-> FALSE]
  BY DEF Failure
<1> HIDE DEF n
<1> QED BY <1>2, <1>3, PatchesGood

LEMMA RetryFits ==
  ASSUME PhonePart, NEW p \in Photo, RetryItem(p)
  PROVE  PhonePart'
<1> DEFINE again == item[p].why # "save"
           c == [st |-> IF again THEN "queued" ELSE "detected", att |-> 0,
                 why |-> "none", wait |-> FALSE, goods |-> ~again /\ item[p].goods]
<1>1. item[p].st \in {"failed", "detected"}
  BY DEF RetryItem
<1>2. Has(p) /\ item[p].goods \in BOOLEAN
  BY <1>1, NotSaved DEF Has, PhonePart, PhoneTypes, Item
<1>3. (~again /\ item[p].goods) \in BOOLEAN
  BY Zenon
<1>4. Good(c) /\ ~Saves(c)
  <2>1. \A st \in {"queued", "detected"}, goods \in BOOLEAN :
          LET d == [st |-> st, att |-> 0, why |-> "none", wait |-> FALSE, goods |-> goods]
          IN  Good(d) /\ ~Saves(d)
    BY PatchesGood
  <2>2. (IF again THEN "queued" ELSE "detected") \in {"queued", "detected"}
    OBVIOUS
  <2> QED BY <1>3, <2>1, <2>2, Zenon
<1>5. /\ Patch(p, c) /\ awake' = TRUE
      /\ UNCHANGED <<blobs, rec, enabled, view, prep, polls, save, confirmed,
                     writes, fresh, listed, taken, given>>
  BY Zenon DEF RetryItem
<1> HIDE DEF c
<1> QED BY <1>2, <1>4, <1>5, PatchStep DEF PhonePart, PhoneTypes

LEMMA SubmitFits ==
  ASSUME PhonePart, NEW p \in Photo, Submit(p)
  PROVE  PhonePart'
<1>1. Has(p)
  BY NotSaved DEF Submit, Eligible, Has
<1>2. Good([st |-> "detecting"]) /\ ~Saves([st |-> "detecting"])
  BY PatchesGood
<1> QED BY <1>1, <1>2, PatchStep DEF Submit, PhonePart, PhoneTypes

LEMMA SubmitSendsFits ==
  ASSUME PhonePart, NEW p \in Photo, SubmitSends(p)
  PROVE  PhonePart'
<1>1. /\ prep' \subseteq Photo /\ awake' \in BOOLEAN
      /\ UNCHANGED <<blobs, rec, enabled, view, polls, save, confirmed,
                     writes, fresh, listed, taken, given>>
  BY DEF SubmitSends, PhonePart, PhoneTypes
<1>2. CASE UNCHANGED <<item, idb>>
  BY <1>1, <1>2, SameStep DEF PhonePart, PhoneTypes
<1>3. CASE Has(p) /\ Patch(p, [st |-> "queued"])
  <2>1. Good([st |-> "queued"]) /\ ~Saves([st |-> "queued"])
    BY PatchesGood
  <2> QED BY <1>1, <1>3, <2>1, PatchStep DEF PhonePart, PhoneTypes
<1> QED BY <1>2, <1>3 DEF SubmitSends

LEMMA UnreadableFits ==
  ASSUME PhonePart, NEW p \in Photo, SubmitUnreadable(p)
  PROVE  PhonePart'
<1> DEFINE c == Failure(p, "queued", "detect", FALSE)
<1>1. Good(c) /\ ~Saves(c)
  BY FailureGood DEF SubmitUnreadable, PhonePart
<1>2. /\ Patch(p, c) /\ Has(p) /\ prep' \subseteq Photo /\ awake' = TRUE
      /\ UNCHANGED <<blobs, rec, enabled, view, polls, save, confirmed,
                     writes, fresh, listed, taken, given>>
  BY DEF SubmitUnreadable, PhonePart, PhoneTypes
<1> HIDE DEF c
<1> QED BY <1>1, <1>2, PatchStep DEF PhonePart, PhoneTypes

LEMMA AnsweredFits ==
  ASSUME PhonePart, JobsTypeOK, NEW r \in posts, SubmitAnswered(r)
  PROVE  PhonePart'
<1>1. r.photo \in Photo /\ r.id \in JobId \cup {NoJob} /\ r.step \in Answers
  BY DEF JobsTypeOK, Post, SubmitAnswered
<1>2. /\ enabled' \in BOOLEAN /\ awake' = TRUE
      /\ UNCHANGED <<blobs, rec, view, prep, polls, save, confirmed,
                     writes, fresh, listed, taken, given>>
  BY DEF SubmitAnswered
<1>3. CASE ~Has(r.photo)
  BY <1>2, <1>3, SameStep DEF SubmitAnswered, PhonePart, PhoneTypes
<1>4. CASE Has(r.photo)
  <2>1. Good(AnswerPatch(r)) /\ ~Saves(AnswerPatch(r))
    <3>1. CASE r.step = "taken"
      BY <1>1, <3>1, PatchesGood DEF AnswerPatch
    <3>2. CASE r.step = "full"
      BY <3>2, PatchesGood DEF AnswerPatch
    <3>3. CASE r.step = "preparing"
      BY <3>3, PatchesGood DEF AnswerPatch
    <3>4. CASE r.step \in {"too_large", "error", "lost"}
      BY <1>1, <1>4, <3>4, FailureGood DEF AnswerPatch, PhonePart
    <3> QED BY <1>1, <3>1, <3>2, <3>3, <3>4 DEF Answers
  <2>2. Patch(r.photo, AnswerPatch(r))
    BY <1>4 DEF SubmitAnswered
  <2> QED BY <1>1, <1>2, <1>4, <2>1, <2>2, PatchStep DEF PhonePart, PhoneTypes
<1> QED BY <1>3, <1>4

LEMMA PollAsksFits ==
  ASSUME PhonePart, NEW p \in Photo, PollAsks(p)
  PROVE  PhonePart'
<1>1. item[p].job \in JobId
  BY NotSaved DEF PhonePart, PhoneTypes, PollAsks, Item, NoJob
<1>2. polls' \subseteq [photo : Photo, job : JobId]
  BY <1>1 DEF PollAsks, PhonePart, PhoneTypes
<1> QED BY <1>2, SameStep DEF PollAsks, PhonePart, PhoneTypes

LEMMA PollLostFits ==
  ASSUME PhonePart, NEW q \in polls, PollLost(q)
  PROVE  PhonePart'
BY SameStep DEF PollLost, PhonePart, PhoneTypes

LEMMA PollAnsweredFits ==
  ASSUME PhonePart, NEW q \in polls, PollAnswered(q)
  PROVE  PhonePart'
<1> DEFINE p == q.photo
<1>1. p \in Photo /\ q.job \in JobId
  BY DEF PhonePart, PhoneTypes
<1>2. /\ polls' \subseteq polls
      /\ UNCHANGED <<blobs, rec, enabled, view, awake, prep, save, confirmed,
                     writes, fresh, listed, taken, given>>
  BY DEF PollAnswered
<1>3. CASE UNCHANGED <<item, idb>>
  BY <1>2, <1>3, SameStep DEF PhonePart, PhoneTypes
<1>4. CASE Has(p) /\ JobOver(p)
  <2> DEFINE c == Failure(p, "queued", "detect", TRUE)
             d == [job |-> NoJob]
             ops == <<Update(p, d, NoJob), Update(p, c, NoJob)>>
             r == [item[p] EXCEPT !.job = NoJob]
  <2>1. Good(c) /\ ~Saves(c) /\ Good(d) /\ ~Saves(d)
    BY <1>1, <1>4, FailureGood, PatchesGood DEF PhonePart
  <2>2. item[p] \in Item
    BY <1>1, <1>4 DEF PhonePart, PhoneTypes, Has
  <2>3. r \in Item /\ r.st = item[p].st
    BY <2>2 DEF Item
  <2>4. item' = [item EXCEPT ![p] = Merge(r, c)] /\ Queue(p, ops)
    BY <1>4 DEF JobOver
  <2> HIDE DEF r, c, d
  <2>5. Merge(r, c) \in Item /\ (Merge(r, c).st = "saved" => p \in Backed)
    BY <1>1, <2>1, <2>3, MergeGood DEF Saves, PhonePart, PhotoFits
  <2>6. /\ Update(p, d, NoJob) \in Op /\ OpFits(p, Update(p, d, NoJob))
        /\ Update(p, c, NoJob) \in Op /\ OpFits(p, Update(p, c, NoJob))
    BY <1>1, <2>1, UpdateFits DEF PhonePart
  <2>7. ops \in Seq(Op) /\ \A k \in DOMAIN ops : OpFits(p, ops[k])
    BY <2>6
  <2>8. /\ item' \in [Photo -> Item \cup {NoItem}]
        /\ \A o \in Photo \ {p} : item'[o] = item[o]
        /\ item'[p].st = "saved" => p \in Backed
    BY <1>1, <2>4, <2>5 DEF PhonePart, PhoneTypes
  <2>9. p \in taken \cup Safe
    BY <1>1, <1>4 DEF PhonePart, PhotoFits, Has
  <2> HIDE DEF ops, p
  <2>10. idb' \in [Photo -> Seq(Op)] /\ \A o \in Photo : PhotoFits(o)'
    BY <1>1, <1>2, <2>4, <2>7, <2>8, <2>9, QueueFits DEF PhonePart
  <2>11. PhoneTypes'
    BY <1>2, <2>8, <2>10 DEF PhonePart, PhoneTypes
  <2> QED BY <1>2, <2>10, <2>11 DEF PhonePart, SaveFits, Backed
<1>5. ASSUME NEW goods \in BOOLEAN, Has(p),
             item' = [item EXCEPT ![p] = Merge(@, Found(goods))],
             Queue(p, <<Update(p, Found(goods), q.job)>>)
      PROVE  PhonePart'
  <2> DEFINE c == Found(goods)
             ops == <<Update(p, c, q.job)>>
  <2>1. Good(c) /\ ~Saves(c)
    BY PatchesGood
  <2>2. item[p] \in Item
    BY <1>1, <1>5 DEF PhonePart, PhoneTypes, Has
  <2>3. item' = [item EXCEPT ![p] = Merge(item[p], c)] /\ Queue(p, ops)
    BY <1>5
  <2> HIDE DEF c
  <2>4. Merge(item[p], c) \in Item /\ (Merge(item[p], c).st = "saved" => p \in Backed)
    BY <1>1, <2>1, <2>2, MergeGood DEF Saves, PhonePart, PhotoFits
  <2>5. Update(p, c, q.job) \in Op /\ OpFits(p, Update(p, c, q.job))
    BY <1>1, <2>1, UpdateFits DEF PhonePart
  <2>6. ops \in Seq(Op) /\ \A k \in DOMAIN ops : OpFits(p, ops[k])
    BY <2>5
  <2>7. /\ item' \in [Photo -> Item \cup {NoItem}]
        /\ \A o \in Photo \ {p} : item'[o] = item[o]
        /\ item'[p].st = "saved" => p \in Backed
    BY <1>1, <2>3, <2>4 DEF PhonePart, PhoneTypes
  <2>8. p \in taken \cup Safe
    BY <1>1, <1>5 DEF PhonePart, PhotoFits, Has
  <2> HIDE DEF ops, p
  <2>9. idb' \in [Photo -> Seq(Op)] /\ \A o \in Photo : PhotoFits(o)'
    BY <1>1, <1>2, <2>3, <2>6, <2>7, <2>8, QueueFits DEF PhonePart
  <2>10. PhoneTypes'
    BY <1>2, <2>7, <2>9 DEF PhonePart, PhoneTypes
  <2> QED BY <1>2, <2>9, <2>10 DEF PhonePart, SaveFits, Backed
<1>6. \/ UNCHANGED <<item, idb>>
      \/ Has(p) /\ JobOver(p)
      \/ \E goods \in BOOLEAN :
           /\ Has(p) /\ item' = [item EXCEPT ![p] = Merge(@, Found(goods))]
           /\ Queue(p, <<Update(p, Found(goods), q.job)>>)
  BY Zenon DEF PollAnswered
<1> QED BY <1>3, <1>4, <1>5, <1>6

LEMMA SaveStartsFits ==
  ASSUME PhonePart, NEW p \in Photo, SaveStarts(p)
  PROVE  PhonePart'
<1>1. Has(p)
  BY NotSaved DEF SaveStarts, Eligible, Has
<1>2. UNCHANGED <<blobs, rec, enabled, view, awake, prep, polls, confirmed,
                  writes, fresh, listed, taken, given>>
  BY DEF SaveStarts
<1>3. CASE item[p].goods
  <2>1. Patch(p, [st |-> "saving"]) /\ save' = [photo |-> p, step |-> "sent"]
    BY <1>3 DEF SaveStarts
  <2>2. Good([st |-> "saving"]) /\ ~Saves([st |-> "saving"])
    BY PatchesGood
  <2>3. /\ item' \in [Photo -> Item \cup {NoItem}]
        /\ idb' \in [Photo -> Seq(Op)] /\ \A q \in Photo : PhotoFits(q)'
    BY <1>1, <1>2, <2>1, <2>2, PatchFits DEF PhonePart
  <2>4. save' \in [photo : Photo, step : {"sent", "held", "landed", "broken"}]
        /\ save'.step = "sent"
    BY <2>1
  <2>5. PhoneTypes'
    BY <1>2, <2>3, <2>4 DEF PhonePart, PhoneTypes
  <2> QED BY <2>3, <2>4, <2>5 DEF PhonePart, SaveFits
<1>4. CASE ~item[p].goods
  <2> DEFINE c == Failure(p, "queued", "detect", FALSE)
  <2>1. Good(c) /\ ~Saves(c)
    BY <1>1, FailureGood DEF PhonePart
  <2>2. Patch(p, c) /\ save' = save
    BY <1>4 DEF SaveStarts
  <2> HIDE DEF c
  <2> QED BY <1>1, <1>2, <2>1, <2>2, PatchStep DEF PhonePart, PhoneTypes
<1> QED BY <1>3, <1>4

\* The products of p reach the catalogue.
LEMMA LandFits ==
  ASSUME PhonePart, NEW p \in Photo, Land(p),
         UNCHANGED <<item, rec, idb, confirmed, taken, given>>
  PROVE  /\ \A q \in Photo : PhotoFits(q)'
         /\ listed' \subseteq Photo /\ fresh' \subseteq Shelf /\ p \in Backed'
         /\ listed \subseteq listed'
<1>1. \A q \in Photo : ShelfOf[q] \in fresh' \ fresh => q \in Backed'
  BY DEF Land, Backed
<1>2. listed \subseteq listed' /\ p \in Backed' /\ ShelfOf[p] \in Shelf
  BY QueueAssumption DEF Land, Backed
<1>3. \A q \in Photo : PhotoFits(q)'
  BY <1>1, <1>2, SameFits DEF PhonePart
<1> QED BY <1>2, <1>3 DEF Land, PhonePart, PhoneTypes

LEMMA SaveServedFits ==
  ASSUME PhonePart, SaveServed
  PROVE  PhonePart'
<1>1. /\ save \in [photo : Photo, step : {"sent", "held", "landed", "broken"}]
      /\ save.photo \in Photo
  BY DEF SaveServed, PhonePart, PhoneTypes, NoSave
<1>2. UNCHANGED <<item, blobs, rec, idb, enabled, view, awake, prep, polls,
                  confirmed, writes, taken, given>>
  BY DEF SaveServed
<1>3. CASE (SaveTo("broken") \/ SaveTo("held")) /\ UNCHANGED <<listed, fresh>>
  <2>1. save' \in [photo : Photo, step : {"sent", "held", "broken"}]
    BY <1>1, <1>3 DEF SaveTo
  <2> QED BY <1>2, <1>3, <2>1, SameStep DEF PhonePart, PhoneTypes
<1>4. CASE SaveTo("landed") /\ Land(save.photo)
  <2>1. /\ save' \in [photo : Photo, step : {"sent", "held", "landed", "broken"}]
        /\ save'.photo = save.photo
    BY <1>1, <1>4 DEF SaveTo
  <2>2. /\ \A q \in Photo : PhotoFits(q)'
        /\ listed' \subseteq Photo /\ fresh' \subseteq Shelf /\ save.photo \in Backed'
    BY <1>1, <1>2, <1>4, LandFits
  <2>3. PhoneTypes'
    BY <1>2, <2>1, <2>2 DEF PhonePart, PhoneTypes
  <2> QED BY <2>1, <2>2, <2>3 DEF PhonePart, SaveFits
<1> QED BY <1>3, <1>4 DEF SaveServed

LEMMA SaveBrokenFits ==
  ASSUME PhonePart, SaveBroken
  PROVE  PhonePart'
<1>1. /\ save \in [photo : Photo, step : {"sent", "held", "landed", "broken"}]
      /\ save.photo \in Photo
  BY DEF SaveBroken, PhonePart, PhoneTypes, NoSave
<1>2. save' \in [photo : Photo, step : {"sent", "held", "broken"}]
  BY <1>1 DEF SaveBroken, SaveTo
<1>3. writes' \subseteq Photo
  BY <1>1 DEF SaveBroken, PhonePart, PhoneTypes
<1> QED BY <1>2, <1>3, SameStep DEF SaveBroken, PhonePart, PhoneTypes

LEMMA WriteLandsFits ==
  ASSUME PhonePart, NEW p \in Photo, WriteLands(p)
  PROVE  PhonePart'
<1>1. UNCHANGED <<item, blobs, rec, idb, enabled, view, awake, prep, polls, save,
                  confirmed, taken, given>>
  BY DEF WriteLands
<1>2. /\ \A q \in Photo : PhotoFits(q)'
      /\ listed' \subseteq Photo /\ fresh' \subseteq Shelf /\ listed \subseteq listed'
  BY <1>1, LandFits DEF WriteLands
<1>3. writes' \subseteq Photo
  BY DEF WriteLands, PhonePart, PhoneTypes
<1>4. PhoneTypes'
  BY <1>1, <1>2, <1>3 DEF PhonePart, PhoneTypes
<1> QED BY <1>1, <1>2, <1>4 DEF PhonePart, SaveFits, Backed

\* A save that counts as done has landed.
LEMMA SaveEndsFits ==
  ASSUME PhonePart, SaveEnds
  PROVE  PhonePart'
<1> DEFINE p == save.photo
           on == enabled /\ save.step # "held"
           ok == \/ save.step = "landed"
                 \/ save.step = "broken" /\ on /\ Verified(p)
<1>1. p \in Photo
  BY DEF SaveEnds, PhonePart, PhoneTypes, NoSave
<1>2. ok => p \in Backed
  BY <1>1 DEF Verified, PhonePart, SaveFits, PhotoFits
<1>3. /\ save' = NoSave /\ enabled' = on
      /\ UNCHANGED <<rec, view, awake, prep, polls, writes, fresh, listed, taken, given>>
  BY DEF SaveEnds
<1>4. on \in BOOLEAN
  OBVIOUS
<1>5. \/ ~Has(p) /\ UNCHANGED <<item, blobs, idb, confirmed>>
      \/ Has(p) /\ ~on
         /\ Patch(p, [st |-> IF ok THEN "saved" ELSE "detected"])
         /\ confirmed' = confirmed \cup (IF ok THEN {p} ELSE {})
         /\ UNCHANGED blobs
      \/ Has(p) /\ on /\ ok /\ Saved(p)
      \/ Has(p) /\ on /\ ~ok
         /\ Patch(p, Failure(p, "detected", "save", TRUE))
         /\ UNCHANGED <<blobs, confirmed>>
  BY Zenon DEF SaveEnds
<1> HIDE DEF p, on, ok
<1> DEFINE Kept ==
      /\ item' \in [Photo -> Item \cup {NoItem}] /\ idb' \in [Photo -> Seq(Op)]
      /\ (\A q \in Photo : PhotoFits(q)')
      /\ confirmed' \subseteq Photo /\ blobs' \subseteq Photo
<1>6. ASSUME ~Has(p) /\ UNCHANGED <<item, blobs, idb, confirmed>>
      PROVE  Kept
  <2>1. \A q \in Photo : PhotoFits(q)'
    BY <1>3, <1>6, SameFits DEF PhonePart
  <2> QED BY <1>6, <2>1 DEF PhonePart, PhoneTypes
<1>7. ASSUME Has(p) /\ Patch(p, [st |-> IF ok THEN "saved" ELSE "detected"])
             /\ confirmed' = confirmed \cup (IF ok THEN {p} ELSE {}),
             UNCHANGED blobs
      PROVE  Kept
  <2> DEFINE c == [st |-> IF ok THEN "saved" ELSE "detected"]
  <2>1. Good(c) /\ (Saves(c) => p \in Backed)
    <3>1. CASE ok
      BY <1>2, <3>1, PatchesGood
    <3>2. CASE ~ok
      BY <3>2, PatchesGood
    <3> QED BY <3>1, <3>2
  <2>2. Patch(p, c) /\ confirmed' \subseteq confirmed \cup Backed
    BY <1>2, <1>7
  <2> HIDE DEF c
  <2>3. /\ item' \in [Photo -> Item \cup {NoItem}]
        /\ idb' \in [Photo -> Seq(Op)] /\ \A q \in Photo : PhotoFits(q)'
    BY <1>1, <1>3, <1>7, <2>1, <2>2, PatchFits DEF PhonePart
  <2> QED BY <1>1, <1>7, <2>3 DEF PhonePart, PhoneTypes
<1>8. ASSUME Has(p) /\ ok /\ Saved(p)
      PROVE  Kept
  <2> DEFINE ops == <<Delete>>
  <2>1. item[p] \in Item /\ p \in Backed
    BY <1>1, <1>2, <1>8 DEF PhonePart, PhoneTypes, Has
  <2>2. \A r \in Item : [r EXCEPT !.st = "saved", !.why = "none"] \in Item
    BY DEF Item
  <2>3. item' = [item EXCEPT ![p] = [item[p] EXCEPT !.st = "saved", !.why = "none"]]
    BY <1>1, <1>8 DEF Saved, PhonePart, PhoneTypes
  <2>4. /\ item' \in [Photo -> Item \cup {NoItem}]
        /\ \A q \in Photo \ {p} : item'[q] = item[q]
    BY <1>1, <2>1, <2>2, <2>3 DEF PhonePart, PhoneTypes
  <2>5. ops \in Seq(Op) /\ \A k \in DOMAIN ops : ops[k] = Delete
    BY NotSaved
  <2>6. Queue(p, ops) /\ confirmed' = confirmed /\ blobs' \subseteq Photo
    BY <1>8 DEF Saved, PhonePart, PhoneTypes
  <2> HIDE DEF ops
  <2>7. idb' \in [Photo -> Seq(Op)] /\ \A q \in Photo : PhotoFits(q)'
    BY <1>1, <1>3, <2>1, <2>4, <2>5, <2>6, QueueFits DEF PhonePart, Safe, Backed
  <2> QED BY <2>4, <2>6, <2>7 DEF PhonePart, PhoneTypes
<1>9. ASSUME Has(p) /\ Patch(p, Failure(p, "detected", "save", TRUE)),
             UNCHANGED <<blobs, confirmed>>
      PROVE  Kept
  <2> DEFINE c == Failure(p, "detected", "save", TRUE)
  <2>1. Good(c) /\ ~Saves(c)
    BY <1>1, <1>9, FailureGood DEF PhonePart
  <2>2. Patch(p, c)
    BY <1>9
  <2> HIDE DEF c
  <2>3. /\ item' \in [Photo -> Item \cup {NoItem}]
        /\ idb' \in [Photo -> Seq(Op)] /\ \A q \in Photo : PhotoFits(q)'
    BY <1>1, <1>3, <1>9, <2>1, <2>2, PatchFits DEF PhonePart
  <2> QED BY <1>9, <2>3 DEF PhonePart, PhoneTypes
<1>10. Kept
  BY <1>5, <1>6, <1>7, <1>8, <1>9
<1>11. PhoneTypes'
  BY <1>3, <1>4, <1>10 DEF PhonePart, PhoneTypes, on
<1> QED BY <1>3, <1>10, <1>11 DEF PhonePart, SaveFits, NoSave

LEMMA TimeFits ==
  ASSUME PhonePart, NEW s \in Shelf, TimePasses(s)
  PROVE  PhonePart'
BY SameStep DEF TimePasses, PhonePart, PhoneTypes

LEMMA RestsFits ==
  ASSUME PhonePart, PumpRests
  PROVE  PhonePart'
BY SameStep DEF PumpRests, PhonePart, PhoneTypes

LEMMA RefreshFailsFits ==
  ASSUME PhonePart, RefreshFails
  PROVE  PhonePart'
BY SameStep DEF RefreshFails, Pause, PhonePart, PhoneTypes

LEMMA WaitOverFits ==
  ASSUME PhonePart, NEW p \in Photo, WaitOver(p)
  PROVE  PhonePart'
<1>1. item[p] \in Item
  BY NotSaved DEF WaitOver, PhonePart, PhoneTypes
<1>2. \A r \in Item : [r EXCEPT !.wait = FALSE] \in Item
                      /\ [r EXCEPT !.wait = FALSE].st = r.st
  BY DEF Item
<1>3. item' = [item EXCEPT ![p] = [item[p] EXCEPT !.wait = FALSE]]
  BY DEF WaitOver, PhonePart, PhoneTypes
<1>4. /\ awake' \in BOOLEAN
      /\ UNCHANGED <<blobs, rec, idb, enabled, view, prep, polls, save, confirmed,
                     writes, fresh, listed, taken, given>>
  BY DEF WaitOver
<1>5. /\ item' \in [Photo -> Item \cup {NoItem}]
      /\ \A q \in Photo : item'[q].st = item[q].st
                          /\ (item[q] = NoItem => item'[q] = NoItem)
  BY <1>1, <1>2, <1>3, NotSaved DEF PhonePart, PhoneTypes
<1>6. \A q \in Photo : PhotoFits(q)'
  BY <1>4, <1>5 DEF PhonePart, PhotoFits, OpFits, Safe, Backed
<1>7. PhoneTypes'
  BY <1>4, <1>5 DEF PhonePart, PhoneTypes
<1> QED BY <1>4, <1>6, <1>7 DEF PhonePart, SaveFits, Backed

LEMMA RevivedGood ==
  ASSUME PhoneTypes, NEW p \in Photo, Revived(p) # <<>>
  PROVE  Has(p) /\ Good(Revived(p)[1]) /\ ~Saves(Revived(p)[1])
<1>1. CASE item[p].wait
  BY <1>1, NotSaved, PatchesGood DEF Revived, Has, PhoneTypes
<1>2. CASE ~item[p].wait
  <2>1. /\ item[p].st = "failed" /\ item[p].why = "network"
        /\ Revived(p) = <<[st |-> "queued", att |-> 0, why |-> "none", wait |-> FALSE]>>
    BY <1>2 DEF Revived
  <2>2. Has(p)
    BY <2>1, NotSaved DEF Has
  <2> QED BY <2>1, <2>2, PatchesGood
<1> QED BY <1>1, <1>2

LEMMA OnlineFits ==
  ASSUME PhonePart, Online
  PROVE  PhonePart'
<1>1. /\ item' = [p \in Photo |-> IF Revived(p) = <<>> THEN item[p]
                                  ELSE Merge(item[p], Revived(p)[1])]
      /\ idb' = [p \in Photo |-> IF Revived(p) = <<>> THEN idb[p]
                                 ELSE <<Update(p, Revived(p)[1], NoJob)>>]
      /\ awake' = TRUE
      /\ UNCHANGED <<blobs, rec, enabled, view, prep, polls, save, confirmed,
                     writes, fresh, listed, taken, given>>
  BY DEF Online
<1>2. ASSUME NEW p \in Photo
      PROVE  item'[p] \in Item \cup {NoItem} /\ idb'[p] \in Seq(Op) /\ PhotoFits(p)'
  <2>1. CASE Revived(p) = <<>>
    <3>1. item'[p] = item[p] /\ idb'[p] = idb[p] /\ PhotoFits(p)
      BY <1>1, <2>1 DEF PhonePart
    <3> QED BY <1>1, <3>1 DEF PhonePart, PhoneTypes, PhotoFits, OpFits, Safe, Backed
  <2>2. CASE Revived(p) # <<>>
    <3> DEFINE c == Revived(p)[1]
               o == Update(p, c, NoJob)
    <3>1. Has(p) /\ Good(c) /\ ~Saves(c) /\ PhotoFits(p)
      BY <2>2, RevivedGood DEF PhonePart
    <3>2. item'[p] = Merge(item[p], c) /\ idb'[p] = <<o>>
      BY <1>1, <2>2
    <3> HIDE DEF c
    <3>3. o \in Op /\ OpFits(p, o)
      BY <3>1, UpdateFits DEF PhonePart
    <3> HIDE DEF o
    <3>4. item[p] \in Item /\ p \in taken \cup Safe
      BY <3>1 DEF PhonePart, PhoneTypes, Has, PhotoFits
    <3>5. item'[p] \in Item /\ (item'[p].st = "saved" => p \in Backed)
      BY <3>1, <3>2, <3>4, MergeGood DEF Saves, PhotoFits
    <3>6. \A k \in DOMAIN <<o>> : <<o>>[k] = o
      OBVIOUS
    <3>7. (\A k \in DOMAIN idb[p] : OpFits(p, idb[p][k]))'
      BY <1>1, <3>2, <3>3, <3>6 DEF OpFits, Safe, Backed
    <3>8. idb'[p] \in Seq(Op)
      BY <3>2, <3>3
    <3> QED BY <1>1, <3>1, <3>4, <3>5, <3>7, <3>8 DEF PhotoFits, Safe, Backed
  <2> QED BY <2>1, <2>2
<1>3. item' \in [Photo -> Item \cup {NoItem}] /\ idb' \in [Photo -> Seq(Op)]
  BY <1>1, <1>2
<1>4. PhoneTypes'
  BY <1>1, <1>3 DEF PhonePart, PhoneTypes
<1> QED BY <1>1, <1>2, <1>4 DEF PhonePart, SaveFits, Backed

LEMMA RefreshFits ==
  ASSUME PhonePart, JobsTypeOK, Refresh
  PROVE  PhonePart'
<1>1. /\ view' = gate /\ gate \in {"open", "preparing"}
      /\ UNCHANGED <<item, rec, prep, polls, save, writes, fresh, listed, taken, given>>
  BY DEF Refresh, JobsTypeOK
<1>2. CASE Pause
  BY <1>1, <1>2, SameStep DEF Pause, PhonePart, PhoneTypes
<1>3. CASE Resume
  <2>1. /\ enabled' = TRUE /\ awake' = TRUE /\ confirmed' = {} /\ blobs' \subseteq Photo
        /\ idb' = [p \in Photo |-> IF p \in confirmed THEN Append(idb[p], Delete) ELSE idb[p]]
    BY <1>3 DEF Resume, PhonePart, PhoneTypes
  <2>2. ASSUME NEW p \in Photo PROVE idb'[p] \in Seq(Op) /\ PhotoFits(p)'
    <3>1. CASE p \notin confirmed
      <4>1. idb'[p] = idb[p] /\ PhotoFits(p) /\ idb[p] \in Seq(Op)
        BY <2>1, <3>1 DEF PhonePart, PhoneTypes
      <4> QED BY <1>1, <2>1, <4>1 DEF PhotoFits, OpFits, Safe, Backed
    <3>2. CASE p \in confirmed
      <4>1. /\ idb'[p] = Append(idb[p], Delete) /\ PhotoFits(p) /\ idb[p] \in Seq(Op)
            /\ p \in Backed
        BY <2>1, <3>2 DEF PhonePart, PhoneTypes, PhotoFits
      <4>2. /\ Append(idb[p], Delete) \in Seq(Op)
            /\ \A k \in DOMAIN Append(idb[p], Delete) :
                 Append(idb[p], Delete)[k] \in Op
        BY <4>1, NotSaved
      <4>3. (\A k \in DOMAIN idb[p] : OpFits(p, idb[p][k]))'
        BY <1>1, <4>1 DEF OpFits, Safe, Backed
      <4> QED BY <1>1, <2>1, <4>1, <4>2, <4>3 DEF PhotoFits, Safe, Backed
    <3> QED BY <3>1, <3>2
  <2>3. idb' \in [Photo -> Seq(Op)]
    BY <2>1, <2>2
  <2>4. PhoneTypes'
    BY <1>1, <2>1, <2>3 DEF PhonePart, PhoneTypes
  <2> QED BY <1>1, <2>2, <2>4 DEF PhonePart, SaveFits, Backed
<1> QED BY <1>2, <1>3 DEF Refresh

LEMMA RestoredFits ==
  /\ \A r \in Item : Restored(r) \in Item /\ (Restored(r).st = "saved" => r.st = "saved")
  /\ Restored(NoItem) = NoItem
<1>1. \A r \in Item, st \in {"queued", "detected"} :
        [r EXCEPT !.st = st] \in Item /\ [r EXCEPT !.st = st].st = st
  BY DEF Item
<1>2. ASSUME NEW r \in Item
      PROVE  Restored(r) \in Item /\ (Restored(r).st = "saved" => r.st = "saved")
  BY <1>1 DEF Restored
<1>3. Restored(NoItem) = NoItem
  BY NotSaved DEF Restored
<1> QED BY <1>2, <1>3

LEMMA ReloadFits ==
  ASSUME PhonePart, Reload
  PROVE  PhonePart'
<1>1. /\ item' = [p \in Photo |-> Restored(rec[p])]
      /\ idb' = [p \in Photo |-> <<>>]
      /\ confirmed' = {p \in Photo : Restored(rec[p]).st = "saved"}
      /\ blobs' \subseteq Photo /\ enabled' = FALSE /\ view' = "none" /\ awake' = FALSE
      /\ prep' = {} /\ polls' = {} /\ save' = NoSave
      /\ UNCHANGED <<rec, fresh, listed, taken, given>>
  BY DEF Reload
<1>2. writes' \subseteq Photo
  BY DEF Reload, PhonePart, PhoneTypes
<1>3. ASSUME NEW p \in Photo
      PROVE  /\ item'[p] \in Item \cup {NoItem} /\ (rec[p] = NoItem => item'[p] = NoItem)
             /\ Restored(rec[p]).st = "saved" => p \in Backed
             /\ PhotoFits(p)'
  <2>1. item'[p] = Restored(rec[p]) /\ idb'[p] = <<>> /\ PhotoFits(p)
    BY <1>1 DEF PhonePart
  <2>2. /\ Restored(rec[p]) \in Item \cup {NoItem}
        /\ rec[p] = NoItem => Restored(rec[p]) = NoItem
        /\ Restored(rec[p]).st = "saved" => p \in Backed
    BY <2>1, RestoredFits, NotSaved DEF PhonePart, PhoneTypes, PhotoFits
  <2>3. (\A k \in DOMAIN idb[p] : OpFits(p, idb[p][k]))'
    BY <2>1
  <2> QED BY <1>1, <2>1, <2>2, <2>3 DEF PhotoFits, Safe, Backed
<1>4. item' \in [Photo -> Item \cup {NoItem}] /\ idb' \in [Photo -> Seq(Op)]
  BY <1>1, <1>3
<1>5. PhoneTypes'
  BY <1>1, <1>2, <1>4 DEF PhonePart, PhoneTypes
<1> QED BY <1>1, <1>3, <1>5 DEF PhonePart, SaveFits, NoSave

LEMMA CrashFits ==
  ASSUME PhonePart, ServerCrash
  PROVE  PhonePart'
<1>1. /\ writes' = {}
      /\ UNCHANGED <<item, blobs, rec, idb, enabled, view, awake, prep, polls,
                     confirmed, fresh, listed, taken, given>>
  BY DEF ServerCrash
<1>2. \/ save' = save
      \/ save' = [save EXCEPT !.step = "broken"]
         /\ save \in [photo : Photo, step : {"sent", "held", "landed", "broken"}]
  BY DEF ServerCrash, PhonePart, PhoneTypes, NoSave
<1> QED BY <1>1, <1>2, SameStep DEF PhonePart, PhoneTypes

\* The server's steps leave the phone alone.
LEMMA ServerFits ==
  ASSUME PhonePart, UNCHANGED phoneVars
  PROVE  PhonePart'
BY SameStep DEF phoneVars, PhonePart, PhoneTypes

LEMMA PhoneNext == PhonePart /\ JobsTypeOK /\ [Next]_vars => PhonePart'
<1> SUFFICES ASSUME PhonePart, JobsTypeOK, [Next]_vars
             PROVE  PhonePart'
  OBVIOUS
<1>1. CASE UNCHANGED vars
  BY <1>1, ServerFits DEF vars
<1>2. CASE Server
  BY <1>2, ServerFits DEF Server
<1>3. CASE ServerCrash
  BY <1>3, CrashFits
<1>4. ASSUME NEW p \in Photo,
             \/ IdbStep(p) \/ Enqueue(p) \/ RetryItem(p) \/ RemoveItem(p)
             \/ Submit(p) \/ SubmitSends(p) \/ SubmitUnreadable(p)
             \/ PollAsks(p) \/ SaveStarts(p) \/ WriteLands(p) \/ WaitOver(p)
      PROVE  PhonePart'
  BY <1>4, IdbStepFits, EnqueueFits, RetryFits, RemoveFits, SubmitFits, SubmitSendsFits,
     UnreadableFits, PollAsksFits, SaveStartsFits, WriteLandsFits, WaitOverFits
<1>5. ASSUME NEW r \in posts, SubmitAnswered(r) PROVE PhonePart'
  BY <1>5, AnsweredFits
<1>6. ASSUME NEW q \in polls, PollAnswered(q) \/ PollLost(q) PROVE PhonePart'
  BY <1>6, PollAnsweredFits, PollLostFits
<1>7. CASE SaveServed \/ SaveBroken \/ SaveEnds
  BY <1>7, SaveServedFits, SaveBrokenFits, SaveEndsFits
<1>8. ASSUME NEW s \in Shelf, TimePasses(s) PROVE PhonePart'
  BY <1>8, TimeFits
<1>9. CASE PumpRests \/ Online \/ Refresh \/ RefreshFails \/ Reload
  BY <1>9, RestsFits, OnlineFits, RefreshFits, RefreshFailsFits, ReloadFits
<1> QED BY <1>1, <1>2, <1>3, <1>4, <1>5, <1>6, <1>7, <1>8, <1>9 DEF Next

\* What the phone does to the server is what any phone may do.
LEMMA JobsStep == PhonePart /\ JobsTypeOK /\ [Next]_vars => [JobsNext]_jobsVars
<1> SUFFICES ASSUME PhonePart, JobsTypeOK, [Next]_vars
             PROVE  [JobsNext]_jobsVars
  OBVIOUS
<1>1. CASE UNCHANGED vars
  BY <1>1 DEF vars
<1>2. CASE Server \/ ServerCrash
  BY <1>2 DEF Server, ServerCrash, JobsNext
<1>3. ASSUME NEW p \in Photo, IdbStep(p) PROVE [JobsNext]_jobsVars
  <2> DEFINE id == Head(idb[p]).ack
  <2>1. id \in JobId \cup {NoJob}
    <3>1. idb[p] \in Seq(Op) /\ idb[p] # <<>>
      BY <1>3 DEF IdbStep, PhonePart, PhoneTypes
    <3>2. Head(idb[p]) \in Op
      BY <3>1
    <3> QED BY <3>2 DEF Op
  <2>2. /\ UNCHANGED <<doc, disk, posts, runs, victims, proc, gate, faults>>
        /\ acks' = acks \/ (id # NoJob /\ AckSend(p, id))
    BY <1>3 DEF IdbStep, Acknowledge
  <2> HIDE DEF id
  <2>3. acks' = acks \/ AnyAck(p, id)
    BY <2>2 DEF AnyAck
  <2>4. AckSend(p, id) /\ id # NoJob => id \in JobId
    BY <2>1
  <2> QED BY <2>2, <2>3, <2>4 DEF JobsNext, jobsVars, AnyAck
<1>4. ASSUME NEW p \in Photo, Enqueue(p) \/ SubmitUnreadable(p) PROVE [JobsNext]_jobsVars
  BY <1>4 DEF Enqueue, SubmitUnreadable, AnyTrouble, JobsNext, jobsVars
<1>5. ASSUME NEW p \in Photo, SubmitSends(p) PROVE [JobsNext]_jobsVars
  BY <1>5 DEF SubmitSends, AnyPost, JobsNext, jobsVars
<1>6. ASSUME NEW p \in Photo,
             \/ RetryItem(p) \/ RemoveItem(p) \/ Submit(p) \/ PollAsks(p)
             \/ SaveStarts(p) \/ WriteLands(p) \/ WaitOver(p)
      PROVE  [JobsNext]_jobsVars
  BY <1>6 DEF RetryItem, RemoveItem, Submit, PollAsks, SaveStarts, WriteLands, WaitOver
<1>7. ASSUME NEW r \in posts, SubmitAnswered(r) PROVE [JobsNext]_jobsVars
  BY <1>7 DEF SubmitAnswered, AnyRead, JobsNext
<1>8. ASSUME NEW q \in polls, PollAnswered(q) PROVE [JobsNext]_jobsVars
  <2>1. q.photo \in Photo /\ q.job \in JobId
    BY DEF PhonePart, PhoneTypes
  <2>2. AnyLookup(q.photo, q.job)
    BY <1>8 DEF PollAnswered, AnyLookup
  <2> QED BY <2>1, <2>2 DEF JobsNext
<1>9. ASSUME NEW q \in polls, PollLost(q) PROVE [JobsNext]_jobsVars
  BY <1>9 DEF PollLost, AnyTrouble, JobsNext
<1>10. CASE SaveServed \/ SaveEnds \/ PumpRests \/ Online \/ Refresh \/ RefreshFails
  BY <1>10 DEF SaveServed, SaveEnds, PumpRests, Online, Refresh, RefreshFails
<1>11. CASE SaveBroken \/ Reload
  BY <1>11 DEF SaveBroken, Reload, AnyTrouble, JobsNext
<1>12. ASSUME NEW s \in Shelf, TimePasses(s) PROVE [JobsNext]_jobsVars
  BY <1>12 DEF TimePasses
<1> QED BY <1>1, <1>2, <1>3, <1>4, <1>5, <1>6, <1>7, <1>8, <1>9, <1>10, <1>11, <1>12
        DEF Next

LEMMA PhoneInit == Init => PhonePart /\ JobsTypeOK
<1> SUFFICES ASSUME Init PROVE PhonePart /\ JobsTypeOK
  OBVIOUS
<1>1. JobsTypeOK
  BY ScanAssumption DEF Init, JobsInit, JobsTypeOK
<1>2. PhoneTypes
  <2>1. <<>> \in Seq(Op) /\ NoItem \in Item \cup {NoItem}
    OBVIOUS
  <2>2. /\ item = [p \in Photo |-> NoItem] /\ rec = [p \in Photo |-> NoItem]
        /\ idb = [p \in Photo |-> <<>>]
        /\ enabled = TRUE /\ awake = FALSE /\ view = "open" /\ save = NoSave
        /\ blobs = {} /\ prep = {} /\ polls = {} /\ confirmed = {} /\ writes = {}
        /\ fresh = {} /\ listed = {} /\ taken = {} /\ given = {}
    BY DEF Init
  <2> QED BY <2>1, <2>2 DEF PhoneTypes
<1>3. \A p \in Photo : PhotoFits(p)
  BY NotSaved DEF Init, PhotoFits
<1>4. SaveFits
  BY DEF Init, SaveFits, NoSave
<1> QED BY <1>1, <1>2, <1>3, <1>4 DEF PhonePart

LEMMA PhoneAlways == Spec => [](PhonePart /\ JobsTypeOK)
<1>1. PhonePart /\ JobsTypeOK /\ [Next]_vars => (PhonePart /\ JobsTypeOK)'
  BY PhoneNext, JobsStep, TypeNext
<1> QED BY <1>1, PhoneInit, PTL DEF Spec

----------------------------------------------------------------------------
(* What follows of every behaviour.                                        *)

\* The types of the phone and of the server hold in every reachable state.
THEOREM QueueTypeCorrect == Spec => []TypeOK
<1>1. PhonePart /\ JobsTypeOK => TypeOK
  <2> SUFFICES ASSUME PhonePart, JobsTypeOK PROVE TypeOK
    OBVIOUS
  <2>1. \A p \in Photo : \A k \in DOMAIN idb[p] : idb[p][k] \in Op
    BY DEF PhonePart, PhoneTypes
  <2> QED BY <2>1 DEF PhonePart, PhoneTypes, TypeOK, Op
<1> QED BY <1>1, PhoneAlways, PTL

\* Whatever the pump, the polls, the reloads and the acknowledgements do, the
\* server sees nothing but submissions, lookups and acknowledgements of phones.
THEOREM QueueImplementsJobs == Spec => JobsSpec
<1>1. Init => JobsInit
  BY DEF Init
<1> QED BY <1>1, JobsStep, PhoneAlways, PTL DEF Spec, JobsSpec

\* So what is proved of the queue with any phones holds with this one: runs own
\* their jobs, poison is parked, a finished job is not paid for again.
THEOREM ComposedJobsKept ==
  Spec => []RunOwnsJob /\ []PoisonParks /\ DoneStaysDone
BY QueueImplementsJobs, RunsOwnJobs, PoisonParked, DoneJobsStayDone, PTL

\* A record is dropped only by a transaction, and only of a photo that is safe.
LEMMA ReleaseStep ==
  ASSUME PhonePart, NEW p \in Photo, IdbStep(p)
  PROVE  /\ \A q \in Photo \ {p} : rec'[q] = rec[q]
         /\ rec[p] # NoItem /\ rec'[p] = NoItem => p \in Safe
<1>1. idb[p] \in Seq(Op) /\ idb[p] # <<>>
  BY DEF PhonePart, PhoneTypes, IdbStep
<1>2. rec' = [rec EXCEPT ![p] = Head(idb[p]).data] /\ Head(idb[p]) = idb[p][1]
      /\ 1 \in DOMAIN idb[p]
  BY <1>1 DEF IdbStep
<1>3. OpFits(p, Head(idb[p]))
  BY <1>2 DEF PhonePart, PhotoFits
<1> QED BY <1>2, <1>3 DEF OpFits, PhonePart, PhoneTypes

LEMMA NewRecord ==
  ASSUME PhonePart, NEW p \in Photo, Enqueue(p)
  PROVE  /\ \A q \in Photo \ {p} : rec'[q] = rec[q]
         /\ rec' = rec \/ rec'[p] # NoItem
BY NotSaved DEF Enqueue, PhonePart, PhoneTypes

\* However many photos of however many shelves are under way, a photo that is
\* taken for saved has products of its shelf in the catalogue: no crash, reload,
\* pause, late answer or order of the pending transactions marks another one.
\* That they are its own is more than the code promises (scan_false_save).
THEOREM SavedPhotosBacked == Spec => []SavedIsBacked
<1>1. PhonePart => SavedIsBacked
  BY DEF PhonePart, PhoneTypes, PhotoFits, Backed, SavedIsBacked
<1> QED BY <1>1, PhoneAlways, PTL

LEMMA LifeStep ==
  ASSUME PhonePart, [Next]_vars
  PROVE  [Life!Next]_(Life!lifeVars)
<1> DEFINE kept == {p \in Photo : rec[p] # NoItem}
<1>1. CASE UNCHANGED vars \/ Server
  BY <1>1 DEF Life!lifeVars, vars, phoneVars, Server
<1>2. ASSUME NEW p \in Photo, Enqueue(p) PROVE [Life!Next]_(Life!lifeVars)
  <2>1. /\ \A q \in Photo \ {p} : rec'[q] = rec[q]
        /\ rec' = rec \/ rec'[p] # NoItem
        /\ UNCHANGED <<listed, given>>
    BY <1>2, NewRecord DEF Enqueue
  <2>2. kept' = kept \/ (p \notin kept /\ kept' = kept \cup {p})
    BY <2>1
  <2> QED BY <2>1, <2>2 DEF Life!Next, Life!lifeVars, Life!Keep
<1>3. ASSUME NEW p \in Photo, IdbStep(p) PROVE [Life!Next]_(Life!lifeVars)
  <2>1. /\ \A q \in Photo \ {p} : rec'[q] = rec[q]
        /\ rec[p] # NoItem /\ rec'[p] = NoItem => p \in Safe
        /\ UNCHANGED <<listed, given>>
    BY <1>3, ReleaseStep DEF IdbStep
  <2>2. p \in Safe => p \in given \/ \E q \in listed : ShelfOf[q] = ShelfOf[p]
    BY DEF Safe, Backed
  <2>3. \/ kept' = kept
        \/ p \notin kept /\ kept' = kept \cup {p}
        \/ p \in kept \cap Safe /\ kept' = kept \ {p}
    BY <2>1
  <2> QED BY <2>1, <2>2, <2>3 DEF Life!Next, Life!lifeVars, Life!Keep, Life!Release
<1>4. ASSUME NEW p \in Photo, RemoveItem(p) PROVE [Life!Next]_(Life!lifeVars)
  BY <1>4 DEF RemoveItem, Life!Next, Life!lifeVars, Life!GiveUp
<1>5. ASSUME NEW p \in Photo, Land(p), UNCHANGED <<rec, given>>
      PROVE  [Life!Next]_(Life!lifeVars)
  BY <1>5 DEF Land, Life!Next, Life!lifeVars, Life!List
<1>6. ASSUME NEW p \in Photo, WriteLands(p) PROVE [Life!Next]_(Life!lifeVars)
  BY <1>5, <1>6 DEF WriteLands
<1>7. CASE SaveServed
  <2>1. save.photo \in Photo
    BY <1>7 DEF SaveServed, PhonePart, PhoneTypes, NoSave
  <2>2. CASE UNCHANGED listed
    BY <1>7, <2>2 DEF SaveServed, Life!lifeVars
  <2>3. CASE Land(save.photo)
    BY <1>5, <1>7, <2>1, <2>3 DEF SaveServed
  <2> QED BY <1>7, <2>2, <2>3 DEF SaveServed
<1>8. UNCHANGED <<rec, listed, given>>
      \/ UNCHANGED vars \/ Server \/ SaveServed
      \/ \E p \in Photo : Enqueue(p) \/ IdbStep(p) \/ RemoveItem(p) \/ WriteLands(p)
  BY Zenon DEF Next, ServerCrash, RetryItem, Submit, SubmitSends,
     SubmitUnreadable, PollAsks, SaveStarts, WaitOver, SubmitAnswered,
     PollAnswered, PollLost, SaveBroken, SaveEnds, TimePasses, PumpRests,
     Online, Refresh, RefreshFails, Reload
<1>9. CASE UNCHANGED <<rec, listed, given>>
  BY <1>9 DEF Life!lifeVars
<1> QED BY <1>1, <1>2, <1>3, <1>4, <1>6, <1>7, <1>8, <1>9

\* The phone and the server together implement PhotoLife, with the records as
\* the photos that are kept: whatever fails and in whatever order, a record goes
\* only when the staff gave the photo up or its shelf is in the catalogue.
THEOREM PhotosKept == Spec => PhotoKept
<1>1. Init => Life!Init
  BY DEF Init, Life!Init
<1>2. PhonePart /\ [Next]_vars => [Life!Next]_(Life!lifeVars)
  BY LifeStep
<1> QED BY <1>1, <1>2, PhoneAlways, PTL DEF Spec, PhotoKept, Life!Spec
=============================================================================
