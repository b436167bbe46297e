---------------------------- MODULE ContentSteps ----------------------------
(***************************************************************************)
(* The inductive invariant of ContentCache, and that the handlers of       *)
(* requests preserve it.  Counts of entries and messages follow laws about *)
(* the size of finite sets; the lemmas on the handlers take these laws as  *)
(* a hypothesis, and ContentProofs proves them.                            *)
(***************************************************************************)
EXTENDS ContentCache, TLAPS

-----------------------------------------------------------------------------
(* The inductive invariant *)

Bit(P) == IF P THEN 1 ELSE 0
Child(n, r) == n \in DOMAIN Parent /\ Parent[n] = r

(* Only the children of a rank have requests deferred there. *)
Routes ==
    \A r \in Rank : /\ \A n \in Node, b \in Blob : <<n, b>> \in cache[r].loadReq
                                         \/ <<n, b>> \in cache[r].storeReq => Child(n, r)
                    /\ \A n \in cache[r].flushReq : Child(n, r)

(* The counters of one cache are right. *)
Counted(k, r) ==
    /\ k.acct = Cardinality(k.dirty) /\ k.batch = Cardinality(k.storing)
    /\ k.storing \subseteq k.dirty /\ k.dirty \subseteq k.valid
    /\ r = 0 => k.batch <= Limit

(* The messages about b that rank or client x has sent or is to receive.   *)
(* A rank that has none pending has none; one that has, has exactly one,   *)
(* or a backing store that was unloaded has taken it along.                *)
Moving(x, op, b) == Count(up[x], op, b) + Count(down[x], op, b)
Waits(k, x, op, b) == Bit(\/ op = "load" /\ <<x, b>> \in k.loadReq
                          \/ op = "store" /\ <<x, b>> \in k.storeReq)
Pending(k, op, b) == Bit(\/ op = "load" /\ b \in k.loading
                         \/ op = "store" /\ b \in k.storing)
Above(x, op, b) == IF x = 0 THEN 0 ELSE Waits(cache[Parent[x]], x, op, b)
Single(x, op, b) ==
    Moving(x, op, b) + Above(x, op, b) + Lost(x, op, b) = Pending(cache[x], op, b)
Singles == \A x \in Rank, op \in {"load", "store"}, b \in Blob : Single(x, op, b)

(* The blobs whose load or store is answered with success in a queue, and  *)
(* those whose store is.                                                   *)
Oks(q) == {b \in Blob : \E i \in DOMAIN q : q[i].b = b /\ q[i].err = "ok"}
Acks(q) == {b \in Blob : \E i \in DOMAIN q : q[i] = Rsp("store", b, "ok")}

(* Where content-sqlite is in its life, what the cache knows of it, and    *)
(* what it has asked.  Rank 0 answers it at once.                          *)
Asked ==
    /\ mod \in {"out", "drained"} => up[Module] = <<>> /\ ~backing
    /\ mod = "loading" => up[Module] \in {<<>>, <<Req("on", NoBlob)>>}
    /\ mod = "up" => up[Module] = <<>>
    /\ mod = "stopping" => \/ up[Module] = <<Req("off", NoBlob)>>
                           \/ up[Module] = <<>> /\ ~backing
    /\ mod = "dumping" => /\ ~backing
                          /\ \/ up[Module] = <<>>
                             \/ \E b \in db : up[Module] = <<Req("store", b)>>
Living ==
    /\ Asked
    /\ Module \notin waiting => up[Module] = <<>>
    /\ \A b \in Blob : <<Module, b>> \notin cache[0].loadReq
    /\ cache[0].storeReq = {} /\ Module \notin cache[0].flushReq
    /\ mod # "dumping" => dump = {}
    /\ dump \subseteq db
    /\ db \cap Huge = {} /\ cache[0].dirty \cap Huge = {}
    /\ Oks(down[0]) \subseteq db
    /\ Oks(down[0]) # {} => mod = "up" \/ (mod = "stopping" /\ up[Module] # <<>>)

Sound == Routes /\ (\A r \in Rank : Counted(cache[r], r)) /\ Singles /\ Living
Inv == TypeOK /\ (~aborted => Sound)

(* What rank r may say it has.  It is held at the root, or a failed load   *)
(* has removed it, or it is on its way from a rank above r that serves     *)
(* other ranks.                                                            *)
Good(r) == Held \cup discarded
             \cup {b \in Blob : \E s \in Inner : s < r /\ b \in cache[s].dirty}
Safe == Held \cup Climbing \cup discarded

(* What is clean on a rank, or answered with success, is good there; what  *)
(* is clean on rank 0 is in the backing store.                             *)
Clean(k) == k.valid \ k.dirty
Keeping == /\ Clean(cache[0]) \subseteq Backed
           /\ \A r \in Rank \ {0} : /\ Clean(cache[r]) \subseteq Good(r)
                                    /\ Oks(down[r]) \subseteq Good(r)
           /\ acked \subseteq Safe
Kept == ~aborted /\ ~closing => Keeping

USE ZenonT(60)

-----------------------------------------------------------------------------
(* The laws of counting *)

Fits(m, op, b) == m.op = op /\ m.b = b

(* How many messages of a queue of members of M are about b. *)
Counting(M) ==
    /\ \A op, b : Count(<<>>, op, b) = 0
    /\ \A m \in M : \A op, b : Count(<<m>>, op, b) = Bit(Fits(m, op, b))
    /\ \A q \in Seq(M) : \A op, b :
         /\ Count(q, op, b) \in Nat
         /\ Count(q, op, b) = 0 <=> \A i \in DOMAIN q : ~Fits(q[i], op, b)
    /\ \A p, q \in Seq(M) : \A op, b :
         Count(p \o q, op, b) = Count(p, op, b) + Count(q, op, b)
    /\ \A q \in Seq(M) : q # <<>> =>
         \A op, b : Count(q, op, b) = Count(Tail(q), op, b) + Bit(Fits(Head(q), op, b))

(* s lists c members of S, none twice. *)
Lists(s, c, S) == /\ c \in Nat /\ s \in [1 .. c -> S]
                  /\ \A i, j \in 1 .. c : s[i] = s[j] => i = j
Listed(s) == {s[i] : i \in DOMAIN s}
Listing ==
    \A s, c : Lists(s, c, Blob) => /\ Cardinality(Listed(s)) = c
                                   /\ \A op, b : Count(StoreReqs(s), op, b)
                                                 = Bit(op = "store" /\ b \in Listed(s))

(* How many blobs are in a set. *)
Sizes ==
    \A S \in SUBSET Blob :
      /\ Cardinality(S) \in Nat /\ (Cardinality(S) = 0 <=> S = {})
      /\ \A b \in Blob \ S : Cardinality(S \cup {b}) = Cardinality(S) + 1
      /\ \A b \in S : Cardinality(S \ {b}) = Cardinality(S) - 1
      /\ \A T \in SUBSET Blob : /\ S \cap T = {} =>
                                     Cardinality(S \cup T) = Cardinality(S) + Cardinality(T)
                                /\ Cardinality(S \ T) = Cardinality(S) - Cardinality(T \cap S)
Laws == Counting(Request) /\ Counting(Response) /\ Listing /\ Sizes

-----------------------------------------------------------------------------
(* What the operations on one cache do. *)

(* A blob that is stored is valid, and dirty if it was not valid before;   *)
(* those who wait for it to be loaded do so no longer.                     *)
FilledTo(k, r, b, f) ==
    /\ f \in Cache /\ Counted(f, r)
    /\ f.valid = k.valid \cup {b} /\ f.storing = k.storing /\ f.loading = k.loading
    /\ f.storeReq = k.storeReq /\ f.flushReq = k.flushReq /\ f.batch = k.batch
    /\ f.dirty = IF b \in k.valid THEN k.dirty ELSE k.dirty \cup {b}
    /\ f.loadReq = IF b \in k.valid THEN k.loadReq ELSE k.loadReq \ (Node \X {b})

(* Filled(), of cache_entry_fill(), does that. *)
LEMMA FilledIs ==
    ASSUME Laws, NEW k \in Cache, NEW r, Counted(k, r), NEW b \in Blob, NEW f, f = Filled(k, b)
    PROVE  FilledTo(k, r, b, f)
  <1> USE DEF FilledTo
  <1>1. CASE b \in k.valid
    <2>1. f = k
      BY <1>1 DEF Filled
    <2>2. k.valid = k.valid \cup {b}
      BY <1>1
    <2> QED BY <1>1, <2>1, <2>2
  <1>2. CASE b \notin k.valid
    <2>1. f = [k EXCEPT !.present = @ \cup {b}, !.valid = @ \cup {b},
                        !.loadReq = @ \ (Node \X {b}),
                        !.dirty = @ \cup {b}, !.acct = @ + 1]
      BY <1>2 DEF Filled
    <2>2. /\ k.acct \in Nat /\ k.dirty \in SUBSET Blob /\ k.valid \in SUBSET Blob
          /\ k.present \in SUBSET Blob /\ k.loadReq \in SUBSET (Node \X Blob)
          /\ k.storing \in SUBSET Blob
      BY DEF Cache
    <2>3. k.acct + 1 \in Nat
      BY SMTT(60), <2>2
    <2>4. f \in Cache
      <3>1. [k EXCEPT !.present = @ \cup {b}, !.valid = @ \cup {b},
                        !.loadReq = @ \ (Node \X {b}),
                        !.dirty = @ \cup {b}, !.acct = @ + 1] \in Cache
        BY <2>2, <2>3 DEF Cache
      <3> QED BY <2>1, <3>1
    <2>5. /\ f.valid = k.valid \cup {b} /\ f.storing = k.storing /\ f.loading = k.loading
          /\ f.storeReq = k.storeReq /\ f.flushReq = k.flushReq /\ f.batch = k.batch
          /\ f.dirty = k.dirty \cup {b} /\ f.loadReq = k.loadReq \ (Node \X {b})
          /\ f.acct = k.acct + 1
      BY <2>1 DEF Cache
    <2>6. b \notin k.dirty
      BY <1>2 DEF Counted
    <2>7. Cardinality(k.dirty \cup {b}) = Cardinality(k.dirty) + 1
      BY <2>2, <2>6 DEF Laws, Sizes
    <2>8. Counted(f, r)
      BY <2>5, <2>7 DEF Counted
    <2> QED BY <1>2, <2>4, <2>5, <2>8
  <1> QED BY <1>1, <1>2

(* Requests to store the blobs of B, count of them, are sent. *)
StoringTo(k, r, B, f) ==
    /\ f \in Cache /\ Counted(f, r) /\ f.storing = k.storing \cup B
    /\ f.valid = k.valid /\ f.dirty = k.dirty /\ f.loading = k.loading
    /\ f.loadReq = k.loadReq /\ f.storeReq = k.storeReq /\ f.flushReq = k.flushReq

(* Storing() does that, and keeps flush_batch_count right. *)
LEMMA StoringIs ==
    ASSUME Laws, NEW k \in Cache, NEW r, Counted(k, r), NEW B \in SUBSET Blob, NEW c,
           B \subseteq k.dirty, B \cap k.storing = {}, c = Cardinality(B),
           r = 0 => k.batch + c <= Limit, NEW f, f = Storing(k, B, c)
    PROVE  StoringTo(k, r, B, f)
  <1>1. k.batch \in Nat /\ k.storing \in SUBSET Blob
    BY DEF Cache
  <1>2. c \in Nat
    BY DEF Laws, Sizes
  <1>3. k.batch + c \in Nat
    BY SMTT(60), <1>1, <1>2
  <1>4. f \in Cache
    BY <1>1, <1>3 DEF Cache, Storing
  <1>5. /\ f.storing = k.storing \cup B /\ f.batch = k.batch + c
        /\ f.valid = k.valid /\ f.dirty = k.dirty /\ f.loading = k.loading
        /\ f.loadReq = k.loadReq /\ f.storeReq = k.storeReq
        /\ f.flushReq = k.flushReq /\ f.acct = k.acct
    BY DEF Cache, Storing
  <1>6. Cardinality(k.storing \cup B) = Cardinality(k.storing) + Cardinality(B)
    <2>1. k.storing \cap B = {}
      OBVIOUS
    <2> QED BY <1>1, <2>1 DEF Laws, Sizes
  <1>7. Counted(f, r)
    BY <1>5, <1>6 DEF Counted
  <1> QED BY <1>4, <1>5, <1>7 DEF StoringTo

(* An entry is made dirty again. *)
RedirtiedTo(k, r, b, f) ==
    /\ f \in Cache /\ Counted(f, r) /\ f.valid = k.valid /\ f.storing = k.storing
    /\ f.loading = k.loading /\ f.loadReq = k.loadReq /\ f.storeReq = k.storeReq
    /\ f.flushReq = k.flushReq
    /\ f.dirty = IF r = 0 /\ ~backing THEN k.dirty \cup {b} ELSE k.dirty

(* Redirtied() does that, and keeps acct_dirty right. *)
LEMMA RedirtiedIs ==
    ASSUME Laws, NEW k \in Cache, NEW r, Counted(k, r), NEW b \in k.valid,
           NEW f, f = Redirtied(k, r, b)
    PROVE  RedirtiedTo(k, r, b, f)
  <1> USE DEF RedirtiedTo
  <1>1. CASE b \notin k.dirty /\ r = 0 /\ ~backing
    <2>1. f = [k EXCEPT !.dirty = @ \cup {b}, !.acct = @ + 1]
      BY <1>1 DEF Redirtied
    <2>2. k.acct \in Nat /\ k.dirty \in SUBSET Blob /\ b \in Blob
      BY DEF Cache
    <2>3. k.acct + 1 \in Nat
      BY SMTT(60), <2>2
    <2>4. f \in Cache
      <3>1. [k EXCEPT !.dirty = @ \cup {b}, !.acct = @ + 1] \in Cache
        BY <2>2, <2>3 DEF Cache
      <3> QED BY <2>1, <3>1
    <2>5. /\ f.valid = k.valid /\ f.storing = k.storing /\ f.batch = k.batch
          /\ f.loading = k.loading /\ f.loadReq = k.loadReq /\ f.storeReq = k.storeReq
          /\ f.flushReq = k.flushReq /\ f.dirty = k.dirty \cup {b} /\ f.acct = k.acct + 1
      BY <2>1 DEF Cache
    <2>6. Cardinality(k.dirty \cup {b}) = Cardinality(k.dirty) + 1
      BY <1>1, <2>2 DEF Laws, Sizes
    <2>7. Counted(f, r)
      BY <2>5, <2>6 DEF Counted
    <2> QED BY <1>1, <2>4, <2>5, <2>7
  <1>2. CASE ~(b \notin k.dirty /\ r = 0 /\ ~backing)
    <2>1. f = k
      BY <1>2 DEF Redirtied
    <2>2. r = 0 /\ ~backing => k.dirty = k.dirty \cup {b}
      BY <1>2
    <2> QED BY <2>1, <2>2
  <1> QED BY <1>1, <1>2

(* A store is answered: the entry is clean if it succeeded. *)
StoredTo(k, r, b, e, f) ==
    /\ f \in Cache /\ Counted(f, r) /\ f.valid = k.valid
    /\ f.storing = k.storing \ {b} /\ f.loading = k.loading
    /\ f.dirty = IF e = "ok" THEN k.dirty \ {b} ELSE k.dirty
    /\ f.loadReq = k.loadReq /\ f.flushReq = k.flushReq
    /\ f.storeReq = k.storeReq \ (Node \X {b})

(* Stored(), of cache_store_continuation(), does that. *)
LEMMA StoredIs ==
    ASSUME Laws, NEW k \in Cache, NEW r, Counted(k, r), NEW b \in k.storing, NEW e,
           NEW f, f = [Stored(k, b, e) EXCEPT !.storeReq = @ \ (Node \X {b})]
    PROVE  StoredTo(k, r, b, e, f)
  <1> USE DEF StoredTo
  <1>1. /\ k.acct \in Nat /\ k.batch \in Nat /\ k.dirty \in SUBSET Blob
        /\ k.storing \in SUBSET Blob /\ k.storeReq \in SUBSET (Node \X Blob) /\ b \in k.dirty
    BY DEF Cache, Counted
  <1>2. /\ Cardinality(k.storing \ {b}) = Cardinality(k.storing) - 1
        /\ Cardinality(k.dirty \ {b}) = Cardinality(k.dirty) - 1
        /\ Cardinality(k.storing \ {b}) \in Nat /\ Cardinality(k.dirty \ {b}) \in Nat
    <2>1. k.storing \ {b} \in SUBSET Blob /\ k.dirty \ {b} \in SUBSET Blob
      BY <1>1
    <2> QED BY <1>1, <2>1 DEF Laws, Sizes
  <1>3. /\ k.batch - 1 = Cardinality(k.storing \ {b}) /\ k.batch - 1 \in Nat
        /\ k.acct - 1 = Cardinality(k.dirty \ {b}) /\ k.acct - 1 \in Nat
    BY <1>2 DEF Counted
  <1>4. r = 0 => k.batch - 1 <= Limit
    <2>1. r = 0 => k.batch <= Limit
      BY DEF Counted
    <2> QED BY SMTT(60), <1>1, <2>1, LimitAssumption
  <1>5. CASE e = "ok"
    <2>1. f = [k EXCEPT !.storing = @ \ {b}, !.batch = @ - 1, !.dirty = @ \ {b},
                        !.acct = @ - 1, !.storeReq = @ \ (Node \X {b})]
      BY <1>1, <1>5 DEF Stored, Cache
    <2>2. f \in Cache
      <3>1. [k EXCEPT !.storing = @ \ {b}, !.batch = @ - 1, !.dirty = @ \ {b},
                        !.acct = @ - 1, !.storeReq = @ \ (Node \X {b})] \in Cache
        BY <1>1, <1>3 DEF Cache
      <3> QED BY <2>1, <3>1
    <2>3. /\ f.valid = k.valid /\ f.storing = k.storing \ {b} /\ f.loading = k.loading
          /\ f.dirty = k.dirty \ {b} /\ f.loadReq = k.loadReq /\ f.flushReq = k.flushReq
          /\ f.storeReq = k.storeReq \ (Node \X {b}) /\ f.acct = k.acct - 1
          /\ f.batch = k.batch - 1
      BY <2>1 DEF Cache
    <2>4. Counted(f, r)
      BY <1>3, <1>4, <2>3 DEF Counted
    <2> QED BY <1>5, <2>2, <2>3, <2>4
  <1>6. CASE e # "ok"
    <2>1. f = [k EXCEPT !.storing = @ \ {b}, !.batch = @ - 1,
                        !.storeReq = @ \ (Node \X {b})]
      BY <1>6 DEF Stored, Cache
    <2>2. f \in Cache
      <3>1. [k EXCEPT !.storing = @ \ {b}, !.batch = @ - 1,
                        !.storeReq = @ \ (Node \X {b})] \in Cache
        BY <1>1, <1>3 DEF Cache
      <3> QED BY <2>1, <3>1
    <2>3. /\ f.valid = k.valid /\ f.storing = k.storing \ {b} /\ f.loading = k.loading
          /\ f.dirty = k.dirty /\ f.loadReq = k.loadReq /\ f.flushReq = k.flushReq
          /\ f.storeReq = k.storeReq \ (Node \X {b}) /\ f.acct = k.acct
          /\ f.batch = k.batch - 1
      BY <2>1 DEF Cache
    <2>4. Counted(f, r)
      BY <1>3, <1>4, <2>3 DEF Counted
    <2> QED BY <1>6, <2>2, <2>3, <2>4
  <1> QED BY <1>5, <1>6

(* The entries of B are removed.  The counters are right if none was being *)
(* stored; if one was, the cache is left unusable.                         *)
RemovedTo(k, r, B, f) ==
    /\ f \in Cache /\ f.valid = k.valid \ B /\ f.dirty = k.dirty \ B
    /\ f.storing = k.storing /\ f.loading = k.loading /\ f.loadReq = k.loadReq
    /\ f.storeReq = k.storeReq /\ f.flushReq = k.flushReq
    /\ B \cap k.storing = {} => Counted(f, r)

(* Removed(), of remove_entry(), does that. *)
LEMMA RemovedIs ==
    ASSUME Laws, NEW k \in Cache, NEW r, Counted(k, r), NEW B \in SUBSET Blob,
           NEW f, f = Removed(k, B)
    PROVE  RemovedTo(k, r, B, f)
  <1>1. /\ k.acct \in Nat /\ k.dirty \in SUBSET Blob /\ k.valid \in SUBSET Blob
        /\ k.present \in SUBSET Blob /\ k.acct = Cardinality(k.dirty)
    BY DEF Cache, Counted
  <1>2. /\ Cardinality(k.dirty \ B) = k.acct - Cardinality(B \cap k.dirty)
        /\ Cardinality(k.dirty \ B) \in Nat
    <2>1. k.dirty \ B \in SUBSET Blob
      BY <1>1
    <2>2. Cardinality(k.dirty \ B) \in Nat
      BY <2>1 DEF Laws, Sizes
    <2>3. Cardinality(k.dirty \ B) = Cardinality(k.dirty) - Cardinality(B \cap k.dirty)
      BY <1>1 DEF Laws, Sizes
    <2> QED BY <1>1, <2>2, <2>3
  <1>3. f \in Cache
    BY <1>1, <1>2 DEF Cache, Removed
  <1>4. /\ f.valid = k.valid \ B /\ f.dirty = k.dirty \ B
        /\ f.storing = k.storing /\ f.loading = k.loading /\ f.loadReq = k.loadReq
        /\ f.storeReq = k.storeReq /\ f.flushReq = k.flushReq /\ f.batch = k.batch
        /\ f.acct = k.acct - Cardinality(B \cap k.dirty)
    BY DEF Cache, Removed
  <1>5. B \cap k.storing = {} => Counted(f, r)
    BY <1>2, <1>4 DEF Counted
  <1> QED BY <1>3, <1>4, <1>5 DEF RemovedTo

(* A list of blobs, and the requests to store them. *)
LEMMA ListedIs ==
    ASSUME NEW D \in SUBSET Blob, NEW c, NEW s, Lists(s, c, D)
    PROVE  /\ Lists(s, c, Blob) /\ Listed(s) \subseteq D /\ StoreReqs(s) \in Seq(Request)
           /\ DOMAIN s = 1 .. c
  <1>1. c \in Nat /\ s \in [1 .. c -> D]
    BY DEF Lists
  <1>2. DOMAIN s = 1 .. c /\ \A i \in 1 .. c : s[i] \in D
    BY <1>1
  <1>3. s \in [1 .. c -> Blob]
    BY <1>1, <1>2
  <1>4. \A i \in 1 .. c : Req("store", s[i]) \in Request
    BY <1>2 DEF Req, Request
  <1>5. StoreReqs(s) = [i \in 1 .. c |-> Req("store", s[i])]
    BY <1>2 DEF StoreReqs
  <1>6. StoreReqs(s) \in [1 .. c -> Request]
    BY <1>4, <1>5
  <1>7. StoreReqs(s) \in Seq(Request)
    BY SMTT(60), <1>1, <1>6
  <1> QED BY <1>2, <1>3, <1>7 DEF Lists, Listed

(* cache_flush() picks dirty entries that are not being stored, within the *)
(* limit.                                                                  *)
LEMMA FlushIs ==
    ASSUME Laws, NEW k \in Cache, NEW r, Counted(k, r), NEW s,
           s \in FlushSeqs(k, r) \/ s = <<>>
    PROVE  /\ Lists(s, Len(s), Blob) /\ StoreReqs(s) \in Seq(Request)
           /\ Listed(s) \subseteq k.dirty \ k.storing
           /\ r = 0 => k.batch + Len(s) <= Limit
  <1> DEFINE D == k.dirty \ k.storing
             room == Limit - k.batch
             n == IF Cardinality(D) < room THEN Cardinality(D) ELSE room
  <1>1. /\ k.batch \in Nat /\ D \in SUBSET Blob /\ Limit \in Nat
        /\ r = 0 => k.batch <= Limit
    BY LimitAssumption DEF Cache, Counted
  <1>2. Cardinality(D) \in Nat
    BY <1>1 DEF Laws, Sizes
  <1>3. CASE s = <<>> \/ ~Flushable(k) \/ ~Connected(r)
    <2>1. s = <<>>
      BY <1>3 DEF FlushSeqs
    <2>2. Lists(s, 0, D) /\ Len(s) = 0 /\ s \in Seq(Blob)
      BY SMTT(60), <2>1 DEF Lists
    <2>3. r = 0 => k.batch + 0 <= Limit
      BY SMTT(60), <1>1
    <2> QED BY <1>1, <2>2, <2>3, ListedIs
  <1>4. CASE s # <<>> /\ Flushable(k) /\ Connected(r)
    <2>1. s \in [1 .. n -> D] /\ \A i, j \in 1 .. n : s[i] = s[j] => i = j
      BY <1>4 DEF FlushSeqs
    <2> HIDE DEF D
    <2>2. n \in Nat /\ k.batch + n <= Limit
      BY SMTT(60), <1>1, <1>2, <1>4 DEF Flushable
    <2> HIDE DEF n
    <2>3. Lists(s, n, D)
      BY <2>1, <2>2 DEF Lists
    <2>4. Len(s) = n
      BY SMTT(60), <2>1, <2>2
    <2>5. Lists(s, n, Blob) /\ Listed(s) \subseteq D /\ StoreReqs(s) \in Seq(Request)
      BY <1>1, <2>3, ListedIs
    <2> QED BY <2>2, <2>4, <2>5 DEF D
  <1> QED BY <1>3, <1>4

(* It sends requests for them. *)
FlushingTo(k, r, s, f) ==
    /\ f \in Cache /\ Counted(f, r) /\ f.storing = k.storing \cup Listed(s)
    /\ f.valid = k.valid /\ f.dirty = k.dirty /\ f.loading = k.loading
    /\ f.loadReq = k.loadReq /\ f.storeReq = k.storeReq /\ f.flushReq = k.flushReq
    /\ StoreReqs(s) \in Seq(Request) /\ Listed(s) \cap k.storing = {}
    /\ \A op, b : Count(StoreReqs(s), op, b) = Bit(op = "store" /\ b \in Listed(s))

(* Flushing(), of cache_flush(), does that. *)
LEMMA FlushingIs ==
    ASSUME Laws, NEW k \in Cache, NEW r, Counted(k, r), NEW s,
           s \in FlushSeqs(k, r) \/ s = <<>>, NEW f, f = Flushing(k, s)
    PROVE  FlushingTo(k, r, s, f)
  <1>1. /\ Lists(s, Len(s), Blob) /\ StoreReqs(s) \in Seq(Request)
        /\ Listed(s) \subseteq k.dirty \ k.storing /\ (r = 0 => k.batch + Len(s) <= Limit)
    BY FlushIs
  <1>2. /\ Listed(s) \in SUBSET Blob /\ Listed(s) \subseteq k.dirty
        /\ Listed(s) \cap k.storing = {}
    BY <1>1 DEF Cache
  <1>3. /\ Len(s) = Cardinality(Listed(s))
        /\ \A op, b : Count(StoreReqs(s), op, b) = Bit(op = "store" /\ b \in Listed(s))
    BY <1>1 DEF Laws, Listing
  <1>4. f = Storing(k, Listed(s), Len(s))
    BY DEF Flushing, Listed
  <1>5. /\ f \in Cache /\ Counted(f, r) /\ f.storing = k.storing \cup Listed(s)
        /\ f.valid = k.valid /\ f.dirty = k.dirty /\ f.loading = k.loading
        /\ f.loadReq = k.loadReq /\ f.storeReq = k.storeReq /\ f.flushReq = k.flushReq
    <2> DEFINE L == Listed(s)
               c == Len(s)
    <2> HIDE DEF L, c
    <2>1. /\ L \in SUBSET Blob /\ L \subseteq k.dirty /\ L \cap k.storing = {}
          /\ c = Cardinality(L) /\ (r = 0 => k.batch + c <= Limit) /\ f = Storing(k, L, c)
      BY <1>1, <1>2, <1>3, <1>4 DEF L, c
    <2>2. /\ f \in Cache /\ Counted(f, r) /\ f.storing = k.storing \cup L
          /\ f.valid = k.valid /\ f.dirty = k.dirty /\ f.loading = k.loading
          /\ f.loadReq = k.loadReq /\ f.storeReq = k.storeReq /\ f.flushReq = k.flushReq
      <3>1. StoringTo(k, r, L, f)
        BY <2>1, StoringIs
      <3> QED BY <3>1 DEF StoringTo
    <2> QED BY <2>2 DEF L
  <1> QED BY <1>1, <1>2, <1>3, <1>5 DEF FlushingTo

-----------------------------------------------------------------------------
(* What is sent *)

(* pq has the messages of p and q. *)
Joins(pq, p, q) ==
    /\ \A i \in DOMAIN pq : \/ \E j \in DOMAIN p : pq[i] = p[j]
                           \/ \E j \in DOMAIN q : pq[i] = q[j]
    /\ \A j \in DOMAIN p : \E i \in DOMAIN pq : pq[i] = p[j]
    /\ \A j \in DOMAIN q : \E i \in DOMAIN pq : pq[i] = q[j]

(* A queue that gets the messages of another at its end. *)
LEMMA ConcatIs ==
    ASSUME NEW M, NEW p \in Seq(M), NEW q \in Seq(M)
    PROVE  /\ p \o q \in Seq(M) /\ p \o <<>> = p /\ <<>> \in Seq(M)
           /\ Joins(p \o q, p, q)
  <1>1. /\ p \o q \in Seq(M) /\ p \o <<>> = p /\ <<>> \in Seq(M)
        /\ Len(p) \in Nat /\ Len(q) \in Nat
        /\ DOMAIN p = 1 .. Len(p) /\ DOMAIN q = 1 .. Len(q)
        /\ DOMAIN (p \o q) = 1 .. (Len(p) + Len(q))
    BY SMTT(60)
  <1>2. \A i \in DOMAIN p : i \in DOMAIN (p \o q) /\ (p \o q)[i] = p[i]
    BY SMTT(60), <1>1
  <1>3. \A i \in DOMAIN q : i + Len(p) \in DOMAIN (p \o q) /\ (p \o q)[i + Len(p)] = q[i]
    BY SMTT(60), <1>1
  <1>4. ASSUME NEW i \in DOMAIN (p \o q), i \notin DOMAIN p
        PROVE  i - Len(p) \in DOMAIN q /\ (p \o q)[i] = q[i - Len(p)]
    BY SMTT(60), <1>1, <1>4
  <1>5. Joins(p \o q, p, q)
    <2>1. /\ \A j \in DOMAIN p : \E i \in DOMAIN (p \o q) : (p \o q)[i] = p[j]
          /\ \A j \in DOMAIN q : \E i \in DOMAIN (p \o q) : (p \o q)[i] = q[j]
      BY <1>2, <1>3
    <2>2. ASSUME NEW i \in DOMAIN (p \o q)
          PROVE  \/ \E j \in DOMAIN p : (p \o q)[i] = p[j]
                 \/ \E j \in DOMAIN q : (p \o q)[i] = q[j]
      BY <1>2, <1>4
    <2> QED BY <2>1, <2>2 DEF Joins
  <1> QED BY <1>1, <1>5

(* Its answers of success. *)
LEMMA OksConcat ==
    ASSUME NEW p \in Seq(Response), NEW q \in Seq(Response)
    PROVE  Oks(p \o q) = Oks(p) \cup Oks(q) /\ Acks(p \o q) = Acks(p) \cup Acks(q)
  <1> DEFINE pq == p \o q
  <1>1. Joins(pq, p, q)
    BY ConcatIs
  <1> HIDE DEF pq
  <1>2. Oks(pq) \subseteq Oks(p) \cup Oks(q)
    BY <1>1 DEF Oks, Joins
  <1>3. Oks(p) \subseteq Oks(pq) /\ Oks(q) \subseteq Oks(pq)
    BY <1>1 DEF Oks, Joins
  <1>4. Acks(pq) \subseteq Acks(p) \cup Acks(q)
    BY <1>1 DEF Acks, Joins
  <1>5. Acks(p) \subseteq Acks(pq) /\ Acks(q) \subseteq Acks(pq)
    BY <1>1 DEF Acks, Joins
  <1> QED BY <1>2, <1>3, <1>4, <1>5 DEF pq

(* A queue that loses its head. *)
LEMMA TailIs ==
    ASSUME NEW M, NEW q \in Seq(M), q # <<>>
    PROVE  /\ Tail(q) \in Seq(M) /\ Head(q) \in M
           /\ \E i \in DOMAIN q : q[i] = Head(q)
           /\ \A j \in DOMAIN Tail(q) : \E i \in DOMAIN q : q[i] = Tail(q)[j]
  <1>1. /\ Tail(q) \in Seq(M) /\ Head(q) \in M /\ Len(q) \in Nat /\ Len(q) > 0
        /\ DOMAIN q = 1 .. Len(q) /\ q[1] = Head(q)
        /\ DOMAIN Tail(q) = 1 .. (Len(q) - 1)
    BY SMTT(60)
  <1>2. 1 \in DOMAIN q
    BY SMTT(60), <1>1
  <1>3. \A j \in DOMAIN Tail(q) : j + 1 \in DOMAIN q /\ q[j + 1] = Tail(q)[j]
    BY SMTT(60), <1>1
  <1> QED BY <1>1, <1>2, <1>3

(* A queue without its first answer promises no more than before. *)
LEMMA OksTail ==
    ASSUME NEW q \in Seq(Response), q # <<>>
    PROVE  /\ Oks(Tail(q)) \subseteq Oks(q)
           /\ Head(q).b \in Blob /\ Head(q).err = "ok" => Head(q).b \in Oks(q)
  BY TailIs DEF Oks

(* Requests that find no service are answered with ENOSYS. *)
Refused(rq) == [i \in DOMAIN rq |-> Rsp(rq[i].op, rq[i].b, "ENOSYS")]

(* The broker refuses each request once, and grants none. *)
LEMMA RefusedIs ==
    ASSUME NEW rq \in Seq(Request)
    PROVE  /\ Refused(rq) \in Seq(Response) /\ Oks(Refused(rq)) = {}
           /\ \A op, b : Count(Refused(rq), op, b) = Count(rq, op, b)
  <1>1. Len(rq) \in Nat /\ DOMAIN rq = 1 .. Len(rq) /\ \A i \in DOMAIN rq : rq[i] \in Request
    BY SMTT(60)
  <1>2. /\ DOMAIN Refused(rq) = DOMAIN rq
        /\ \A i \in DOMAIN rq : Refused(rq)[i] = Rsp(rq[i].op, rq[i].b, "ENOSYS")
    BY DEF Refused
  <1>3. \A m \in Request : Rsp(m.op, m.b, "ENOSYS") \in Response
    BY DEF Request, Response, Rsp, Errnum
  <1>4. ASSUME NEW i \in DOMAIN rq
        PROVE  /\ Refused(rq)[i].op = rq[i].op /\ Refused(rq)[i].b = rq[i].b
               /\ Refused(rq)[i].err = "ENOSYS"
    <2>1. Refused(rq)[i] = Rsp(rq[i].op, rq[i].b, "ENOSYS")
      BY <1>2
    <2> QED BY SMTT(60), <2>1 DEF Rsp
  <1>5. Refused(rq) \in [1 .. Len(rq) -> Response]
    <2>1. Refused(rq) = [i \in 1 .. Len(rq) |-> Rsp(rq[i].op, rq[i].b, "ENOSYS")]
      BY <1>1 DEF Refused
    <2> QED BY <1>1, <1>3, <2>1
  <1>6. Refused(rq) \in Seq(Response)
    BY SMTT(60), <1>1, <1>5
  <1>7. ASSUME NEW op, NEW b PROVE Count(Refused(rq), op, b) = Count(rq, op, b)
    <2>1. {i \in DOMAIN Refused(rq) : Refused(rq)[i].op = op /\ Refused(rq)[i].b = b}
            = {i \in DOMAIN rq : rq[i].op = op /\ rq[i].b = b}
      BY <1>2, <1>4
    <2> QED BY <2>1 DEF Count
  <1>8. Oks(Refused(rq)) = {}
    <2>1. "ok" # "ENOSYS"
      OBVIOUS
    <2>2. \A i \in DOMAIN Refused(rq) : Refused(rq)[i].err = "ENOSYS"
      BY <1>2, <1>4
    <2> QED BY <2>1, <2>2 DEF Oks
  <1> QED BY <1>6, <1>7, <1>8

(* Rank r has sent requests rq and answers ans. *)
Posted(U, D, r, rq, ans) ==
    /\ up' \in [Node -> Seq(Request)] /\ down' \in [Node -> Seq(Response)]
    /\ \A x \in Node : \A op, b :
         Count(up'[x], op, b) + Count(down'[x], op, b)
           = Count(U[x], op, b) + Count(D[x], op, b) + Count(ans[x], op, b)
             + (IF x = r THEN Count(rq, op, b) ELSE 0)
    /\ \A x \in Node : x # r => up'[x] = U[x] /\ down'[x] = D[x] \o ans[x]
    /\ \A x \in Node : Oks(down'[x]) = Oks(D[x]) \cup Oks(ans[x])

(* Post() does that. *)
LEMMA PostIs ==
    ASSUME Laws, NEW U \in [Node -> Seq(Request)], NEW D \in [Node -> Seq(Response)],
           NEW r \in Rank, NEW rq \in Seq(Request), NEW ans \in [Node -> Seq(Response)],
           Post(U, D, r, rq, ans)
    PROVE  Posted(U, D, r, rq, ans)
  <1>1. /\ up' = [n \in Node |-> IF n = r THEN U[n] \o rq ELSE U[n]]
        /\ down' = [n \in Node |-> D[n] \o ans[n]]
    BY DEF Post
  <1>2. ASSUME NEW x \in Node
        PROVE  /\ up'[x] \in Seq(Request) /\ down'[x] \in Seq(Response)
               /\ \A op, b : Count(up'[x], op, b) + Count(down'[x], op, b)
                    = Count(U[x], op, b) + Count(D[x], op, b) + Count(ans[x], op, b)
                      + (IF x = r THEN Count(rq, op, b) ELSE 0)
               /\ x # r => up'[x] = U[x] /\ down'[x] = D[x] \o ans[x]
               /\ Oks(down'[x]) = Oks(D[x]) \cup Oks(ans[x])
    <2> DEFINE da == D[x] \o ans[x]
    <2>1. up'[x] = (IF x = r THEN U[x] \o rq ELSE U[x]) /\ down'[x] = da
      BY <1>1
    <2>2. U[x] \in Seq(Request) /\ D[x] \in Seq(Response) /\ ans[x] \in Seq(Response)
      OBVIOUS
    <2>3. da \in Seq(Response) /\ Oks(da) = Oks(D[x]) \cup Oks(ans[x])
      BY <2>2, ConcatIs, OksConcat
    <2>4. \A op, b : /\ Count(da, op, b) = Count(D[x], op, b) + Count(ans[x], op, b)
                     /\ Count(D[x], op, b) \in Nat /\ Count(ans[x], op, b) \in Nat
                     /\ Count(U[x], op, b) \in Nat /\ Count(rq, op, b) \in Nat
      <3>1. \A op, b : Count(da, op, b) = Count(D[x], op, b) + Count(ans[x], op, b)
        BY <2>2 DEF Laws, Counting
      <3>2. \A op, b : Count(D[x], op, b) \in Nat /\ Count(ans[x], op, b) \in Nat
        BY <2>2 DEF Laws, Counting
      <3>3. \A op, b : Count(U[x], op, b) \in Nat /\ Count(rq, op, b) \in Nat
        BY <2>2 DEF Laws, Counting
      <3> QED BY <3>1, <3>2, <3>3
    <2>5. CASE x = r
      <3>1. up'[x] = U[x] \o rq
        BY <2>1, <2>5
      <3>2. U[x] \o rq \in Seq(Request)
        BY <2>2, ConcatIs
      <3>3. \A op, b : Count(U[x] \o rq, op, b) = Count(U[x], op, b) + Count(rq, op, b)
        BY <2>2 DEF Laws, Counting
      <3> HIDE DEF da
      <3>4. ASSUME NEW op, NEW b
            PROVE  Count(up'[x], op, b) + Count(down'[x], op, b)
                    = Count(U[x], op, b) + Count(D[x], op, b) + Count(ans[x], op, b)
                      + (IF x = r THEN Count(rq, op, b) ELSE 0)
        BY SMTT(60), <2>1, <2>4, <2>5, <3>1, <3>3
      <3> QED BY <2>1, <2>3, <2>5, <3>1, <3>2, <3>4
    <2>6. CASE x # r
      <3>1. up'[x] = U[x] /\ down'[x] = D[x] \o ans[x]
        BY <2>1, <2>6
      <3> HIDE DEF da
      <3>2. ASSUME NEW op, NEW b
            PROVE  Count(up'[x], op, b) + Count(down'[x], op, b)
                    = Count(U[x], op, b) + Count(D[x], op, b) + Count(ans[x], op, b)
                      + (IF x = r THEN Count(rq, op, b) ELSE 0)
        BY SMTT(60), <2>1, <2>4, <2>6, <3>1
      <3> QED BY <2>1, <2>2, <2>3, <2>6, <3>1, <3>2
    <2> QED BY <2>5, <2>6
  <1>3. /\ up' = [n \in Node |-> up'[n]] /\ down' = [n \in Node |-> down'[n]]
    BY <1>1
  <1> QED BY <1>2, <1>3 DEF Posted

(* A message is taken from a queue. *)
LEMMA TakenIs ==
    ASSUME NEW M, NEW q \in [Node -> Seq(M)], NEW n \in Node, q[n] # <<>>, Counting(M)
    PROVE  /\ Taken(q, n) \in [Node -> Seq(M)] /\ Head(q[n]) \in M
           /\ \A x \in Node : x # n => Taken(q, n)[x] = q[x]
           /\ Taken(q, n)[n] = Tail(q[n])
           /\ \A x \in Node : \A op, b :
                /\ Count(q[x], op, b) = Count(Taken(q, n)[x], op, b)
                                        + Bit(x = n /\ Fits(Head(q[n]), op, b))
                /\ Count(Taken(q, n)[x], op, b) \in Nat
  <1>1. q[n] \in Seq(M) /\ Tail(q[n]) \in Seq(M) /\ Head(q[n]) \in M
    BY TailIs
  <1>2. Taken(q, n) \in [Node -> Seq(M)]
    BY <1>1 DEF Taken
  <1>3. Taken(q, n)[n] = Tail(q[n]) /\ \A x \in Node : x # n => Taken(q, n)[x] = q[x]
    BY DEF Taken
  <1>4. ASSUME NEW x \in Node, NEW op, NEW b
        PROVE  /\ Count(q[x], op, b) = Count(Taken(q, n)[x], op, b)
                                       + Bit(x = n /\ Fits(Head(q[n]), op, b))
               /\ Count(Taken(q, n)[x], op, b) \in Nat
    <2>1. Count(Taken(q, n)[x], op, b) \in Nat
      <3>1. Taken(q, n)[x] \in Seq(M)
        BY <1>2
      <3> QED BY <3>1 DEF Counting
    <2>2. CASE x = n
      <3>1. Count(q[n], op, b) = Count(Tail(q[n]), op, b) + Bit(Fits(Head(q[n]), op, b))
        BY <1>1 DEF Counting
      <3>2. Bit(x = n /\ Fits(Head(q[n]), op, b)) = Bit(Fits(Head(q[n]), op, b))
        BY <2>2 DEF Bit
      <3> QED BY <1>3, <2>1, <2>2, <3>1, <3>2
    <2>3. CASE x # n
      <3>1. Bit(x = n /\ Fits(Head(q[n]), op, b)) = 0
        BY <2>3 DEF Bit
      <3>2. Taken(q, n)[x] = q[x]
        BY <1>3, <2>3
      <3>3. Count(q[x], op, b) = Count(q[x], op, b) + 0
        BY SMTT(60), <2>1, <3>2
      <3> QED BY <2>1, <3>1, <3>2, <3>3
    <2> QED BY <2>2, <2>3
  <1> QED BY <1>1, <1>2, <1>3, <1>4

(* Message m of y is taken, and rank r sends rq and answers ans. *)
Flow(y, m, r, rq, ans) ==
    /\ up' \in [Node -> Seq(Request)] /\ down' \in [Node -> Seq(Response)]
    /\ \A x \in Node : \A op, b :
         /\ Moving(x, op, b) \in Nat /\ Moving(x, op, b)' \in Nat
         /\ Moving(x, op, b)' + Bit(x = y /\ Fits(m, op, b))
              = Moving(x, op, b) + Count(ans[x], op, b)
                + (IF x = r THEN Count(rq, op, b) ELSE 0)
    /\ \A x \in Node : Oks(down'[x]) \subseteq Oks(down[x]) \cup Oks(ans[x])

(* The queues of the other nodes. *)
Passed(n, r, ans) ==
    \A x \in Node : x # r => /\ up'[x] = IF x = n THEN Tail(up[n]) ELSE up[x]
                             /\ down'[x] = down[x] \o ans[x]

(* Rank r handles a request of n. *)
LEMMA AskFlow ==
    ASSUME Laws, TypeOK, NEW r \in Rank, NEW n \in Node, up[n] # <<>>,
           NEW rq \in Seq(Request), NEW ans \in [Node -> Seq(Response)],
           Post(Taken(up, n), down, r, rq, ans)
    PROVE  /\ Flow(n, Head(up[n]), r, rq, ans)
           /\ Passed(n, r, ans)
  <1> DEFINE U == Taken(up, n)
  <1>1. /\ up \in [Node -> Seq(Request)] /\ down \in [Node -> Seq(Response)]
        /\ Counting(Request) /\ Counting(Response)
    BY DEF TypeOK, Laws
  <1>2. /\ U \in [Node -> Seq(Request)]
        /\ \A x \in Node : x # n => U[x] = up[x]
        /\ U[n] = Tail(up[n])
        /\ \A x \in Node : \A op, b :
             /\ Count(up[x], op, b) = Count(U[x], op, b)
                                        + Bit(x = n /\ Fits(Head(up[n]), op, b))
             /\ Count(U[x], op, b) \in Nat
    BY <1>1, TakenIs
  <1> HIDE DEF U
  <1>3. /\ up' \in [Node -> Seq(Request)] /\ down' \in [Node -> Seq(Response)]
        /\ \A x \in Node : \A op, b :
             Count(up'[x], op, b) + Count(down'[x], op, b)
               = Count(U[x], op, b) + Count(down[x], op, b) + Count(ans[x], op, b)
                 + (IF x = r THEN Count(rq, op, b) ELSE 0)
        /\ \A x \in Node : x # r => up'[x] = U[x] /\ down'[x] = down[x] \o ans[x]
        /\ \A x \in Node : Oks(down'[x]) = Oks(down[x]) \cup Oks(ans[x])
    <2>1. Post(U, down, r, rq, ans)
      BY DEF U
    <2>2. Posted(U, down, r, rq, ans)
      BY <1>1, <1>2, <2>1, PostIs
    <2> QED BY <2>2 DEF Posted
  <1>4. ASSUME NEW x \in Node, NEW op, NEW b
        PROVE  /\ Moving(x, op, b) \in Nat /\ Moving(x, op, b)' \in Nat
               /\ Moving(x, op, b)' + Bit(x = n /\ Fits(Head(up[n]), op, b))
                    = Moving(x, op, b) + Count(ans[x], op, b)
                      + (IF x = r THEN Count(rq, op, b) ELSE 0)
    <2> DEFINE a == Count(up[x], op, b)
               c == Count(down[x], op, b)
               u == Count(U[x], op, b)
               t == Bit(x = n /\ Fits(Head(up[n]), op, b))
               w == Count(ans[x], op, b)
               z == IF x = r THEN Count(rq, op, b) ELSE 0
               v == Count(up'[x], op, b) + Count(down'[x], op, b)
    <2>1. a = u + t /\ u \in Nat
      BY <1>2
    <2>2. v = u + c + w + z
      BY <1>3
    <2>3. a \in Nat
      <3>1. up[x] \in Seq(Request)
        BY <1>1
      <3> QED BY <1>1, <3>1 DEF Counting
    <2>4. c \in Nat /\ w \in Nat
      <3>1. down[x] \in Seq(Response) /\ ans[x] \in Seq(Response)
        BY <1>1
      <3> QED BY <1>1, <3>1 DEF Counting
    <2>5. z \in Nat
      <3>1. Count(rq, op, b) \in Nat /\ 0 \in Nat
        BY <1>1 DEF Counting
      <3> QED BY <3>1
    <2>6. t \in Nat
      BY DEF Bit
    <2>7. Moving(x, op, b) = a + c /\ Moving(x, op, b)' = v
      BY DEF Moving
    <2> HIDE DEF a, c, u, t, w, z, v
    <2>8. a + c \in Nat /\ v \in Nat /\ v + t = a + c + w + z
      BY SMTT(60), <2>1, <2>2, <2>3, <2>4, <2>5, <2>6
    <2> QED BY <2>7, <2>8 DEF t, w, z
  <1>5. Passed(n, r, ans)
    BY <1>2, <1>3 DEF Passed
  <1> QED BY <1>3, <1>4, <1>5 DEF Flow

(* Rank r handles an answer. *)
LEMMA HearFlow ==
    ASSUME Laws, TypeOK, NEW r \in Rank, down[r] # <<>>,
           NEW rq \in Seq(Request), NEW ans \in [Node -> Seq(Response)],
           Post(up, Taken(down, r), r, rq, ans)
    PROVE  /\ Flow(r, Head(down[r]), r, rq, ans)
           /\ Passed(r, r, ans)
           /\ Oks(down'[r]) \subseteq Oks(Tail(down[r])) \cup Oks(ans[r])
  <1> DEFINE D == Taken(down, r)
  <1>1. r \in Node
    BY DEF Node
  <1>2. /\ up \in [Node -> Seq(Request)] /\ down \in [Node -> Seq(Response)]
        /\ Counting(Request) /\ Counting(Response)
    BY DEF TypeOK, Laws
  <1>3. /\ D \in [Node -> Seq(Response)]
        /\ \A x \in Node : x # r => D[x] = down[x]
        /\ D[r] = Tail(down[r])
        /\ \A x \in Node : \A op, b :
             /\ Count(down[x], op, b) = Count(D[x], op, b)
                                        + Bit(x = r /\ Fits(Head(down[r]), op, b))
             /\ Count(D[x], op, b) \in Nat
    BY <1>1, <1>2, TakenIs
  <1> HIDE DEF D
  <1>4. /\ up' \in [Node -> Seq(Request)] /\ down' \in [Node -> Seq(Response)]
        /\ \A x \in Node : \A op, b :
             Count(up'[x], op, b) + Count(down'[x], op, b)
               = Count(up[x], op, b) + Count(D[x], op, b) + Count(ans[x], op, b)
                 + (IF x = r THEN Count(rq, op, b) ELSE 0)
        /\ \A x \in Node : x # r => up'[x] = up[x] /\ down'[x] = D[x] \o ans[x]
        /\ \A x \in Node : Oks(down'[x]) = Oks(D[x]) \cup Oks(ans[x])
    <2>1. Post(up, D, r, rq, ans)
      BY DEF D
    <2>2. Posted(up, D, r, rq, ans)
      BY <1>2, <1>3, <2>1, PostIs
    <2> QED BY <2>2 DEF Posted
  <1>5. ASSUME NEW x \in Node, NEW op, NEW b
        PROVE  /\ Moving(x, op, b) \in Nat /\ Moving(x, op, b)' \in Nat
               /\ Moving(x, op, b)' + Bit(x = r /\ Fits(Head(down[r]), op, b))
                    = Moving(x, op, b) + Count(ans[x], op, b)
                      + (IF x = r THEN Count(rq, op, b) ELSE 0)
    <2> DEFINE a == Count(up[x], op, b)
               c == Count(down[x], op, b)
               u == Count(D[x], op, b)
               t == Bit(x = r /\ Fits(Head(down[r]), op, b))
               w == Count(ans[x], op, b)
               z == IF x = r THEN Count(rq, op, b) ELSE 0
               v == Count(up'[x], op, b) + Count(down'[x], op, b)
    <2>1. c = u + t /\ u \in Nat
      BY <1>3
    <2>2. v = a + u + w + z
      BY <1>4
    <2>3. a \in Nat
      <3>1. up[x] \in Seq(Request)
        BY <1>2
      <3> QED BY <1>2, <3>1 DEF Counting
    <2>4. c \in Nat /\ w \in Nat
      <3>1. down[x] \in Seq(Response) /\ ans[x] \in Seq(Response)
        BY <1>2
      <3> QED BY <1>2, <3>1 DEF Counting
    <2>5. z \in Nat
      <3>1. Count(rq, op, b) \in Nat /\ 0 \in Nat
        BY <1>2 DEF Counting
      <3> QED BY <3>1
    <2>6. t \in Nat
      BY DEF Bit
    <2>7. Moving(x, op, b) = a + c /\ Moving(x, op, b)' = v
      BY DEF Moving
    <2> HIDE DEF a, c, u, t, w, z, v
    <2>8. a + c \in Nat /\ v \in Nat /\ v + t = a + c + w + z
      BY SMTT(60), <2>1, <2>2, <2>3, <2>4, <2>5, <2>6
    <2> QED BY <2>7, <2>8 DEF t, w, z
  <1>6. Passed(r, r, ans)
    BY <1>3, <1>4 DEF Passed
  <1>7. ASSUME NEW x \in Node PROVE Oks(D[x]) \subseteq Oks(down[x])
    <2>1. CASE x = r
      <3>1. down[r] \in Seq(Response)
        BY <1>1, <1>2
      <3>2. Oks(Tail(down[r])) \subseteq Oks(down[r])
        BY <3>1, OksTail
      <3> QED BY <1>3, <2>1, <3>2
    <2>2. CASE x # r
      BY <1>3, <2>2
    <2> QED BY <2>1, <2>2
  <1>8. \A x \in Node : Oks(down'[x]) \subseteq Oks(down[x]) \cup Oks(ans[x])
    BY <1>4, <1>7
  <1>9. Oks(down'[r]) = Oks(Tail(down[r])) \cup Oks(ans[r])
    BY <1>1, <1>3, <1>4
  <1> QED BY <1>4, <1>5, <1>6, <1>8, <1>9 DEF Flow

(* An empty queue has no message. *)
LEMMA NoneCounted ==
    ASSUME Laws PROVE \A op, b : Count(<<>>, op, b) = 0
  BY DEF Laws, Counting
(* A message alone. *)
LEMMA OneCounted ==
    ASSUME Laws
    PROVE  /\ \A m \in Response : \A op, b : Count(<<m>>, op, b) = Bit(Fits(m, op, b))
           /\ \A m \in Request : \A op, b : Count(<<m>>, op, b) = Bit(Fits(m, op, b))
  <1>1. Counting(Response) /\ Counting(Request)
    BY DEF Laws
  <1>2. \A m \in Response : \A op, b : Count(<<m>>, op, b) = Bit(Fits(m, op, b))
    BY <1>1 DEF Counting
  <1>3. \A m \in Request : \A op, b : Count(<<m>>, op, b) = Bit(Fits(m, op, b))
    BY <1>1 DEF Counting
  <1> QED BY <1>2, <1>3

(* The same answer to all nodes of N. *)
AnswersTo(N, m, ans) ==
    /\ ans \in [Node -> Seq(Response)]
    /\ \A x \in Node : \A op, b : Count(ans[x], op, b) = Bit(x \in N /\ Fits(m, op, b))
    /\ \A x \in Node : \A c \in Oks(ans[x]) : x \in N /\ m.b = c /\ m.err = "ok"
    /\ \A x \in Node : \A c \in Acks(ans[x]) : x \in N /\ m = Rsp("store", c, "ok")
    /\ \A x \in Node : ans[x] = IF x \in N THEN <<m>> ELSE <<>>

(* respond_requests_raw() does that. *)
LEMMA AnswersIs ==
    ASSUME Laws, NEW N, NEW m \in Response, NEW ans, ans = Answers(N, m)
    PROVE  AnswersTo(N, m, ans)
  <1>1. <<m>> \in Seq(Response) /\ <<>> \in Seq(Response)
    BY SMTT(60)
  <1>2. /\ DOMAIN <<>> = {}
        /\ \A i \in DOMAIN <<m>> : <<m>>[i] = m
    BY SMTT(60)
  <1>3. \A x \in Node : ans[x] = IF x \in N THEN <<m>> ELSE <<>>
    BY DEF Answers
  <1>4. ans \in [Node -> Seq(Response)]
    BY <1>1 DEF Answers
  <1>5. ASSUME NEW x \in Node, NEW op, NEW b
        PROVE  Count(ans[x], op, b) = Bit(x \in N /\ Fits(m, op, b))
    <2>1. CASE x \in N
      <3>1. Count(<<m>>, op, b) = Bit(Fits(m, op, b))
        BY OneCounted
      <3> QED BY <1>3, <2>1, <3>1 DEF Bit
    <2>2. CASE x \notin N
      <3>1. Count(<<>>, op, b) = 0
        BY NoneCounted
      <3> QED BY <1>3, <2>2, <3>1 DEF Bit
    <2> QED BY <2>1, <2>2
  <1>6. ASSUME NEW x \in Node, NEW i \in DOMAIN ans[x] PROVE x \in N /\ ans[x][i] = m
    <2>1. CASE x \in N
      BY <1>2, <1>3, <2>1
    <2>2. CASE x \notin N
      BY <1>2, <1>3, <2>2
    <2> QED BY <2>1, <2>2
  <1>7. \A x \in Node : \A c \in Oks(ans[x]) : x \in N /\ m.b = c /\ m.err = "ok"
    BY <1>6 DEF Oks
  <1>8. \A x \in Node : \A c \in Acks(ans[x]) : x \in N /\ m = Rsp("store", c, "ok")
    BY <1>6 DEF Acks
  <1> QED BY <1>3, <1>4, <1>5, <1>7, <1>8 DEF AnswersTo

(* No answer. *)
LEMMA SilenceIs ==
    ASSUME Laws
    PROVE  /\ Silence \in [Node -> Seq(Response)]
           /\ \A x \in Node : \A op, b : Count(Silence[x], op, b) = 0
           /\ \A x \in Node : Oks(Silence[x]) = {} /\ Acks(Silence[x]) = {} /\ Silence[x] = <<>>
  <1>1. <<>> \in Seq(Response) /\ DOMAIN <<>> = {}
    BY SMTT(60)
  <1>2. Silence = [n \in Node |-> <<>>]
    BY DEF Silence, Answers
  <1>3. \A x \in Node : Silence[x] = <<>>
    BY <1>2
  <1>4. \A op, b : Count(<<>>, op, b) = 0
    BY NoneCounted
  <1>5. Oks(<<>>) = {} /\ Acks(<<>>) = {}
    BY <1>1 DEF Oks, Acks
  <1>6. Silence \in [Node -> Seq(Response)]
    BY <1>1, <1>2
  <1> QED BY <1>3, <1>4, <1>5, <1>6

(* Two answers. *)
BothTo(a, c, ans) ==
    /\ ans \in [Node -> Seq(Response)]
    /\ \A x \in Node : \A op, b :
         Count(ans[x], op, b) = Count(a[x], op, b) + Count(c[x], op, b)
    /\ \A x \in Node : Oks(ans[x]) = Oks(a[x]) \cup Oks(c[x])
    /\ \A x \in Node : Acks(ans[x]) = Acks(a[x]) \cup Acks(c[x])
    /\ \A x \in Node : ans[x] = a[x] \o c[x]

(* Two rounds of answers are counted in each. *)
LEMMA BothIs ==
    ASSUME Laws, NEW a \in [Node -> Seq(Response)], NEW c \in [Node -> Seq(Response)],
           NEW ans, ans = Both(a, c)
    PROVE  BothTo(a, c, ans)
  <1>1. ASSUME NEW x \in Node
        PROVE  /\ a[x] \o c[x] \in Seq(Response)
               /\ \A op, b : Count(a[x] \o c[x], op, b) = Count(a[x], op, b) + Count(c[x], op, b)
               /\ Oks(a[x] \o c[x]) = Oks(a[x]) \cup Oks(c[x])
               /\ Acks(a[x] \o c[x]) = Acks(a[x]) \cup Acks(c[x])
    <2>1. a[x] \in Seq(Response) /\ c[x] \in Seq(Response)
      OBVIOUS
    <2>2. \A op, b : Count(a[x] \o c[x], op, b) = Count(a[x], op, b) + Count(c[x], op, b)
      BY <2>1 DEF Laws, Counting
    <2> QED BY <2>1, <2>2, ConcatIs, OksConcat
  <1>2. \A x \in Node : ans[x] = a[x] \o c[x]
    BY DEF Both
  <1>3. ans \in [Node -> Seq(Response)]
    BY <1>1 DEF Both
  <1> QED BY <1>1, <1>2, <1>3 DEF BothTo

(* A handler of rank r that takes message m of y, leaves cache k, and      *)
(* sends rq and ans, keeps what it should of requests pending.             *)
Balanced(y, m, r, k, rq, ans) ==
    /\ y = r \/ Child(y, r)
    /\ \A op \in {"load", "store"}, b \in Blob :
         /\ Count(rq, op, b) + Count(ans[r], op, b) + Pending(cache[r], op, b)
              = Pending(k, op, b) + Bit(y = r /\ Fits(m, op, b))
         /\ \A x \in Rank \ {r} :
              IF Child(x, r)
              THEN Count(ans[x], op, b) + Waits(k, x, op, b)
                     = Waits(cache[r], x, op, b) + Bit(y = x /\ Fits(m, op, b))
              ELSE Count(ans[x], op, b) = 0

(* A handler that balances keeps one message per pending entry. *)
LEMMA BalancedOne ==
    ASSUME TypeOK, Laws, Singles, NEW y, NEW m, NEW r \in Rank, NEW k \in Cache, NEW rq, NEW ans,
           cache' = [cache EXCEPT ![r] = k], lost' = lost, ans \in [Node -> Seq(Response)],
           rq \in Seq(Request), Flow(y, m, r, rq, ans), Balanced(y, m, r, k, rq, ans)
    PROVE  Singles'
  <1>1. /\ cache \in [Rank -> Cache] /\ cache'[r] = k
        /\ \A x \in Rank \ {r} : cache'[x] = cache[x]
    BY DEF TypeOK
  <1>2. SUFFICES ASSUME NEW x \in Rank, NEW op \in {"load", "store"}, NEW b \in Blob
                 PROVE  Single(x, op, b)'
    BY DEF Singles
  <1> DEFINE v == Moving(x, op, b)
             w == Moving(x, op, b)'
             t == Bit(x = y /\ Fits(m, op, b))
             c == Count(ans[x], op, b)
             q == Count(rq, op, b)
             a == Above(x, op, b)
             d == Above(x, op, b)'
             p == Pending(cache[x], op, b)
             o == Pending(cache'[x], op, b)
             l == Lost(x, op, b)
  <1>3. x \in Node
    BY DEF Node
  <1>4. v \in Nat /\ w \in Nat /\ w + t = v + c + (IF x = r THEN q ELSE 0)
    BY <1>3 DEF Flow
  <1>5. v + a + l = p
    BY DEF Singles, Single
  <1>6. c \in Nat /\ q \in Nat
    <2>1. ans[x] \in Seq(Response)
      BY <1>3
    <2>2. c \in Nat
      BY <2>1 DEF Laws, Counting
    <2>3. q \in Nat
      BY DEF Laws, Counting
    <2> QED BY <2>2, <2>3
  <1>7. a \in Nat /\ d \in Nat /\ p \in Nat /\ o \in Nat /\ t \in Nat /\ l \in Nat
    BY DEF Above, Waits, Pending, Bit, Lost
  <1>8. x # 0 => Parent[x] \in Rank /\ Parent[x] # x
    <2>1. CASE x # 0
      <3>1. Parent[x] \in Rank /\ Parent[x] < x /\ x \in Nat /\ Rank \subseteq Nat
        BY <2>1, TreeAssumption
      <3>2. Parent[x] # x
        BY SMTT(60), <3>1
      <3> QED BY <3>1, <3>2
    <2> QED BY <2>1
  <1> SUFFICES w + d + l = o
    BY DEF Single, Lost
  <1>9. CASE x = r
    <2>1. d = a
      BY <1>1, <1>8, <1>9 DEF Above
    <2>2. q + c + p = o + t
      <3>1. q + c + p = o + Bit(y = r /\ Fits(m, op, b))
        BY <1>1, <1>9 DEF Balanced
      <3>2. Bit(y = r /\ Fits(m, op, b)) = t
        BY <1>9 DEF Bit
      <3> QED BY <3>1, <3>2
    <2> HIDE DEF v, w, t, c, q, a, d, p, o, l
    <2> QED BY SMTT(60), <1>4, <1>5, <1>6, <1>7, <1>9, <2>1, <2>2
  <1>10. CASE x # r /\ Child(x, r)
    <2>1. x # 0
      BY <1>10, TreeAssumption DEF Child
    <2>2. a = Waits(cache[r], x, op, b) /\ d = Waits(k, x, op, b) /\ p = o
      BY <1>1, <1>10, <2>1 DEF Above, Child
    <2>3. c + d = a + t
      <3>1. c + Waits(k, x, op, b) = Waits(cache[r], x, op, b) + Bit(y = x /\ Fits(m, op, b))
        BY <1>10 DEF Balanced
      <3>2. Bit(y = x /\ Fits(m, op, b)) = t
        BY DEF Bit
      <3> QED BY <2>2, <3>1, <3>2
    <2>4. p = o
      BY <2>2
    <2> HIDE DEF v, w, t, c, q, a, d, p, o, l
    <2> QED BY SMTT(60), <1>4, <1>5, <1>6, <1>7, <1>10, <2>3, <2>4
  <1>11. CASE x # r /\ ~Child(x, r)
    <2>1. a = d /\ p = o
      <3>1. p = o
        BY <1>1, <1>11
      <3>2. CASE x = 0
        BY <3>1, <3>2 DEF Above
      <3>3. CASE x # 0
        <4>1. Parent[x] # r /\ Parent[x] \in Rank
          BY <1>8, <1>11, <3>3, TreeAssumption DEF Child
        <4> QED BY <1>1, <3>1, <3>3, <4>1 DEF Above
      <3> QED BY <3>1, <3>2, <3>3
    <2>2. c = 0
      BY <1>11 DEF Balanced
    <2>3. t = 0
      BY <1>11 DEF Balanced, Bit
    <2> HIDE DEF v, w, t, c, q, a, d, p, o, l
    <2> QED BY SMTT(60), <1>4, <1>5, <1>6, <1>7, <1>11, <2>1, <2>2, <2>3
  <1> QED BY <1>9, <1>10, <1>11

-----------------------------------------------------------------------------
(* What every handler keeps *)

(* The requests deferred in cache k of rank r come from its children. *)
Routed(k, r) ==
    /\ \A n \in Node, b \in Blob : <<n, b>> \in k.loadReq \/ <<n, b>> \in k.storeReq => Child(n, r)
    /\ \A n \in k.flushReq : Child(n, r)

(* A handler of rank r that takes message m of y, leaves cache k, and      *)
(* sends rq and ans.                                                       *)
Handled(y, m, r, k, rq, ans) ==
    /\ k \in Cache /\ rq \in Seq(Request) /\ ans \in [Node -> Seq(Response)]
    /\ cache' = [cache EXCEPT ![r] = k]
    /\ Flow(y, m, r, rq, ans)
    /\ waiting' = waiting \ {n \in Client \cup {Module} : ans[n] # <<>>}
    /\ acked \subseteq acked'
    /\ \A b \in acked' \ acked : \E n \in Client : b \in Acks(ans[n])
    /\ reqs' = reqs /\ UNCHANGED modVars

(* A handler that ends with Post() handles its message in that way. *)
LEMMA PostHandled ==
    ASSUME Laws, TypeOK, NEW r \in Rank, NEW k \in Cache, cache' = [cache EXCEPT ![r] = k],
           NEW y, NEW m, NEW rq \in Seq(Request), NEW ans \in [Node -> Seq(Response)],
           Flow(y, m, r, rq, ans), NEW U, NEW D, Post(U, D, r, rq, ans),
           reqs' = reqs, UNCHANGED modVars
    PROVE  Handled(y, m, r, k, rq, ans)
  <1>1. waiting' = waiting \ {n \in Client \cup {Module} : ans[n] # <<>>}
    BY DEF Post
  <1>2. acked \subseteq acked'
    BY DEF Post
  <1>3. ASSUME NEW b \in acked' \ acked PROVE \E n \in Client : b \in Acks(ans[n])
    BY DEF Post, Acks
  <1> QED BY <1>1, <1>2, <1>3 DEF Handled

(* What a handler has to show for the invariant to be preserved. *)
LEMMA HandlerIs ==
    ASSUME Laws, TypeOK, Routes, Singles, \A i \in Rank : Counted(cache[i], i), NEW y, NEW m,
           NEW r \in Rank, NEW k, NEW rq, NEW ans, Handled(y, m, r, k, rq, ans),
           backing' \in BOOLEAN, aborted' \in BOOLEAN, discarded' \subseteq Blob
    PROVE  /\ TypeOK'
           /\ Routed(k, r) => Routes'
           /\ Counted(k, r) => \A i \in Rank : Counted(cache'[i], i)
           /\ Balanced(y, m, r, k, rq, ans) => Singles'
  <1>1. /\ cache' = [cache EXCEPT ![r] = k] /\ cache \in [Rank -> Cache] /\ k \in Cache
        /\ Flow(y, m, r, rq, ans) /\ reqs' = reqs /\ UNCHANGED modVars
        /\ rq \in Seq(Request) /\ ans \in [Node -> Seq(Response)]
    BY DEF Handled, TypeOK
  <1>2. cache' \in [Rank -> Cache] /\ cache'[r] = k /\ \A x \in Rank \ {r} : cache'[x] = cache[x]
    BY <1>1
  <1>3. TypeOK'
    <2>1. waiting' \subseteq Client \cup {Module}
      BY DEF Handled, TypeOK
    <2>2. acked' \subseteq Blob
      BY DEF Handled, TypeOK, Acks
    <2>3. up' \in [Node -> Seq(Request)] /\ down' \in [Node -> Seq(Response)]
      BY <1>1 DEF Flow
    <2> QED BY <1>1, <1>2, <2>1, <2>2, <2>3 DEF TypeOK, modVars
  <1>4. ASSUME Routed(k, r) PROVE Routes'
    <2>1. ASSUME NEW x \in Rank PROVE Routed(cache'[x], x)
      <3>1. CASE x = r
        BY <1>2, <1>4, <3>1
      <3>2. CASE x # r
        <4>1. Routed(cache[x], x)
          BY DEF Routes, Routed
        <4> QED BY <1>2, <3>2, <4>1
      <3> QED BY <3>1, <3>2
    <2> QED BY <2>1 DEF Routes, Routed, Child
  <1>5. ASSUME Counted(k, r), NEW i \in Rank PROVE Counted(cache'[i], i)
    BY <1>2, <1>5
  <1>6. ASSUME Balanced(y, m, r, k, rq, ans) PROVE Singles'
    <2>1. lost' = lost
      BY <1>1 DEF modVars
    <2> QED BY <1>1, <1>6, <2>1, BalancedOne
  <1> QED BY <1>3, <1>4, <1>5, <1>6

(* What the cache of rank 0 knows of content-sqlite does not change. *)
LEMMA LivingIs ==
    ASSUME TypeOK, Living, UNCHANGED modVars, backing' = backing, up'[Module] = up[Module],
           Module \notin waiting' => Module \notin waiting,
           \A b \in Blob : <<Module, b>> \notin cache'[0].loadReq,
           cache'[0].storeReq = {}, Module \notin cache'[0].flushReq,
           cache'[0].dirty \cap Huge = {}, Oks(down'[0]) \subseteq Oks(down[0])
    PROVE  Living'
  <1>1. mod' = mod /\ db' = db /\ dump' = dump
    BY DEF modVars
  <1>2. Asked'
    BY <1>1 DEF Living, Asked
  <1> QED BY <1>1, <1>2 DEF Living

(* The module has at most one request on its way. *)
LEMMA ModuleIs ==
    ASSUME TypeOK, Living, up[Module] # <<>>
    PROVE  /\ Tail(up[Module]) = <<>> /\ Head(up[Module]).op \in {"on", "off", "store"}
           /\ Head(up[Module]).op = "on" => mod = "loading"
           /\ Head(up[Module]).op = "off" => mod = "stopping"
           /\ Head(up[Module]).op = "store" =>
                /\ mod = "dumping" /\ ~backing /\ Head(up[Module]).b \in db
                /\ up[Module] = <<Head(up[Module])>>
  <1>1. \A x : Head(<<x>>) = x /\ Tail(<<x>>) = <<>>
    BY SMTT(60)
  <1>2. /\ \A o, c : Req(o, c).op = o /\ Req(o, c).b = c
        /\ mod \in Life /\ Asked
    BY DEF Req, TypeOK, Living
  <1> DEFINE h == Head(up[Module])
  <1>3. CASE up[Module] = <<Req("on", NoBlob)>> /\ mod = "loading"
    <2>1. h = Req("on", NoBlob) /\ Tail(up[Module]) = <<>>
      BY <1>1, <1>3
    <2>2. h.op = "on"
      BY <1>2, <2>1
    <2> HIDE DEF h
    <2>3. h.op \in {"on", "off", "store"} /\ h.op # "off" /\ h.op # "store"
      BY <2>2
    <2> QED BY <1>3, <2>1, <2>3 DEF h
  <1>4. CASE up[Module] = <<Req("off", NoBlob)>> /\ mod = "stopping"
    <2>1. h = Req("off", NoBlob) /\ Tail(up[Module]) = <<>>
      BY <1>1, <1>4
    <2>2. h.op = "off"
      BY <1>2, <2>1
    <2> HIDE DEF h
    <2>3. h.op \in {"on", "off", "store"} /\ h.op # "on" /\ h.op # "store"
      BY <2>2
    <2> QED BY <1>4, <2>1, <2>3 DEF h
  <1>5. CASE mod = "dumping" /\ ~backing /\ \E b \in db : up[Module] = <<Req("store", b)>>
    <2>1. PICK b \in db : up[Module] = <<Req("store", b)>>
      BY <1>5
    <2>2. h = Req("store", b) /\ Tail(up[Module]) = <<>>
      BY <1>1, <2>1
    <2>3. h.op = "store" /\ h.b \in db /\ up[Module] = <<h>>
      <3>1. Req("store", b).op = "store" /\ Req("store", b).b = b
        BY DEF Req
      <3>2. h.op = "store" /\ h.b = b
        BY <2>2, <3>1
      <3>3. up[Module] = <<h>>
        BY <2>1, <2>2
      <3> QED BY <3>2, <3>3
    <2> HIDE DEF h
    <2>4. h.op \in {"on", "off", "store"} /\ h.op # "on" /\ h.op # "off"
      BY <2>3
    <2> QED BY <1>5, <2>2, <2>3, <2>4 DEF h
  <1>6. \/ up[Module] = <<Req("on", NoBlob)>> /\ mod = "loading"
        \/ up[Module] = <<Req("off", NoBlob)>> /\ mod = "stopping"
        \/ mod = "dumping" /\ ~backing /\ \E b \in db : up[Module] = <<Req("store", b)>>
    BY <1>2 DEF Asked, Life
  <1> QED BY <1>3, <1>4, <1>5, <1>6

(* The nodes of the tree. *)
LEMMA NodesAre ==
    /\ 0 \in Rank /\ 0 \in Node /\ Module \in Node /\ Module \notin Rank /\ Module \notin Client
    /\ \A r \in Rank : r \in Node /\ ~Child(r, r) /\ r \notin Client
    /\ \A n, r : Child(n, r) => n # r /\ n \in Node /\ n # 0
    /\ \A n, r : Child(n, r) /\ n = Module => r = 0
    /\ \A c \in Client : c \in Node /\ c \notin Rank
  <1>1. \A r \in Rank \ {0} : Parent[r] # r
    <2>1. ASSUME NEW r \in Rank \ {0} PROVE Parent[r] # r
      <3>1. Parent[r] < r /\ r \in Nat
        BY TreeAssumption
      <3> QED BY SMTT(60), <3>1
    <2> QED BY <2>1
  <1>2. /\ DOMAIN Parent = (Rank \ {0}) \cup Client \cup {Module}
        /\ \A n \in DOMAIN Parent : Parent[n] \in Rank
        /\ 0 \in Rank /\ Rank \cap (Client \cup {Module}) = {} /\ Module \notin Client
        /\ Parent[Module] = 0
    BY TreeAssumption
  <1>3. ASSUME NEW n, NEW r, Child(n, r) PROVE n # r /\ n \in Node /\ n # 0
    <2>1. n \in DOMAIN Parent /\ Parent[n] = r /\ r \in Rank
      BY <1>2, <1>3 DEF Child
    <2>2. CASE n \in Rank \ {0}
      BY <1>1, <2>1, <2>2 DEF Node
    <2>3. CASE n \in Client \cup {Module}
      <3>1. n \notin Rank
        BY <1>2, <2>3
      <3> QED BY <1>2, <2>1, <2>3, <3>1 DEF Node
    <2> QED BY <1>2, <2>1, <2>2, <2>3
  <1>4. ASSUME NEW r \in Rank PROVE r \in Node /\ ~Child(r, r) /\ r \notin Client
    BY <1>2, <1>3 DEF Node
  <1>5. ASSUME NEW n, NEW r, Child(n, r), n = Module PROVE r = 0
    BY <1>2, <1>5 DEF Child
  <1>6. 0 \in Rank /\ 0 \in Node /\ Module \in Node /\ Module \notin Rank /\ Module \notin Client
    BY <1>2 DEF Node
  <1>7. \A c \in Client : c \in Node /\ c \notin Rank
    BY <1>2 DEF Node
  <1> QED BY <1>3, <1>4, <1>5, <1>6, <1>7

(* When rank r leaves cache k, what was good is good: nothing held is lost *)
(* but by the failure of a load, and what is no longer dirty is good.      *)
LEMMA GoodIs ==
    ASSUME TypeOK, NEW r \in Rank, NEW k, cache' = [cache EXCEPT ![r] = k],
           Held \subseteq Held' \cup discarded', discarded \subseteq discarded',
           r # 0 => cache[r].dirty \ k.dirty \subseteq Good(r) \cup discarded'
    PROVE  /\ \A x \in Rank : Good(x) \subseteq Good(x)' /\ Good(x)' \subseteq Safe'
           /\ \A x \in Rank : r < x => Good(r)' \subseteq Good(x)'
           /\ Safe \subseteq Safe'
  <1>1. /\ cache \in [Rank -> Cache] /\ cache'[r] = k
        /\ \A x \in Rank \ {r} : cache'[x] = cache[x]
    BY DEF TypeOK
  <1>2. Inner \subseteq Rank /\ 0 \notin Inner
    <2>1. \A x \in Rank \ {0} : Parent[x] \in Rank
      BY TreeAssumption
    <2> QED BY <2>1 DEF Inner
  <1>3. Rank \subseteq Nat
    BY TreeAssumption
  <1>4. \A s \in Rank : /\ s < r => s # r
                        /\ \A x \in Rank : s < r /\ r < x => s < x
    BY SMTT(60), <1>3
  <1>5. Good(r) \subseteq Good(r)'
    <2>1. ASSUME NEW b \in Good(r) PROVE b \in Good(r)'
      <3>1. CASE b \in Held \cup discarded
        BY <3>1 DEF Good
      <3>2. CASE b \notin Held \cup discarded
        <4>1. PICK s \in Inner : s < r /\ b \in cache[s].dirty /\ b \in Blob
          BY <3>2 DEF Good
        <4>2. cache'[s] = cache[s]
          BY <1>1, <1>2, <1>4, <4>1
        <4> QED BY <4>1, <4>2 DEF Good
      <3> QED BY <3>1, <3>2
    <2> QED BY <2>1
  <1>6. ASSUME NEW x \in Rank, r < x PROVE Good(r)' \subseteq Good(x)'
    <2>1. ASSUME NEW b \in Good(r)' PROVE b \in Good(x)'
      <3>1. CASE b \in Held' \cup discarded'
        BY <3>1 DEF Good
      <3>2. CASE b \notin Held' \cup discarded'
        <4>1. PICK s \in Inner : s < r /\ b \in cache'[s].dirty /\ b \in Blob
          BY <3>2 DEF Good, Inner
        <4>2. s < x
          BY <1>2, <1>4, <1>6, <4>1
        <4> QED BY <4>1, <4>2 DEF Good, Inner
      <3> QED BY <3>1, <3>2
    <2> QED BY <2>1
  <1>7. ASSUME NEW s \in Inner, NEW b \in cache[s].dirty
        PROVE  b \in cache'[s].dirty \/ (s = r /\ b \in Good(r)')
    <2>1. CASE s # r
      BY <1>1, <1>2, <2>1
    <2>2. CASE s = r /\ b \in k.dirty
      BY <1>1, <2>2
    <2>3. CASE s = r /\ b \notin k.dirty
      <3>1. b \in Good(r) \cup discarded'
        BY <1>2, <2>3
      <3> QED BY <1>5, <2>3, <3>1 DEF Good
    <2> QED BY <2>1, <2>2, <2>3
  <1>8. ASSUME NEW x \in Rank PROVE Good(x) \subseteq Good(x)'
    <2>1. ASSUME NEW b \in Good(x) PROVE b \in Good(x)'
      <3>1. CASE b \in Held \cup discarded
        BY <3>1 DEF Good
      <3>2. CASE b \notin Held \cup discarded
        <4>1. PICK s \in Inner : s < x /\ b \in cache[s].dirty /\ b \in Blob
          BY <3>2 DEF Good
        <4>2. CASE b \in cache'[s].dirty
          BY <4>1, <4>2 DEF Good, Inner
        <4>3. CASE b \notin cache'[s].dirty
          BY <1>6, <1>7, <4>1, <4>3
        <4> QED BY <4>2, <4>3
      <3> QED BY <3>1, <3>2
    <2> QED BY <2>1
  <1>9. ASSUME NEW x \in Rank PROVE Good(x)' \subseteq Safe'
    BY DEF Good, Safe, Climbing, Inner
  <1>10. Safe \subseteq Safe'
    <2>1. ASSUME NEW b \in Safe PROVE b \in Safe'
      <3>1. CASE b \in Held \cup discarded
        BY <3>1 DEF Safe
      <3>2. CASE b \notin Held \cup discarded
        <4>1. PICK s \in Inner : b \in cache[s].dirty
          BY <3>2 DEF Safe, Climbing
        <4>2. CASE b \in cache'[s].dirty
          BY <4>1, <4>2 DEF Safe, Climbing, Inner
        <4>3. CASE b \notin cache'[s].dirty
          BY <1>7, <1>9, <4>1, <4>3
        <4> QED BY <4>2, <4>3
      <3> QED BY <3>1, <3>2
    <2> QED BY <2>1
  <1> QED BY <1>6, <1>8, <1>9, <1>10

(* Rank r answers its children with what is valid in its cache k, and on   *)
(* rank > 0 says that it is stored when it is clean.                       *)
Serves(r, k, ans) ==
    \A x \in Node : /\ Oks(ans[x]) # {} => Child(x, r)
                    /\ Oks(ans[x]) \subseteq k.valid
                    /\ Acks(ans[x]) \subseteq IF r = 0 THEN k.valid ELSE Clean(k)

(* A handler keeps what is stored if nothing that was held is lost but by  *)
(* the failure of a load, and what is clean is good.                       *)
LEMMA KeepIs ==
    ASSUME TypeOK, Keeping, NEW y, NEW m, NEW r \in Rank, NEW k, NEW rq, NEW ans,
           Handled(y, m, r, k, rq, ans), Serves(r, k, ans),
           Held \subseteq Held' \cup discarded', discarded \subseteq discarded',
           Clean(cache'[0]) \subseteq Backed',
           r # 0 => /\ cache[r].dirty \ k.dirty \subseteq Good(r) \cup discarded'
                    /\ Clean(k) \subseteq Good(r) \cup discarded'
    PROVE  Keeping'
  <1>1. /\ cache' = [cache EXCEPT ![r] = k] /\ cache \in [Rank -> Cache]
        /\ Flow(y, m, r, rq, ans) /\ k \in Cache
    BY DEF Handled, TypeOK
  <1>2. cache'[r] = k /\ \A x \in Rank \ {r} : cache'[x] = cache[x]
    BY <1>1
  <1>3. /\ \A x \in Rank : Good(x) \subseteq Good(x)' /\ Good(x)' \subseteq Safe'
        /\ \A x \in Rank : r < x => Good(r)' \subseteq Good(x)'
        /\ Safe \subseteq Safe'
    BY <1>1, GoodIs
  <1>4. r # 0 => Clean(k) \subseteq Good(r)'
    BY <1>3 DEF Good
  <1>5. r = 0 => k.valid \subseteq Held'
    BY <1>2 DEF Held
  <1>6. ASSUME NEW x \in Rank \ {0}, NEW c \in Oks(ans[x]) PROVE c \in Good(x)'
    <2>1. x \in Node /\ Child(x, r) /\ c \in k.valid
      BY DEF Node, Serves
    <2>2. CASE r = 0
      BY <1>5, <2>1, <2>2 DEF Good
    <2>3. CASE r # 0
      <3>1. r \in Inner /\ r < x
        BY <2>1, <2>3, TreeAssumption DEF Inner, Child
      <3>2. CASE c \in k.dirty
        <4>1. c \in Blob
          BY DEF Oks
        <4> QED BY <1>2, <3>1, <3>2, <4>1 DEF Good, Inner
      <3>3. CASE c \notin k.dirty
        BY <1>3, <1>4, <2>1, <2>3, <3>1, <3>3 DEF Clean
      <3> QED BY <3>2, <3>3
    <2> QED BY <2>2, <2>3
  <1>7. ASSUME NEW x \in Rank \ {0}
        PROVE  Clean(cache'[x]) \subseteq Good(x)' /\ Oks(down'[x]) \subseteq Good(x)'
    <2>1. Clean(cache[x]) \subseteq Good(x) /\ Oks(down[x]) \subseteq Good(x)
      BY DEF Keeping
    <2>2. Clean(cache'[x]) \subseteq Good(x)'
      <3>1. CASE x = r
        BY <1>2, <1>4, <3>1
      <3>2. CASE x # r
        BY <1>2, <1>3, <2>1, <3>2
      <3> QED BY <3>1, <3>2
    <2>3. Oks(down'[x]) \subseteq Oks(down[x]) \cup Oks(ans[x])
      BY <1>1 DEF Flow, Node
    <2> QED BY <1>3, <1>6, <2>1, <2>2, <2>3
  <1>8. ASSUME NEW b \in acked' PROVE b \in Safe'
    <2>1. CASE b \in acked
      BY <1>3, <2>1 DEF Keeping
    <2>2. CASE b \notin acked
      <3>1. PICK n \in Client : b \in Acks(ans[n])
        BY <2>2 DEF Handled
      <3>2. b \in IF r = 0 THEN k.valid ELSE Clean(k)
        BY <3>1 DEF Node, Serves
      <3> QED BY <1>3, <1>4, <1>5, <3>2 DEF Safe
    <2> QED BY <2>1, <2>2
  <1> QED BY <1>7, <1>8 DEF Keeping, Clean, Oks

(* The messages. *)
LEMMA MessageIs ==
    ASSUME NEW m \in Request \cup Response
    PROVE  /\ m.op \in {"load", "store"} => m.b \in Blob
           /\ m.op \in {"flush", "on", "off"} => m.b = NoBlob
  BY DEF Request, Response

(* An answer consists of its fields. *)
LEMMA ResponseIs ==
    ASSUME NEW m \in Response
    PROVE  m = Rsp(m.op, m.b, m.err) /\ m.err \in Errnum
  BY SMTT(60) DEF Response, Rsp

(* The answers that are made. *)
LEMMA RspIs ==
    ASSUME NEW o, NEW c, NEW e \in Errnum
    PROVE  /\ o \in {"load", "store"} /\ c \in Blob => Rsp(o, c, e) \in Response
           /\ o \in {"flush", "on", "off"} => Rsp(o, NoBlob, e) \in Response
  BY DEF Response, Rsp

(* The requests that are made. *)
LEMMA ReqIs ==
    ASSUME NEW o, NEW c
    PROVE  /\ o \in {"load", "store"} /\ c \in Blob => Req(o, c) \in Request
           /\ o \in {"flush", "on", "off"} => Req(o, NoBlob) \in Request
  BY DEF Request, Req

(* What a request is about. *)
LEMMA ReqFits ==
    \A o, c, p, b : Fits(Req(o, c), p, b) <=> o = p /\ c = b
  BY DEF Fits, Req

(* What an answer is about. *)
LEMMA RspFits ==
    \A o, c, e, p, b : Fits(Rsp(o, c, e), p, b) <=> o = p /\ c = b
  BY DEF Fits, Rsp

(* The message a handler takes. *)
Question(r, n, op) ==
    /\ TypeOK /\ ~aborted /\ Sound /\ Child(n, r) /\ up[n] # <<>> /\ up[n] \in Seq(Request)
    /\ Head(up[n]) \in Request /\ Head(up[n]).op = op
    /\ op \in {"load", "store"} => Head(up[n]).b \in Blob
    /\ \A p, b : Fits(Head(up[n]), p, b) <=> op = p /\ Head(up[n]).b = b

(* A request handler starts so. *)
LEMMA AskIs ==
    ASSUME Inv, NEW r \in Rank, NEW n \in Node, NEW op, Asks(r, n, op)
    PROVE  Question(r, n, op)
  <1>1. /\ TypeOK /\ ~aborted /\ Sound /\ up[n] # <<>> /\ Head(up[n]).op = op
        /\ up[n] \in Seq(Request)
    BY DEF Inv, Asks, TypeOK
  <1>2. Child(n, r)
    BY DEF Asks, Child
  <1>3. Head(up[n]) \in Request
    BY <1>1, TailIs
  <1>4. op \in {"load", "store"} => Head(up[n]).b \in Blob
    BY <1>1, <1>3, MessageIs
  <1>5. \A p, b : Fits(Head(up[n]), p, b) <=> op = p /\ Head(up[n]).b = b
    BY <1>1 DEF Fits
  <1> QED BY <1>1, <1>2, <1>3, <1>4, <1>5 DEF Question
Answer(r, op) ==
    /\ TypeOK /\ ~aborted /\ Sound /\ down[r] # <<>> /\ down[r] \in Seq(Response)
    /\ Head(down[r]) \in Response /\ Head(down[r]).op = op
    /\ op \in {"load", "store"} => Head(down[r]).b \in Blob
    /\ \A p, b : Fits(Head(down[r]), p, b) <=> op = p /\ Head(down[r]).b = b

(* A continuation starts so. *)
LEMMA HearIs ==
    ASSUME Inv, NEW r \in Rank, NEW op, Hears(r, op)
    PROVE  Answer(r, op)
  <1>1. /\ TypeOK /\ ~aborted /\ Sound /\ down[r] # <<>> /\ Head(down[r]).op = op
        /\ down[r] \in Seq(Response)
    BY DEF Inv, Hears, TypeOK, Node
  <1>2. Head(down[r]) \in Response
    BY <1>1, TailIs
  <1>3. op \in {"load", "store"} => Head(down[r]).b \in Blob
    BY <1>1, <1>2, MessageIs
  <1>4. \A p, b : Fits(Head(down[r]), p, b) <=> op = p /\ Head(down[r]).b = b
    BY <1>1 DEF Fits
  <1> QED BY <1>1, <1>2, <1>3, <1>4 DEF Answer

(* The first message of a queue counts. *)
LEMMA TailCounted ==
    ASSUME NEW M, Counting(M), NEW q \in Seq(M), q # <<>>
    PROVE  \A op, b : Count(q, op, b) = Count(Tail(q), op, b) + Bit(Fits(Head(q), op, b))
  BY DEF Counting

(* A rank whose request is taken, or that takes an answer, has it pending, *)
(* and no other request deferred.                                          *)
LEMMA OneMoves ==
    ASSUME Laws, TypeOK, Singles, NEW x \in Rank, NEW op \in {"load", "store"}, NEW b \in Blob,
           \/ up[x] # <<>> /\ Fits(Head(up[x]), op, b)
           \/ down[x] # <<>> /\ Fits(Head(down[x]), op, b)
    PROVE  Pending(cache[x], op, b) = 1 /\ Above(x, op, b) = 0
  <1>1. up[x] \in Seq(Request) /\ down[x] \in Seq(Response)
    BY DEF TypeOK, Node
  <1>2. Counting(Request) /\ Counting(Response)
    BY DEF Laws
  <1>3. /\ Count(up[x], op, b) \in Nat /\ Count(down[x], op, b) \in Nat
    BY <1>1, <1>2 DEF Counting
  <1>4. Count(up[x], op, b) + Count(down[x], op, b) >= 1
    <2>1. CASE up[x] # <<>> /\ Fits(Head(up[x]), op, b)
      <3>1. Tail(up[x]) \in Seq(Request)
        BY <1>1, <2>1, TailIs
      <3>2. Count(Tail(up[x]), op, b) \in Nat
        BY <1>2, <3>1 DEF Counting
      <3>3. Count(up[x], op, b) = Count(Tail(up[x]), op, b) + Bit(Fits(Head(up[x]), op, b))
        BY <1>1, <1>2, <2>1, TailCounted
      <3>4. Bit(Fits(Head(up[x]), op, b)) = 1
        BY <2>1 DEF Bit
      <3> QED BY SMTT(60), <1>3, <3>2, <3>3, <3>4
    <2>2. CASE down[x] # <<>> /\ Fits(Head(down[x]), op, b)
      <3>1. Tail(down[x]) \in Seq(Response)
        BY <1>1, <2>2, TailIs
      <3>2. Count(Tail(down[x]), op, b) \in Nat
        BY <1>2, <3>1 DEF Counting
      <3>3. Count(down[x], op, b) = Count(Tail(down[x]), op, b) + Bit(Fits(Head(down[x]), op, b))
        BY <1>1, <1>2, <2>2, TailCounted
      <3>4. Bit(Fits(Head(down[x]), op, b)) = 1
        BY <2>2 DEF Bit
      <3> QED BY SMTT(60), <1>3, <3>2, <3>3, <3>4
    <2> QED BY <2>1, <2>2
  <1>5. Count(up[x], op, b) + Count(down[x], op, b) + Above(x, op, b) + Lost(x, op, b)
          = Pending(cache[x], op, b)
    BY DEF Singles, Single, Moving
  <1>6. /\ Above(x, op, b) \in {0, 1} /\ Pending(cache[x], op, b) \in {0, 1}
        /\ Lost(x, op, b) \in {0, 1}
    BY DEF Above, Waits, Pending, Bit, Lost
  <1> QED BY SMTT(60), <1>3, <1>4, <1>5, <1>6

(* A handler that answers the module nothing, and the first cache no       *)
(* store.                                                                  *)
LEMMA LivingHandled ==
    ASSUME TypeOK, Living, NEW y, NEW m, NEW r \in Rank, NEW k, NEW rq, NEW ans,
           Handled(y, m, r, k, rq, ans), backing' = backing, up'[Module] = up[Module],
           ans[Module] = <<>>, Oks(ans[0]) = {},
           r = 0 => /\ \A b \in Blob : <<Module, b>> \notin k.loadReq
                    /\ k.storeReq = {} /\ Module \notin k.flushReq /\ k.dirty \cap Huge = {}
    PROVE  Living'
  <1>1. /\ cache' = [cache EXCEPT ![r] = k] /\ cache \in [Rank -> Cache]
        /\ Flow(y, m, r, rq, ans) /\ UNCHANGED modVars
    BY DEF Handled, TypeOK
  <1>2. cache'[r] = k /\ \A x \in Rank \ {r} : cache'[x] = cache[x]
    BY <1>1
  <1>3. /\ \A b \in Blob : <<Module, b>> \notin cache'[0].loadReq
        /\ cache'[0].storeReq = {} /\ Module \notin cache'[0].flushReq
        /\ cache'[0].dirty \cap Huge = {}
    <2>1. CASE r = 0
      BY <1>2, <2>1
    <2>2. CASE r # 0
      <3>1. cache'[0] = cache[0]
        BY <1>2, <2>2, NodesAre
      <3> QED BY <3>1 DEF Living
    <2> QED BY <2>1, <2>2
  <1>4. Oks(down'[0]) \subseteq Oks(down[0])
    <2>1. Oks(down'[0]) \subseteq Oks(down[0]) \cup Oks(ans[0])
      BY <1>1, NodesAre DEF Flow
    <2> QED BY <2>1
  <1>5. Module \notin waiting' => Module \notin waiting
    BY DEF Handled
  <1> QED BY <1>1, <1>3, <1>4, <1>5, LivingIs

(* What the module is to give back is in its database; so is everything    *)
(* stored, if no entry of rank 0 is dirty.                                 *)
LEMMA BackedIs ==
    ASSUME TypeOK, Living
    PROVE  Backed \subseteq db /\ (Oks(down[0]) # {} => Backed = db)
  <1>1. \A x : \A i \in DOMAIN <<x>> : <<x>>[i] = x
    BY SMTT(60)
  <1>2. DOMAIN <<>> = {}
    BY SMTT(60)
  <1>3. CASE mod \in {"loading", "up", "stopping"}
    BY <1>3 DEF Backed
  <1>4. CASE mod \notin {"loading", "up", "stopping"}
    <2>1. Backed = dump \cup {up[Module][i].b : i \in DOMAIN up[Module]}
      BY <1>4 DEF Backed
    <2>2. \A i \in DOMAIN up[Module] : up[Module][i].b \in db
      <3>1. CASE up[Module] = <<>>
        BY <1>2, <3>1
      <3>2. CASE up[Module] # <<>>
        <4>1. Head(up[Module]).b \in db /\ up[Module] = <<Head(up[Module])>>
          BY <1>4, <3>2, ModuleIs
        <4> QED BY <1>1, <4>1
      <3> QED BY <3>1, <3>2
    <2>3. Oks(down[0]) = {} /\ dump \subseteq db
      BY <1>4 DEF Living
    <2> QED BY <2>1, <2>2, <2>3
  <1> QED BY <1>3, <1>4

(* A client of rank 0 is told that a flush succeeded. *)
FlushOk ==
    \A c \in Client : Parent[c] = 0 /\ ~closing /\ down[c] = <<>>
      /\ down'[c] = <<Rsp("flush", NoBlob, "ok")>> => acked \subseteq db \cup Climbing \cup discarded

(* A step that answers no flush says nothing of that kind. *)
LEMMA NotFlush ==
    ASSUME Laws, TypeOK, NEW n, NEW r \in Rank, NEW ans \in [Node -> Seq(Response)],
           Passed(n, r, ans),
           \A c \in Client : Count(ans[c], "flush", NoBlob) = 0
    PROVE  FlushOk
  <1>1. ASSUME NEW c \in Client, down[c] = <<>>, down'[c] = <<Rsp("flush", NoBlob, "ok")>>
        PROVE  FALSE
    <2>1. c \in Node /\ c # r
      BY NodesAre
    <2>2. ans[c] \in Seq(Response)
      BY <2>1
    <2>3. <<>> \o ans[c] = ans[c]
      BY SMTT(60), <2>2
    <2>4. ans[c] = <<Rsp("flush", NoBlob, "ok")>>
      BY <1>1, <2>1, <2>3 DEF Passed
    <2>5. Rsp("flush", NoBlob, "ok") \in Response
      BY RspIs DEF Errnum
    <2>6. Count(ans[c], "flush", NoBlob) = Bit(Fits(Rsp("flush", NoBlob, "ok"), "flush", NoBlob))
      BY <2>4, <2>5, OneCounted
    <2>7. Fits(Rsp("flush", NoBlob, "ok"), "flush", NoBlob)
      BY RspFits
    <2>8. Count(ans[c], "flush", NoBlob) = 1
      BY <2>6, <2>7 DEF Bit
    <2> QED BY SMTT(60), <2>8
  <1> QED BY <1>1 DEF FlushOk

-----------------------------------------------------------------------------
(* Requests *)

(* Two caches that differ in the entries that are only present. *)
Same(k, f) ==
    /\ f.valid = k.valid /\ f.dirty = k.dirty /\ f.loading = k.loading /\ f.storing = k.storing
    /\ f.loadReq = k.loadReq /\ f.storeReq = k.storeReq /\ f.flushReq = k.flushReq
    /\ f.acct = k.acct /\ f.batch = k.batch

(* A request that is answered at once; the cache f is as good as before. *)
Replied(r, n, op, e, f, ans) ==
    /\ Handled(n, Head(up[n]), r, f, <<>>, ans) /\ Same(cache[r], f) /\ Child(n, r)
    /\ TypeOK' /\ Routes' /\ (\A i \in Rank : Counted(cache'[i], i)) /\ Singles'
    /\ Passed(n, r, ans)
    /\ Oks(ans[0]) = {}
    /\ n # Module /\ backing' = backing => Living'
    /\ \A x \in Node : \A c \in Oks(ans[x]) : x = n /\ c = Head(up[n]).b /\ e = "ok"
    /\ \A x \in Node : \A c \in Acks(ans[x]) : op = "store" /\ e = "ok"
    /\ \A x \in Node : \A p, b : Count(ans[x], p, b)
                       = Bit(x \in {n} /\ op = p /\ Head(up[n]).b = b)
    /\ \A x \in Node : ans[x] = IF x \in {n} THEN <<Rsp(op, Head(up[n]).b, e)>> ELSE <<>>

(* A handler that answers at once does that. *)
LEMMA ReplyIs ==
    ASSUME Laws, Inv, NEW r \in Rank, NEW n \in Node,
           NEW op \in {"load", "store", "flush", "on", "off"}, Asks(r, n, op),
           NEW e \in Errnum, NEW ans, ans = Answers({n}, Rsp(op, Head(up[n]).b, e)),
           Post(Taken(up, n), down, r, <<>>, ans), reqs' = reqs,
           NEW f \in Cache, Same(cache[r], f), cache' = [cache EXCEPT ![r] = f],
           UNCHANGED modVars, backing' \in BOOLEAN, aborted' = aborted, discarded' = discarded
    PROVE  Replied(r, n, op, e, f, ans)
  <1> DEFINE m == Head(up[n])
             b0 == m.b
             t == Rsp(op, b0, e)
  <1>1. /\ TypeOK /\ Sound /\ Child(n, r) /\ up[n] # <<>> /\ up[n] \in Seq(Request)
        /\ m \in Request /\ m.op = op /\ (op \in {"load", "store"} => b0 \in Blob)
        /\ \A p, b : Fits(m, p, b) <=> op = p /\ b0 = b
    BY AskIs DEF Question
  <1>2. t \in Response
    <2>1. op \in {"flush", "on", "off"} => b0 = NoBlob
      BY <1>1, MessageIs
    <2> QED BY <1>1, <2>1, RspIs
  <1>3. \A p, b : Fits(t, p, b) <=> op = p /\ b0 = b
    BY SMTT(60), RspFits
  <1>4. ans = Answers({n}, t)
    OBVIOUS
  <1>5. /\ \A c : t = Rsp("store", c, "ok") => op = "store" /\ c = b0 /\ e = "ok"
        /\ t.b = b0 /\ t.err = e
    BY SMTT(60) DEF Rsp
  <1> HIDE DEF t
  <1>6. /\ ans \in [Node -> Seq(Response)]
        /\ \A x \in Node : \A p, b : Count(ans[x], p, b) = Bit(x \in {n} /\ Fits(t, p, b))
        /\ \A x \in Node : \A c \in Oks(ans[x]) : x \in {n} /\ t.b = c /\ t.err = "ok"
        /\ \A x \in Node : \A c \in Acks(ans[x]) : t = Rsp("store", c, "ok")
        /\ \A x \in Node : ans[x] = IF x \in {n} THEN <<t>> ELSE <<>>
    <2>1. AnswersTo({n}, t, ans)
      BY <1>2, <1>4, AnswersIs
    <2> QED BY <2>1 DEF AnswersTo
  <1>7. <<>> \in Seq(Request)
    BY SMTT(60)
  <1>8. /\ Flow(n, m, r, <<>>, ans)
        /\ Passed(n, r, ans)
    BY <1>1, <1>6, <1>7, AskFlow
  <1>9. Handled(n, m, r, f, <<>>, ans)
    BY <1>1, <1>6, <1>7, <1>8, PostHandled
  <1>10. n # r /\ n # 0 /\ \A x \in Rank : x \in Node
    BY <1>1, NodesAre
  <1> HIDE DEF m, b0
  <1>11. Balanced(n, m, r, f, <<>>, ans)
    <2>1. ASSUME NEW p \in {"load", "store"}, NEW b \in Blob
          PROVE  Count(<<>>, p, b) + Count(ans[r], p, b) + Pending(cache[r], p, b)
                   = Pending(f, p, b) + Bit(n = r /\ Fits(m, p, b))
      <3>1. Count(<<>>, p, b) = 0
        BY NoneCounted
      <3>2. Count(ans[r], p, b) = 0 /\ Bit(n = r /\ Fits(m, p, b)) = 0
        BY <1>6, <1>10 DEF Bit
      <3>3. Pending(f, p, b) \in Nat /\ Pending(f, p, b) = Pending(cache[r], p, b)
        BY DEF Pending, Bit, Same
      <3> QED BY SMTT(60), <3>1, <3>2, <3>3
    <2>2. ASSUME NEW p \in {"load", "store"}, NEW b \in Blob, NEW x \in Rank \ {r}
          PROVE  /\ Count(ans[x], p, b) + Waits(f, x, p, b)
                      = Waits(cache[r], x, p, b) + Bit(n = x /\ Fits(m, p, b))
                 /\ ~Child(x, r) => Count(ans[x], p, b) = 0
      <3>1. Count(ans[x], p, b) = Bit(x \in {n} /\ Fits(t, p, b))
        BY <1>6, <1>10
      <3>2. Bit(x \in {n} /\ Fits(t, p, b)) = Bit(n = x /\ Fits(m, p, b))
        BY <1>1, <1>3 DEF Bit, m, b0
      <3>3. /\ Waits(f, x, p, b) \in Nat /\ Bit(n = x /\ Fits(m, p, b)) \in Nat
            /\ Waits(f, x, p, b) = Waits(cache[r], x, p, b)
        BY DEF Waits, Bit, Same
      <3>4. ~Child(x, r) => x # n
        BY <1>1
      <3>5. x # n => Bit(n = x /\ Fits(m, p, b)) = 0
        BY DEF Bit
      <3>6. Count(ans[x], p, b) + Waits(f, x, p, b)
                      = Waits(cache[r], x, p, b) + Bit(n = x /\ Fits(m, p, b))
        BY SMTT(60), <3>1, <3>2, <3>3
      <3> QED BY <3>1, <3>2, <3>4, <3>5, <3>6
    <2> QED BY <1>1, <2>1, <2>2 DEF Balanced
  <1>12. /\ TypeOK' /\ Routes' /\ (\A i \in Rank : Counted(cache'[i], i)) /\ Singles'
    <2>1. /\ Routes /\ Singles /\ \A i \in Rank : Counted(cache[i], i)
      BY <1>1 DEF Sound
    <2>2. Routed(f, r) /\ Counted(f, r)
      <3>1. Routed(cache[r], r) /\ Counted(cache[r], r)
        BY <2>1 DEF Routes, Routed
      <3> QED BY <3>1 DEF Routed, Counted, Same
    <2>3. aborted' \in BOOLEAN /\ discarded' \subseteq Blob
      BY <1>1 DEF TypeOK
    <2> QED BY <1>1, <1>9, <1>11, <2>1, <2>2, <2>3, HandlerIs
  <1>13. Oks(ans[0]) = {}
    BY <1>6, <1>10, NodesAre
  <1>14. ASSUME n # Module, backing' = backing PROVE Living'
    <2>1. up'[Module] = up[Module] /\ ans[Module] = <<>>
      BY <1>6, <1>8, <1>14, NodesAre DEF Passed
    <2>2. Living
      BY <1>1 DEF Sound
    <2>3. r = 0 => /\ \A b \in Blob : <<Module, b>> \notin f.loadReq
                   /\ f.storeReq = {} /\ Module \notin f.flushReq /\ f.dirty \cap Huge = {}
      BY <2>2 DEF Living, Same
    <2> QED BY <1>1, <1>9, <1>13, <1>14, <2>1, <2>2, <2>3, LivingHandled
  <1>15. \A x \in Node : /\ \A c \in Oks(ans[x]) : x = n /\ c = b0 /\ e = "ok"
                         /\ \A c \in Acks(ans[x]) : op = "store" /\ e = "ok"
    BY <1>5, <1>6
  <1>16. \A x \in Node : \A p, b : Count(ans[x], p, b) = Bit(x \in {n} /\ op = p /\ b0 = b)
    <2>1. ASSUME NEW x \in Node, NEW p, NEW b
          PROVE  Count(ans[x], p, b) = Bit(x \in {n} /\ op = p /\ b0 = b)
      <3>1. Count(ans[x], p, b) = Bit(x \in {n} /\ Fits(t, p, b))
        BY <1>6
      <3>2. Bit(x \in {n} /\ Fits(t, p, b)) = Bit(x \in {n} /\ op = p /\ b0 = b)
        BY <1>3 DEF Bit
      <3> QED BY <3>1, <3>2
    <2> QED BY <2>1
  <1> QED BY <1>1, <1>6, <1>8, <1>9, <1>12, <1>13, <1>14, <1>15, <1>16 DEF m, b0, t, Replied

(* The cache is not touched. *)
LEMMA Untouched ==
    ASSUME TypeOK, NEW r \in Rank, cache' = cache
    PROVE  /\ cache[r] \in Cache /\ Same(cache[r], cache[r])
           /\ cache' = [cache EXCEPT ![r] = cache[r]]
  BY DEF TypeOK, Same

(* A reply that is not the success of a flush. *)
LEMMA ReplyNotFlush ==
    ASSUME NEW r \in Rank, NEW n, NEW op, NEW e, NEW f, NEW ans, Replied(r, n, op, e, f, ans),
           op # "flush" \/ e # "ok"
    PROVE  FlushOk
  <1>1. ASSUME NEW c \in Client, down[c] = <<>>, down'[c] = <<Rsp("flush", NoBlob, "ok")>>
        PROVE  FALSE
    <2> DEFINE b == Head(up[n]).b
    <2>1. c \in Node /\ c # r
      BY NodesAre
    <2>2. /\ ans \in [Node -> Seq(Response)] /\ Passed(n, r, ans)
          /\ ans[c] = IF c \in {n} THEN <<Rsp(op, b, e)>> ELSE <<>>
      BY <2>1 DEF Replied, Handled
    <2>3. ans[c] \in Seq(Response)
      BY <2>1, <2>2
    <2>4. <<>> \o ans[c] = ans[c]
      BY SMTT(60), <2>3
    <2>5. ans[c] = <<Rsp("flush", NoBlob, "ok")>>
      BY <1>1, <2>1, <2>2, <2>4 DEF Passed
    <2> HIDE DEF b
    <2>6. <<>> # <<Rsp("flush", NoBlob, "ok")>>
      BY SMTT(60)
    <2>7. <<Rsp(op, b, e)>> = <<Rsp("flush", NoBlob, "ok")>>
      BY <2>2, <2>5, <2>6
    <2>8. Rsp(op, b, e) = Rsp("flush", NoBlob, "ok")
      BY SMTT(60), <2>7
    <2> QED BY SMTT(60), <2>8 DEF Rsp
  <1> QED BY <1>1 DEF FlushOk

(* The parts of the invariant. *)
LEMMA InvIs ==
    ASSUME TypeOK', ~aborted' => Routes' /\ (\A i \in Rank : Counted(cache'[i], i))
                                 /\ Singles' /\ Living'
    PROVE  Inv'
  BY DEF Inv, Sound, Counted

(* The module gives back what it did before. *)
LEMMA HeldIs ==
    ASSUME UNCHANGED modVars, up'[Module] = up[Module], cache[0].valid \subseteq cache'[0].valid
    PROVE  Backed' = Backed /\ Held \subseteq Held'
  <1>1. mod' = mod /\ db' = db /\ dump' = dump
    BY DEF modVars
  <1>2. Backed' = Backed
    BY <1>1 DEF Backed
  <1> QED BY <1>2 DEF Held

(* Only its own request is taken from the module. *)
LEMMA PassedIs ==
    ASSUME NEW r \in Rank, NEW n \in Node, NEW ans, Passed(n, r, ans)
    PROVE  /\ n # Module => up'[Module] = up[Module]
           /\ n = Module => up'[Module] = Tail(up[Module])
  <1>1. Module \in Node /\ Module # r
    BY NodesAre
  <1> QED BY <1>1 DEF Passed

(* A handler that leaves the same entries valid and dirty keeps what is    *)
(* stored.                                                                 *)
LEMMA SameKeeps ==
    ASSUME TypeOK, Keeping, NEW y, NEW m, NEW r \in Rank, NEW k, NEW rq, NEW ans,
           Handled(y, m, r, k, rq, ans), Serves(r, k, ans), up'[Module] = up[Module],
           k.valid = cache[r].valid, k.dirty = cache[r].dirty, discarded' = discarded
    PROVE  Keeping'
  <1>1. /\ cache' = [cache EXCEPT ![r] = k] /\ cache \in [Rank -> Cache] /\ UNCHANGED modVars
    BY DEF Handled, TypeOK
  <1>2. cache'[r] = k /\ \A x \in Rank \ {r} : cache'[x] = cache[x]
    BY <1>1
  <1>3. cache'[0].valid = cache[0].valid /\ Clean(cache'[0]) = Clean(cache[0])
    BY <1>2, NodesAre DEF Clean
  <1>4. Backed' = Backed /\ Held \subseteq Held'
    BY <1>1, <1>3, HeldIs
  <1>5. Clean(cache'[0]) \subseteq Backed'
    BY <1>3, <1>4 DEF Keeping
  <1>6. r # 0 => /\ cache[r].dirty \ k.dirty \subseteq Good(r) \cup discarded'
                 /\ Clean(k) \subseteq Good(r) \cup discarded'
    BY DEF Keeping, Clean
  <1> QED BY <1>4, <1>5, <1>6, KeepIs

(* So does a reply to a rank or a client. *)
LEMMA ReplyKeeps ==
    ASSUME Inv, NEW r \in Rank, NEW n \in Node, NEW op, NEW e, NEW f, NEW ans,
           Replied(r, n, op, e, f, ans), n # Module, discarded' = discarded, Keeping,
           e = "ok" => op # "store" /\ Head(up[n]).b \in cache[r].valid \cup {NoBlob}
    PROVE  Keeping'
  <1>1. up'[Module] = up[Module]
    <2>1. Passed(n, r, ans)
      BY DEF Replied
    <2> QED BY <2>1, PassedIs
  <1>2. /\ Handled(n, Head(up[n]), r, f, <<>>, ans) /\ TypeOK /\ Child(n, r)
        /\ f.valid = cache[r].valid /\ f.dirty = cache[r].dirty
    BY DEF Replied, Inv, Same
  <1>3. Serves(r, f, ans)
    <2>1. ASSUME NEW x \in Node, NEW c \in Oks(ans[x]) PROVE Child(x, r) /\ c \in f.valid
      <3>1. x = n /\ c = Head(up[n]).b /\ e = "ok"
        BY DEF Replied
      <3>2. c \in Blob /\ c # NoBlob
        BY BlobAssumption DEF Oks
      <3> QED BY <1>2, <3>1, <3>2
    <2>2. \A x \in Node : Acks(ans[x]) = {}
      BY DEF Replied
    <2> QED BY <2>1, <2>2 DEF Serves
  <1> QED BY <1>1, <1>2, <1>3, SameKeeps

(* content_load_request() *)
LEMMA LoadRequestStep ==
    ASSUME Laws, Inv, NEW r \in Rank, NEW n \in Node, LoadRequest(r, n)
    PROVE  Inv' /\ (Keeping => Keeping' /\ FlushOk)
  <1> DEFINE m == Head(up[n])
             b == m.b
             k == cache[r]
  <1>1. Asks(r, n, "load")
    BY DEF LoadRequest
  <1>2. /\ TypeOK /\ ~aborted /\ Sound /\ Child(n, r) /\ up[n] # <<>> /\ up[n] \in Seq(Request)
        /\ m \in Request /\ m.op = "load" /\ b \in Blob
        /\ \A p, c : Fits(m, p, c) <=> "load" = p /\ b = c
    <2>1. Question(r, n, "load")
      BY <1>1, AskIs
    <2> QED BY <2>1 DEF Question
  <1>3. /\ Routes /\ Singles /\ Living /\ \A i \in Rank : Counted(cache[i], i)
    BY <1>2 DEF Sound
  <1>4. n # Module
    BY <1>2, <1>3, ModuleIs
  <1>5. n # r /\ n # 0 /\ \A x \in Rank : x \in Node
    BY <1>2, NodesAre
  <1>6. /\ backing' = backing /\ reqs' = reqs /\ UNCHANGED modVars /\ aborted' = aborted
        /\ backing \in BOOLEAN /\ aborted \in BOOLEAN
        /\ discarded' = discarded /\ discarded \subseteq Blob
    BY <1>2 DEF LoadRequest, Rest, TypeOK
  <1>7. n \in Rank => Pending(cache[n], "load", b) = 1 /\ Above(n, "load", b) = 0
    BY <1>2, <1>3, OneMoves
  <1>8. k \in Cache /\ k.present \in SUBSET Blob /\ k.loadReq \in SUBSET (Node \X Blob)
    BY <1>2 DEF TypeOK, Cache
  <1> DEFINE Reply(e, g) ==
               /\ Post(Taken(up, n), down, r, <<>>, Answers({n}, Rsp("load", b, e)))
               /\ cache' = [cache EXCEPT ![r] = g] /\ Same(k, g) /\ (e = "ok" => b \in k.valid)
  <1>9. CASE \E e \in Errnum, g \in Cache : Reply(e, g)
    <2>1. PICK e \in Errnum, g \in Cache : Reply(e, g)
      BY <1>9
    <2> DEFINE ans == Answers({n}, Rsp("load", Head(up[n]).b, e))
    <2> HIDE DEF ans
    <2>2. "load" \in {"load", "store", "flush", "on", "off"} /\ backing' \in BOOLEAN
      BY <1>6
    <2>3. ans = Answers({n}, Rsp("load", Head(up[n]).b, e)) /\ Post(Taken(up, n), down, r, <<>>, ans)
      BY <2>1 DEF ans
    <2>4. Replied(r, n, "load", e, g, ans)
      BY <1>1, <1>6, <2>1, <2>2, <2>3, ReplyIs
    <2>5. Inv'
      BY <1>4, <1>6, <2>4, InvIs DEF Replied
    <2>6. Keeping => Keeping'
      BY <1>4, <1>6, <2>1, <2>4, ReplyKeeps
    <2>7. FlushOk
      BY <2>4, ReplyNotFlush
    <2> QED BY <2>5, <2>6, <2>7
  <1> DEFINE f == [k EXCEPT !.present = @ \cup {b}, !.loading = @ \cup {b},
                            !.loadReq = @ \cup {<<n, b>>}]
             rq == IF Loads(k, b) THEN <<Req("load", b)>> ELSE <<>>
  <1>10. CASE cache' = [cache EXCEPT ![r] = f] /\ Post(Taken(up, n), down, r, rq, Silence)
    <2>1. k \in Cache
      BY <1>8
    <2>2. f \in Cache
      <3>1. k.loadReq \cup {<<n, b>>} \in SUBSET (Node \X Blob)
        <4>1. <<n, b>> \in Node \X Blob
          BY <1>2
        <4> QED BY <1>8, <4>1
      <3> QED BY <1>2, <2>1, <3>1 DEF Cache
    <2>3. /\ f.loading = k.loading \cup {b} /\ f.loadReq = k.loadReq \cup {<<n, b>>}
          /\ f.valid = k.valid /\ f.dirty = k.dirty /\ f.storing = k.storing
          /\ f.storeReq = k.storeReq /\ f.flushReq = k.flushReq
          /\ f.acct = k.acct /\ f.batch = k.batch
      BY <2>1 DEF Cache
    <2>4. /\ rq \in Seq(Request)
          /\ \A p, c : Count(rq, p, c) = Bit(b \notin k.loading /\ p = "load" /\ c = b)
      <3>1. Req("load", b) \in Request
        BY <1>2, ReqIs
      <3>2. <<Req("load", b)>> \in Seq(Request) /\ <<>> \in Seq(Request)
        BY SMTT(60), <3>1
      <3>3. \A p, c : Count(<<Req("load", b)>>, p, c) = Bit(Fits(Req("load", b), p, c))
        BY <3>1, OneCounted
      <3>4. \A p, c : Fits(Req("load", b), p, c) <=> p = "load" /\ c = b
        BY SMTT(60), ReqFits
      <3>5. \A p, c : Count(<<>>, p, c) = 0
        BY NoneCounted
      <3>6. CASE b \notin k.loading
        <4>1. rq = <<Req("load", b)>>
          BY <3>6 DEF Loads
        <4>2. ASSUME NEW p, NEW c
              PROVE  Count(rq, p, c) = Bit(b \notin k.loading /\ p = "load" /\ c = b)
          <5>1. Count(rq, p, c) = Bit(Fits(Req("load", b), p, c))
            BY <3>3, <4>1
          <5>2. Bit(Fits(Req("load", b), p, c)) = Bit(b \notin k.loading /\ p = "load" /\ c = b)
            BY SMTT(60), <3>4, <3>6 DEF Bit
          <5> QED BY <5>1, <5>2
        <4> QED BY <3>2, <4>1, <4>2
      <3>7. CASE b \in k.loading
        <4>1. rq = <<>>
          BY <3>7 DEF Loads
        <4>2. \A p, c : Bit(b \notin k.loading /\ p = "load" /\ c = b) = 0
          BY <3>7 DEF Bit
        <4> QED BY <3>2, <3>5, <4>1, <4>2
      <3> QED BY <3>6, <3>7
    <2> HIDE DEF f, rq
    <2>5. /\ Silence \in [Node -> Seq(Response)]
          /\ \A x \in Node : \A p, c : Count(Silence[x], p, c) = 0
          /\ \A x \in Node : Oks(Silence[x]) = {} /\ Acks(Silence[x]) = {} /\ Silence[x] = <<>>
      BY SilenceIs
    <2>6. Flow(n, m, r, rq, Silence) /\ Passed(n, r, Silence)
      BY <1>2, <1>10, <2>4, <2>5, AskFlow
    <2>7. Handled(n, m, r, f, rq, Silence)
      BY <1>2, <1>6, <1>10, <2>2, <2>4, <2>5, <2>6, PostHandled
    <2>8. Counted(f, r)
      <3>1. Counted(k, r)
        BY <1>3
      <3> QED BY <2>3, <3>1 DEF Counted
    <2>9. Routed(f, r)
      <3>1. Routed(k, r)
        BY <1>3 DEF Routes, Routed
      <3> QED BY <1>2, <2>3, <3>1 DEF Routed
    <2>10. Balanced(n, m, r, f, rq, Silence)
      <3> HIDE DEF m, b, k
      <3>1. ASSUME NEW p \in {"load", "store"}, NEW c \in Blob
            PROVE  Count(rq, p, c) + Count(Silence[r], p, c) + Pending(k, p, c)
                     = Pending(f, p, c) + Bit(n = r /\ Fits(m, p, c))
        <4>1. Count(rq, p, c) = Bit(b \notin k.loading /\ p = "load" /\ c = b)
          BY <2>4
        <4>2. Count(Silence[r], p, c) = 0
          BY <1>5, <2>5
        <4>3. Bit(n = r /\ Fits(m, p, c)) = 0
          BY <1>5 DEF Bit
        <4> QED BY SMTT(60), <2>3, <4>1, <4>2, <4>3 DEF Bit, Pending
      <3>2. ASSUME NEW p \in {"load", "store"}, NEW c \in Blob, NEW x \in Rank \ {r}
            PROVE  IF Child(x, r)
                   THEN Count(Silence[x], p, c) + Waits(f, x, p, c)
                          = Waits(k, x, p, c) + Bit(n = x /\ Fits(m, p, c))
                   ELSE Count(Silence[x], p, c) = 0
        <4>1. Count(Silence[x], p, c) = 0
          BY <1>5, <2>5
        <4>2. CASE x = n /\ p = "load" /\ c = b
          <5>1. <<n, b>> \notin k.loadReq
            <6>1. Above(n, "load", b) = Waits(k, n, "load", b)
              BY <1>2, <1>5, <4>2 DEF Above, Child, k
            <6> QED BY SMTT(60), <1>7, <4>2, <6>1 DEF Waits, Bit
          <5>2. Waits(k, x, p, c) = 0
            BY <4>2, <5>1 DEF Waits, Bit
          <5>3. Waits(f, x, p, c) = 1
            BY <2>3, <4>2 DEF Waits, Bit
          <5>4. Bit(n = x /\ Fits(m, p, c)) = 1
            BY <1>2, <4>2 DEF Bit
          <5> QED BY SMTT(60), <4>1, <5>2, <5>3, <5>4
        <4>3. CASE ~(x = n /\ p = "load" /\ c = b)
          <5>1. Bit(n = x /\ Fits(m, p, c)) = 0
            BY <1>2, <4>3 DEF Bit
          <5>2. p = "load" => (<<x, c>> \in f.loadReq <=> <<x, c>> \in k.loadReq)
            BY <2>3, <4>3
          <5>3. Waits(f, x, p, c) = Waits(k, x, p, c)
            BY <2>3, <5>2 DEF Waits, Bit
          <5>4. Waits(k, x, p, c) \in Nat
            BY DEF Waits, Bit
          <5> QED BY SMTT(60), <4>1, <5>1, <5>3, <5>4
        <4> QED BY <4>2, <4>3
      <3> QED BY <1>2, <3>1, <3>2 DEF Balanced, k
    <2>11. /\ TypeOK' /\ Routes' /\ (\A i \in Rank : Counted(cache'[i], i)) /\ Singles'
      BY <1>2, <1>3, <1>6, <2>7, <2>8, <2>9, <2>10, HandlerIs
    <2>12. Living'
      <3>1. up'[Module] = up[Module] /\ Silence[Module] = <<>> /\ Oks(Silence[0]) = {}
        BY <1>4, <2>5, <2>6, NodesAre DEF Passed
      <3>2. r = 0 => /\ \A c \in Blob : <<Module, c>> \notin f.loadReq
                     /\ f.storeReq = {} /\ Module \notin f.flushReq /\ f.dirty \cap Huge = {}
        BY <1>3, <1>4, <2>3 DEF Living
      <3> QED BY <1>2, <1>3, <1>6, <2>7, <3>1, <3>2, LivingHandled
    <2>13. Keeping => Keeping'
      <3>1. Serves(r, f, Silence) /\ up'[Module] = up[Module]
        BY <1>4, <2>5, <2>6, NodesAre DEF Serves, Passed
      <3> QED BY <1>2, <1>6, <2>3, <2>7, <3>1, SameKeeps
    <2>14. FlushOk
      <3>1. \A c \in Client : Count(Silence[c], "flush", NoBlob) = 0
        BY <2>5, NodesAre
      <3> QED BY <1>2, <2>5, <2>6, <3>1, NotFlush
    <2> QED BY <2>11, <2>12, <2>13, <2>14, InvIs
  <1>11. \/ \E e \in Errnum, g \in Cache : Reply(e, g)
         \/ cache' = [cache EXCEPT ![r] = f] /\ Post(Taken(up, n), down, r, rq, Silence)
    <2> HIDE DEF f, rq
    <2>1. "ok" \in Errnum /\ "ENOENT" \in Errnum /\ "ENOENT" # "ok"
      BY DEF Errnum
    <2>2. CASE b \in k.valid
      <3>1. Reply("ok", k)
        BY <1>2, <2>2, Untouched DEF LoadRequest
      <3> QED BY <1>8, <2>1, <3>1
    <2>3. CASE b \notin k.valid /\ b \notin k.present /\ r = 0 /\ ~backing
      <3>1. Reply("ENOENT", k)
        BY <1>2, <2>1, <2>3, Untouched DEF LoadRequest
      <3> QED BY <1>8, <2>1, <3>1
    <2>4. CASE /\ b \notin k.valid /\ ~(b \notin k.present /\ r = 0 /\ ~backing)
               /\ Loads(k, b) /\ ~Connected(r)
      <3> DEFINE g == [k EXCEPT !.present = @ \cup {b}]
      <3>1. g \in Cache /\ Same(k, g)
        BY <1>2, <1>8 DEF Cache, Same
      <3>2. Reply("ENOENT", g)
        <4>1. /\ Post(Taken(up, n), down, r, <<>>, Answers({n}, Rsp("load", b, "ENOENT")))
              /\ cache' = [cache EXCEPT ![r] = g]
          BY <2>4 DEF LoadRequest, Become
        <4> QED BY <2>1, <3>1, <4>1
      <3> QED BY <2>1, <3>1, <3>2
    <2>5. CASE /\ b \notin k.valid /\ ~(b \notin k.present /\ r = 0 /\ ~backing)
               /\ ~(Loads(k, b) /\ ~Connected(r))
      BY <2>5 DEF LoadRequest, Become, f, rq
    <2> QED BY <2>2, <2>3, <2>4, <2>5
  <1> QED BY <1>9, <1>10, <1>11

(* The requests rq that cache_flush() sends, for the blobs of L, become    *)
(* pending.                                                                *)
Adds(rq, L, k, g) ==
    /\ L \cap k.storing = {} /\ g.storing = k.storing \cup L /\ g.loading = k.loading
    /\ \A op, b : Count(rq, op, b) = Bit(op = "store" /\ b \in L)

(* So the entries pending afterwards are those before and the new ones. *)
LEMMA FlushPending ==
    ASSUME NEW k, NEW g, NEW L, NEW rq, Adds(rq, L, k, g), NEW op, NEW b
    PROVE  /\ Count(rq, op, b) + Pending(k, op, b) = Pending(g, op, b)
           /\ Count(rq, op, b) \in Nat /\ Pending(k, op, b) \in Nat /\ Pending(g, op, b) \in Nat
  <1>1. Count(rq, op, b) = Bit(op = "store" /\ b \in L)
    BY DEF Adds
  <1>2. Bit(op = "store" /\ b \in L) \in Nat /\ Pending(k, op, b) \in Nat /\ Pending(g, op, b) \in Nat
    BY DEF Bit, Pending
  <1>3. CASE op = "store" /\ b \in L
    <2>1. Bit(op = "store" /\ b \in L) = 1
      BY <1>3 DEF Bit
    <2>2. Pending(g, op, b) = 1
      BY <1>3 DEF Bit, Pending, Adds
    <2>3. Pending(k, op, b) = 0
      <3>1. b \notin k.storing
        BY <1>3 DEF Adds
      <3> QED BY <1>3, <3>1 DEF Bit, Pending
    <2> QED BY SMTT(60), <1>1, <2>1, <2>2, <2>3
  <1>4. CASE ~(op = "store" /\ b \in L)
    <2>1. Bit(op = "store" /\ b \in L) = 0
      BY <1>4 DEF Bit
    <2>2. Pending(k, op, b) = Pending(g, op, b)
      BY <1>4 DEF Bit, Pending, Adds
    <2> QED BY SMTT(60), <1>1, <1>2, <2>1, <2>2
  <1> QED BY <1>3, <1>4

(* content_flush_request() *)
LEMMA FlushRequestStep ==
    ASSUME Laws, Inv, NEW r \in Rank, NEW n \in Node, FlushRequest(r, n)
    PROVE  Inv' /\ (Keeping => Keeping' /\ FlushOk)
  <1> DEFINE m == Head(up[n])
             b == m.b
             k == cache[r]
  <1>1. Asks(r, n, "flush")
    BY DEF FlushRequest
  <1>2. /\ TypeOK /\ ~aborted /\ Sound /\ Child(n, r) /\ up[n] # <<>>
        /\ m \in Request /\ m.op = "flush"
        /\ \A p, c : Fits(m, p, c) <=> "flush" = p /\ b = c
    <2>1. Question(r, n, "flush")
      BY <1>1, AskIs
    <2> QED BY <2>1 DEF Question
  <1>3. /\ Routes /\ Singles /\ Living /\ \A i \in Rank : Counted(cache[i], i)
    BY <1>2 DEF Sound
  <1>4. n # Module
    BY <1>2, <1>3, ModuleIs
  <1>5. n # r /\ n # 0 /\ \A x \in Rank : x \in Node
    BY <1>2, NodesAre
  <1>6. /\ backing' = backing /\ reqs' = reqs /\ UNCHANGED modVars /\ aborted' = aborted
        /\ backing \in BOOLEAN /\ aborted \in BOOLEAN
        /\ discarded' = discarded /\ discarded \subseteq Blob
    BY <1>2 DEF FlushRequest, Rest, TypeOK
  <1>7. b = NoBlob
    BY <1>2, MessageIs
  <1>8. k \in Cache /\ k.dirty \in SUBSET Blob /\ Counted(k, r)
    BY <1>2, <1>3 DEF TypeOK, Cache
  <1>9. CASE k.acct = 0
    <2> DEFINE ans == Answers({n}, Rsp("flush", Head(up[n]).b, "ok"))
    <2>1. Post(Taken(up, n), down, r, <<>>, ans) /\ cache' = cache
      BY <1>7, <1>9 DEF FlushRequest
    <2>2. ans = Answers({n}, Rsp("flush", Head(up[n]).b, "ok"))
      OBVIOUS
    <2> HIDE DEF ans
    <2>3. /\ "flush" \in {"load", "store", "flush", "on", "off"} /\ "ok" \in Errnum
          /\ backing' \in BOOLEAN
      BY <1>6 DEF Errnum
    <2>4. Replied(r, n, "flush", "ok", k, ans)
      BY <1>1, <1>2, <1>6, <2>1, <2>2, <2>3, Untouched, ReplyIs
    <2>5. Inv'
      BY <1>4, <1>6, <2>4, InvIs DEF Replied
    <2>6. Keeping => Keeping'
      BY <1>4, <1>6, <1>7, <2>4, ReplyKeeps
    <2>7. ASSUME Keeping PROVE FlushOk
      <3>1. CASE r = 0
        <4>1. k.dirty = {}
          BY <1>8, <1>9 DEF Counted, Laws, Sizes
        <4>2. Held \subseteq Backed
          BY <2>7, <3>1, <4>1 DEF Keeping, Held, Clean
        <4>3. Backed \subseteq db
          BY <1>2, <1>3, BackedIs
        <4>4. acked \subseteq db \cup Climbing \cup discarded
          BY <2>7, <4>2, <4>3 DEF Keeping, Safe
        <4> QED BY <4>4 DEF FlushOk
      <3>2. CASE r # 0
        <4>1. ASSUME NEW c \in Client, Parent[c] = 0, down[c] = <<>> PROVE down'[c] = <<>>
          <5>1. c # n
            BY <1>2, <3>2, <4>1 DEF Child
          <5>2. c \in Node /\ c # r
            BY NodesAre
          <5>3. ans[c] = <<>>
            BY <2>4, <5>1, <5>2 DEF Replied
          <5>4. down'[c] = down[c] \o ans[c]
            BY <2>4, <5>2 DEF Replied, Passed
          <5>5. <<>> \o <<>> = <<>>
            BY SMTT(60)
          <5> QED BY <4>1, <5>3, <5>4, <5>5
        <4>2. \A x : <<>> # <<x>>
          BY SMTT(60)
        <4> QED BY <4>1, <4>2 DEF FlushOk
      <3> QED BY <3>1, <3>2
    <2> QED BY <2>5, <2>6, <2>7
  <1>10. CASE k.acct # 0 /\ FlushFails(k, r)
    <2> DEFINE ans == Answers({n}, Rsp("flush", Head(up[n]).b, "ENOSYS"))
    <2>1. Post(Taken(up, n), down, r, <<>>, ans) /\ cache' = cache
      BY <1>7, <1>10 DEF FlushRequest
    <2>2. ans = Answers({n}, Rsp("flush", Head(up[n]).b, "ENOSYS"))
      OBVIOUS
    <2> HIDE DEF ans
    <2>3. /\ "flush" \in {"load", "store", "flush", "on", "off"} /\ "ENOSYS" \in Errnum
          /\ backing' \in BOOLEAN /\ "ENOSYS" # "ok"
      BY <1>6 DEF Errnum
    <2>4. Replied(r, n, "flush", "ENOSYS", k, ans)
      BY <1>1, <1>2, <1>6, <2>1, <2>2, <2>3, Untouched, ReplyIs
    <2>5. Inv'
      BY <1>4, <1>6, <2>4, InvIs DEF Replied
    <2>6. Keeping => Keeping'
      BY <1>4, <1>6, <2>3, <2>4, ReplyKeeps
    <2>7. FlushOk
      BY <2>3, <2>4, ReplyNotFlush
    <2> QED BY <2>5, <2>6, <2>7
  <1>11. CASE k.acct # 0 /\ ~FlushFails(k, r)
    <2>1. PICK s \in FlushSeqs(k, r) :
            /\ cache' = [cache EXCEPT ![r] = [Flushing(k, s) EXCEPT !.flushReq = @ \cup {n}]]
            /\ Post(Taken(up, n), down, r, StoreReqs(s), Silence)
      BY <1>11 DEF FlushRequest, Become
    <2> DEFINE f == Flushing(k, s)
               g == [f EXCEPT !.flushReq = @ \cup {n}]
               L == Listed(s)
               rq == StoreReqs(s)
    <2>2. /\ f \in Cache /\ Counted(f, r) /\ f.storing = k.storing \cup L
          /\ f.valid = k.valid /\ f.dirty = k.dirty /\ f.loading = k.loading
          /\ f.loadReq = k.loadReq /\ f.storeReq = k.storeReq /\ f.flushReq = k.flushReq
          /\ rq \in Seq(Request) /\ L \cap k.storing = {}
          /\ \A p, c : Count(rq, p, c) = Bit(p = "store" /\ c \in L)
      <3>1. f = Flushing(k, s)
        OBVIOUS
      <3>2. FlushingTo(k, r, s, f)
        BY <1>8, <3>1, FlushingIs
      <3> QED BY <3>2 DEF FlushingTo
    <2> HIDE DEF f, L, rq
    <2>3. g \in Cache
      BY <2>2 DEF Cache
    <2>4. /\ g.storing = f.storing /\ g.valid = f.valid /\ g.dirty = f.dirty
          /\ g.loading = f.loading /\ g.loadReq = f.loadReq /\ g.storeReq = f.storeReq
          /\ g.flushReq = f.flushReq \cup {n} /\ g.acct = f.acct /\ g.batch = f.batch
      BY <2>2 DEF Cache
    <2>5. cache' = [cache EXCEPT ![r] = g] /\ Post(Taken(up, n), down, r, rq, Silence)
      BY <2>1 DEF f, rq
    <2> HIDE DEF g
    <2>6. /\ Silence \in [Node -> Seq(Response)]
          /\ \A x \in Node : \A p, c : Count(Silence[x], p, c) = 0
          /\ \A x \in Node : Oks(Silence[x]) = {} /\ Acks(Silence[x]) = {} /\ Silence[x] = <<>>
      BY SilenceIs
    <2>7. Flow(n, m, r, rq, Silence) /\ Passed(n, r, Silence)
      BY <1>2, <2>2, <2>5, <2>6, AskFlow
    <2>8. Handled(n, m, r, g, rq, Silence)
      BY <1>2, <1>6, <2>2, <2>3, <2>5, <2>6, <2>7, PostHandled
    <2>9. Counted(g, r)
      BY <2>2, <2>4 DEF Counted
    <2>10. Routed(g, r)
      <3>1. Routed(k, r)
        BY <1>3 DEF Routes, Routed
      <3> QED BY <1>2, <2>2, <2>4, <3>1 DEF Routed
    <2>11. Balanced(n, m, r, g, rq, Silence)
      <3> HIDE DEF m, b, k
      <3>1. ASSUME NEW p \in {"load", "store"}, NEW c \in Blob
            PROVE  Count(rq, p, c) + Count(Silence[r], p, c) + Pending(k, p, c)
                     = Pending(g, p, c) + Bit(n = r /\ Fits(m, p, c))
        <4>1. Adds(rq, L, k, g)
          BY <2>2, <2>4 DEF Adds
        <4>2. /\ Count(rq, p, c) + Pending(k, p, c) = Pending(g, p, c)
              /\ Count(rq, p, c) \in Nat /\ Pending(k, p, c) \in Nat /\ Pending(g, p, c) \in Nat
          BY <4>1, FlushPending
        <4>3. Count(Silence[r], p, c) = 0 /\ Bit(n = r /\ Fits(m, p, c)) = 0
          BY <1>5, <2>6 DEF Bit
        <4> QED BY SMTT(60), <4>2, <4>3
      <3>2. ASSUME NEW p \in {"load", "store"}, NEW c \in Blob, NEW x \in Rank \ {r}
            PROVE  /\ Count(Silence[x], p, c) + Waits(g, x, p, c)
                          = Waits(k, x, p, c) + Bit(n = x /\ Fits(m, p, c))
                   /\ Count(Silence[x], p, c) = 0
        <4>1. Count(Silence[x], p, c) = 0
          BY <1>5, <2>6
        <4>2. Bit(n = x /\ Fits(m, p, c)) = 0
          BY <1>2 DEF Bit
        <4>3. Waits(g, x, p, c) = Waits(k, x, p, c)
          BY <2>2, <2>4 DEF Waits
        <4>4. Waits(k, x, p, c) \in Nat
          BY DEF Waits, Bit
        <4> QED BY SMTT(60), <4>1, <4>2, <4>3, <4>4
      <3> QED BY <1>2, <3>1, <3>2 DEF Balanced, k
    <2>12. /\ TypeOK' /\ Routes' /\ (\A i \in Rank : Counted(cache'[i], i)) /\ Singles'
      BY <1>2, <1>3, <1>6, <2>8, <2>9, <2>10, <2>11, HandlerIs
    <2>13. up'[Module] = up[Module]
      BY <1>4, <2>7, PassedIs
    <2>14. Living'
      <3>1. Silence[Module] = <<>> /\ Oks(Silence[0]) = {}
        BY <2>6, NodesAre
      <3>2. r = 0 => /\ \A c \in Blob : <<Module, c>> \notin g.loadReq
                     /\ g.storeReq = {} /\ Module \notin g.flushReq /\ g.dirty \cap Huge = {}
        BY <1>3, <1>4, <2>2, <2>4 DEF Living
      <3> QED BY <1>2, <1>3, <1>6, <2>8, <2>13, <3>1, <3>2, LivingHandled
    <2>15. FlushOk
      <3>1. \A c \in Client : Count(Silence[c], "flush", NoBlob) = 0
        BY <2>6, NodesAre
      <3> QED BY <1>2, <2>6, <2>7, <3>1, NotFlush
    <2>16. Keeping => Keeping'
      <3>1. Serves(r, g, Silence) /\ g.valid = k.valid /\ g.dirty = k.dirty
        BY <2>2, <2>4, <2>6 DEF Serves
      <3> QED BY <1>2, <1>6, <2>8, <2>13, <3>1, SameKeeps
    <2> QED BY <2>12, <2>14, <2>15, <2>16, InvIs
  <1> QED BY <1>9, <1>11, <1>10

(* The cache that content_store_request() leaves. *)
Fills(k, r, b, n, sent, wait, f) ==
    /\ f \in Cache /\ Counted(f, r)
    /\ f.valid = k.valid \cup {b} /\ f.loading = k.loading /\ f.flushReq = k.flushReq
    /\ f.storing = IF sent THEN k.storing \cup {b} ELSE k.storing
    /\ sent => b \notin k.storing
    /\ f.loadReq = IF b \in k.valid THEN k.loadReq ELSE k.loadReq \ (Node \X {b})
    /\ f.storeReq = IF wait THEN k.storeReq \cup {<<n, b>>} ELSE k.storeReq
    /\ k.dirty \subseteq f.dirty /\ f.dirty \subseteq k.dirty \cup {b}
    /\ b \notin k.valid => b \in f.dirty
    /\ r = 0 /\ ~backing => b \in f.dirty
    /\ wait => r # 0
    /\ ~wait /\ r # 0 => b \in k.valid /\ b \notin f.dirty

(* content_store_request() does that to the cache. *)
LEMMA StoreCacheIs ==
    ASSUME Laws, NEW k \in Cache, NEW r \in Rank, Counted(k, r), NEW b \in Blob, NEW n \in Node,
           NEW k1, k1 = Filled(k, b),
           NEW sent \in BOOLEAN, sent => b \in k1.dirty /\ Stores(k1, r, b),
           NEW k2, k2 = IF sent THEN Storing(k1, {b}, 1) ELSE k1,
           NEW wait \in BOOLEAN, wait <=> r > 0 /\ b \in k1.dirty,
           NEW f, f = IF wait THEN [k2 EXCEPT !.storeReq = @ \cup {<<n, b>>}]
                      ELSE Redirtied(k2, r, b)
    PROVE  Fills(k, r, b, n, sent, wait, f)
  <1>1. /\ k1 \in Cache /\ Counted(k1, r)
        /\ k1.valid = k.valid \cup {b} /\ k1.storing = k.storing /\ k1.loading = k.loading
        /\ k1.storeReq = k.storeReq /\ k1.flushReq = k.flushReq /\ k1.batch = k.batch
        /\ k1.dirty = IF b \in k.valid THEN k.dirty ELSE k.dirty \cup {b}
        /\ k1.loadReq = IF b \in k.valid THEN k.loadReq ELSE k.loadReq \ (Node \X {b})
    <2>1. FilledTo(k, r, b, k1)
      BY FilledIs
    <2> QED BY <2>1 DEF FilledTo
  <1>2. r > 0 <=> r # 0
    <2>1. r \in Nat
      BY TreeAssumption
    <2> QED BY SMTT(60), <2>1
  <1>3. /\ k2 \in Cache /\ Counted(k2, r)
        /\ k2.storing = IF sent THEN k1.storing \cup {b} ELSE k1.storing
        /\ sent => b \notin k1.storing
        /\ k2.valid = k1.valid /\ k2.dirty = k1.dirty /\ k2.loading = k1.loading
        /\ k2.loadReq = k1.loadReq /\ k2.storeReq = k1.storeReq /\ k2.flushReq = k1.flushReq
    <2>1. CASE sent
      <3>1. k2 = Storing(k1, {b}, 1) /\ b \in k1.dirty /\ b \notin k1.storing
        BY <2>1 DEF Stores
      <3>2. 1 = Cardinality({b})
        <4>1. {} \in SUBSET Blob /\ b \in Blob \ {} /\ {} \cup {b} = {b}
          OBVIOUS
        <4>2. Cardinality({} \cup {b}) = Cardinality({}) + 1 /\ Cardinality({}) = 0
          BY <4>1 DEF Laws, Sizes
        <4> QED BY SMTT(60), <4>1, <4>2
      <3>3. r = 0 => k1.batch + 1 <= Limit
        <4>1. r = 0 => k1.batch < Limit
          BY <2>1 DEF Stores
        <4>2. k1.batch \in Nat
          BY <1>1 DEF Cache
        <4> QED BY SMTT(60), <4>1, <4>2, LimitAssumption
      <3>4. {b} \in SUBSET Blob /\ {b} \subseteq k1.dirty /\ {b} \cap k1.storing = {}
        BY <3>1
      <3>5. /\ k2 \in Cache /\ Counted(k2, r) /\ k2.storing = k1.storing \cup {b}
            /\ k2.valid = k1.valid /\ k2.dirty = k1.dirty /\ k2.loading = k1.loading
            /\ k2.loadReq = k1.loadReq /\ k2.storeReq = k1.storeReq /\ k2.flushReq = k1.flushReq
        <4>1. StoringTo(k1, r, {b}, k2)
          BY <1>1, <3>1, <3>2, <3>3, <3>4, StoringIs
        <4> QED BY <4>1 DEF StoringTo
      <3> QED BY <2>1, <3>1, <3>5
    <2>2. CASE ~sent
      <3>1. k2 = k1
        BY <2>2
      <3> QED BY <1>1, <2>2, <3>1
    <2> QED BY <2>1, <2>2
  <1>4. CASE wait
    <2>1. f = [k2 EXCEPT !.storeReq = @ \cup {<<n, b>>}] /\ r # 0 /\ b \in k1.dirty
      BY <1>2, <1>4
    <2>2. k2.storeReq \cup {<<n, b>>} \in SUBSET (Node \X Blob)
      <3>1. <<n, b>> \in Node \X Blob
        OBVIOUS
      <3>2. k2.storeReq \in SUBSET (Node \X Blob)
        BY <1>3 DEF Cache
      <3> QED BY <3>1, <3>2
    <2>3. f \in Cache
      <3>1. [k2 EXCEPT !.storeReq = @ \cup {<<n, b>>}] \in Cache
        <4> DEFINE S == k2.storeReq \cup {<<n, b>>}
        <4> HIDE DEF S
        <4>1. S \in SUBSET (Node \X Blob)
          BY <2>2 DEF S
        <4>2. [k2 EXCEPT !.storeReq = S] \in Cache
          BY <1>3, <4>1 DEF Cache
        <4> QED BY <1>3, <4>2 DEF S, Cache
      <3> QED BY <2>1, <3>1
    <2>4. /\ f.valid = k2.valid /\ f.dirty = k2.dirty /\ f.storing = k2.storing
          /\ f.loading = k2.loading /\ f.loadReq = k2.loadReq /\ f.flushReq = k2.flushReq
          /\ f.storeReq = k2.storeReq \cup {<<n, b>>} /\ f.acct = k2.acct /\ f.batch = k2.batch
      BY <1>3, <2>1 DEF Cache
    <2>5. Counted(f, r)
      BY <1>3, <2>4 DEF Counted
    <2>6. k.dirty \subseteq f.dirty /\ f.dirty \subseteq k.dirty \cup {b} /\ b \in f.dirty
      <3>1. k.dirty \subseteq k1.dirty /\ k1.dirty \subseteq k.dirty \cup {b}
        BY <1>1
      <3> QED BY <1>3, <2>1, <2>4, <3>1
    <2>7. /\ f.valid = k.valid \cup {b} /\ f.loading = k.loading /\ f.flushReq = k.flushReq
          /\ f.storeReq = k.storeReq \cup {<<n, b>>}
          /\ f.storing = k2.storing /\ f.loadReq = k1.loadReq
      <3>1. f.valid = k.valid \cup {b} /\ f.loading = k.loading /\ f.flushReq = k.flushReq
        BY <1>1, <1>3, <2>4
      <3>2. f.storeReq = k.storeReq \cup {<<n, b>>}
        BY <1>1, <1>3, <2>4
      <3>3. f.storing = k2.storing /\ f.loadReq = k1.loadReq
        BY <1>3, <2>4
      <3> QED BY <3>1, <3>2, <3>3
    <2> QED BY <1>1, <1>3, <1>4, <2>1, <2>3, <2>5, <2>6, <2>7 DEF Fills
  <1>5. CASE ~wait
    <2>1. f = Redirtied(k2, r, b) /\ b \in k2.valid
      BY <1>1, <1>3, <1>5
    <2>2. /\ f \in Cache /\ Counted(f, r) /\ f.valid = k2.valid /\ f.storing = k2.storing
          /\ f.loading = k2.loading /\ f.loadReq = k2.loadReq /\ f.storeReq = k2.storeReq
          /\ f.flushReq = k2.flushReq
          /\ f.dirty = IF r = 0 /\ ~backing THEN k2.dirty \cup {b} ELSE k2.dirty
      <3>1. RedirtiedTo(k2, r, b, f)
        BY <1>3, <2>1, RedirtiedIs
      <3> QED BY <3>1 DEF RedirtiedTo
    <2>3. r # 0 => b \in k.valid /\ b \notin f.dirty
      <3>1. CASE r # 0
        <4>1. b \notin k1.dirty
          BY <1>2, <1>5, <3>1
        <4>2. f.dirty = k1.dirty
          BY <1>3, <2>2, <3>1
        <4> QED BY <1>1, <4>1, <4>2
      <3> QED BY <3>1
    <2>4. /\ k.dirty \subseteq f.dirty /\ f.dirty \subseteq k.dirty \cup {b}
          /\ b \notin k.valid => b \in f.dirty
          /\ r = 0 /\ ~backing => b \in f.dirty
      <3>1. /\ k.dirty \subseteq k1.dirty /\ k1.dirty \subseteq k.dirty \cup {b}
            /\ b \notin k.valid => b \in k1.dirty
        BY <1>1
      <3>2. k1.dirty \subseteq f.dirty /\ f.dirty \subseteq k1.dirty \cup {b}
        BY <1>3, <2>2
      <3>3. r = 0 /\ ~backing => b \in f.dirty
        <4>1. CASE r = 0 /\ ~backing
          <5>1. f.dirty = k2.dirty \cup {b}
            BY <2>2, <4>1
          <5> QED BY <5>1
        <4> QED BY <4>1
      <3> QED BY <3>1, <3>2, <3>3
    <2>5. /\ f.valid = k.valid \cup {b} /\ f.loading = k.loading /\ f.flushReq = k.flushReq
          /\ f.storeReq = k.storeReq /\ f.storing = k2.storing /\ f.loadReq = k1.loadReq
      BY <1>1, <1>3, <2>2
    <2> QED BY <1>1, <1>3, <1>5, <2>2, <2>3, <2>4, <2>5 DEF Fills
  <1> QED BY <1>4, <1>5

(* The answers it gives: to those who wait for b to be loaded, and to n    *)
(* unless it has to wait.                                                  *)
Tells(W, n, b, wait, ans) ==
    /\ ans \in [Node -> Seq(Response)]
    /\ \A x \in Node : \A p, c :
         Count(ans[x], p, c) = Bit(x \in W /\ "load" = p /\ b = c)
                               + Bit(~wait /\ x \in {n} /\ "store" = p /\ b = c)
    /\ \A x \in Node : \A c \in Oks(ans[x]) : (x \in W \/ x = n) /\ c = b
    /\ \A x \in Node : \A c \in Acks(ans[x]) : ~wait /\ c = b
    /\ \A x \in Node : x \notin W /\ (wait \/ x # n) => ans[x] = <<>>

(* content_store_request() gives these answers. *)
LEMMA StoreAnswersAre ==
    ASSUME Laws, NEW W, NEW n \in Node, NEW b \in Blob, NEW wait \in BOOLEAN, NEW e \in Errnum,
           NEW loaded, loaded = Answers(W, Rsp("load", b, "ok")), NEW ans,
           ans = IF wait THEN loaded ELSE Both(loaded, Answers({n}, Rsp("store", b, e)))
    PROVE  Tells(W, n, b, wait, ans)
  <1> DEFINE t == Rsp("load", b, "ok")
             u == Rsp("store", b, e)
             stored == Answers({n}, u)
  <1>1. t \in Response /\ u \in Response
    BY RspIs DEF Errnum
  <1>2. \A p, c : /\ Fits(t, p, c) <=> "load" = p /\ b = c
                  /\ Fits(u, p, c) <=> "store" = p /\ b = c
    BY SMTT(60), RspFits
  <1>3. /\ \A c : t # Rsp("store", c, "ok") /\ (u = Rsp("store", c, "ok") => c = b)
        /\ t.b = b /\ u.b = b
    BY SMTT(60) DEF Rsp
  <1>4. loaded = Answers(W, t) /\ stored = Answers({n}, u)
    OBVIOUS
  <1>5. ans = IF wait THEN loaded ELSE Both(loaded, stored)
    OBVIOUS
  <1> HIDE DEF t, u, stored
  <1>6. /\ loaded \in [Node -> Seq(Response)]
        /\ \A x \in Node : \A p, c : Count(loaded[x], p, c) = Bit(x \in W /\ Fits(t, p, c))
        /\ \A x \in Node : \A c \in Oks(loaded[x]) : x \in W /\ t.b = c
        /\ \A x \in Node : \A c \in Acks(loaded[x]) : t = Rsp("store", c, "ok")
        /\ \A x \in Node : loaded[x] = IF x \in W THEN <<t>> ELSE <<>>
    <2>1. AnswersTo(W, t, loaded)
      BY <1>1, <1>4, AnswersIs
    <2> QED BY <2>1 DEF AnswersTo
  <1>7. /\ stored \in [Node -> Seq(Response)]
        /\ \A x \in Node : \A p, c : Count(stored[x], p, c) = Bit(x \in {n} /\ Fits(u, p, c))
        /\ \A x \in Node : \A c \in Oks(stored[x]) : x \in {n} /\ u.b = c
        /\ \A x \in Node : \A c \in Acks(stored[x]) : u = Rsp("store", c, "ok")
        /\ \A x \in Node : stored[x] = IF x \in {n} THEN <<u>> ELSE <<>>
    <2>1. AnswersTo({n}, u, stored)
      BY <1>1, <1>4, AnswersIs
    <2> QED BY <2>1 DEF AnswersTo
  <1>8. ASSUME NEW x \in Node, NEW p, NEW c
        PROVE  /\ Count(loaded[x], p, c) = Bit(x \in W /\ "load" = p /\ b = c)
               /\ Count(stored[x], p, c) = Bit(x \in {n} /\ "store" = p /\ b = c)
    <2>1. /\ Count(loaded[x], p, c) = Bit(x \in W /\ Fits(t, p, c))
          /\ Count(stored[x], p, c) = Bit(x \in {n} /\ Fits(u, p, c))
      BY <1>6, <1>7
    <2>2. Bit(x \in W /\ Fits(t, p, c)) = Bit(x \in W /\ "load" = p /\ b = c)
      BY SMTT(60), <1>2 DEF Bit
    <2>3. Bit(x \in {n} /\ Fits(u, p, c)) = Bit(x \in {n} /\ "store" = p /\ b = c)
      <3>1. Fits(u, p, c) <=> "store" = p /\ b = c
        BY <1>2
      <3> QED BY <3>1 DEF Bit
    <2> QED BY <2>1, <2>2, <2>3
  <1>9. CASE wait
    <2>1. ans = loaded
      BY <1>5, <1>9
    <2>2. ASSUME NEW x \in Node, NEW p, NEW c
          PROVE  Count(ans[x], p, c) = Bit(x \in W /\ "load" = p /\ b = c)
                               + Bit(~wait /\ x \in {n} /\ "store" = p /\ b = c)
      <3>1. Bit(~wait /\ x \in {n} /\ "store" = p /\ b = c) = 0
        BY <1>9 DEF Bit
      <3>2. Count(ans[x], p, c) = Bit(x \in W /\ "load" = p /\ b = c)
        <4>1. Count(loaded[x], p, c) = Bit(x \in W /\ "load" = p /\ b = c)
          BY SMTT(60), <1>8 DEF Bit
        <4> QED BY <2>1, <4>1
      <3>3. Bit(x \in W /\ "load" = p /\ b = c) \in Nat
        BY DEF Bit
      <3> QED BY SMTT(60), <3>1, <3>2, <3>3
    <2>3. \A x \in Node : Acks(ans[x]) = {} /\ \A c \in Oks(ans[x]) : x \in W /\ c = b
      BY <1>3, <1>6, <2>1
    <2>4. \A x \in Node : x \notin W => ans[x] = <<>>
      BY <1>6, <2>1
    <2> QED BY <1>6, <2>1, <2>2, <2>3, <2>4 DEF Tells
  <1>10. CASE ~wait
    <2>1. ans = Both(loaded, stored)
      BY <1>5, <1>10
    <2>2. /\ ans \in [Node -> Seq(Response)]
          /\ \A x \in Node : \A p, c :
               Count(ans[x], p, c) = Count(loaded[x], p, c) + Count(stored[x], p, c)
          /\ \A x \in Node : Oks(ans[x]) = Oks(loaded[x]) \cup Oks(stored[x])
          /\ \A x \in Node : Acks(ans[x]) = Acks(loaded[x]) \cup Acks(stored[x])
          /\ \A x \in Node : ans[x] = loaded[x] \o stored[x]
      <3>1. BothTo(loaded, stored, ans)
        BY <1>6, <1>7, <2>1, BothIs
      <3> QED BY <3>1 DEF BothTo
    <2>3. ASSUME NEW x \in Node, NEW p, NEW c
          PROVE  Count(ans[x], p, c) = Bit(x \in W /\ "load" = p /\ b = c)
                               + Bit(~wait /\ x \in {n} /\ "store" = p /\ b = c)
      <3>1. Bit(~wait /\ x \in {n} /\ "store" = p /\ b = c) = Bit(x \in {n} /\ "store" = p /\ b = c)
        BY <1>10 DEF Bit
      <3>2. Count(ans[x], p, c) = Count(loaded[x], p, c) + Count(stored[x], p, c)
        BY <2>2
      <3>3. /\ Count(loaded[x], p, c) = Bit(x \in W /\ "load" = p /\ b = c)
            /\ Count(stored[x], p, c) = Bit(x \in {n} /\ "store" = p /\ b = c)
        BY SMTT(60), <1>8 DEF Bit
      <3> QED BY <3>1, <3>2, <3>3
    <2>4. ASSUME NEW x \in Node
          PROVE  /\ \A c \in Oks(ans[x]) : (x \in W \/ x = n) /\ c = b
                 /\ \A c \in Acks(ans[x]) : c = b
      <3>1. /\ Oks(ans[x]) = Oks(loaded[x]) \cup Oks(stored[x])
            /\ Acks(ans[x]) = Acks(loaded[x]) \cup Acks(stored[x])
        BY <2>2
      <3> QED BY <1>3, <1>6, <1>7, <3>1
    <2>5. ASSUME NEW x \in Node, x \notin W, x # n PROVE ans[x] = <<>>
      <3>1. <<>> \o <<>> = <<>>
        BY SMTT(60)
      <3>2. loaded[x] = <<>> /\ stored[x] = <<>>
        BY <1>6, <1>7, <2>5
      <3> QED BY <2>2, <3>1, <3>2
    <2> QED BY <1>10, <2>2, <2>3, <2>4, <2>5 DEF Tells
  <1> QED BY <1>9, <1>10

(* content_store_request() *)
LEMMA StoreRequestStep ==
    ASSUME Laws, Inv, NEW r \in Rank, NEW n \in Node, StoreRequest(r, n)
    PROVE  Inv' /\ (Keeping => Keeping' /\ FlushOk)
  <1> DEFINE m == Head(up[n])
             b == m.b
             k == cache[r]
             k1 == Filled(k, b)
             store == b \in k1.dirty /\ (r > 0 \/ backing) /\ Stores(k1, r, b)
             sent == store /\ Connected(r)
             err == IF store /\ ~sent THEN "ENOSYS" ELSE "ok"
             k2 == IF sent THEN Storing(k1, {b}, 1) ELSE k1
             wait == r > 0 /\ b \in k1.dirty
             W == Waiters(k.loadReq \ k1.loadReq, b)
             loaded == Answers(W, Rsp("load", b, "ok"))
             f == IF wait THEN [k2 EXCEPT !.storeReq = @ \cup {<<n, b>>}] ELSE Redirtied(k2, r, b)
             rq == IF sent THEN <<Req("store", b)>> ELSE <<>>
             ans == IF wait THEN loaded ELSE Both(loaded, Answers({n}, Rsp("store", b, err)))
  <1>1. Asks(r, n, "store")
    BY DEF StoreRequest
  <1>2. /\ TypeOK /\ ~aborted /\ Sound /\ Child(n, r) /\ up[n] # <<>>
        /\ m \in Request /\ m.op = "store" /\ b \in Blob
        /\ \A p, c : Fits(m, p, c) <=> "store" = p /\ b = c
    <2>1. Question(r, n, "store")
      BY <1>1, AskIs
    <2> QED BY <2>1 DEF Question
  <1>3. /\ Routes /\ Singles /\ Living /\ \A i \in Rank : Counted(cache[i], i)
    BY <1>2 DEF Sound
  <1>4. n = Module => /\ r = 0 /\ mod = "dumping" /\ ~backing /\ b \in db
                      /\ up[Module] = <<m>> /\ Tail(up[Module]) = <<>>
    <2>1. CASE n = Module
      <3>1. r = 0
        BY <1>2, <2>1, NodesAre
      <3>2. /\ Tail(up[Module]) = <<>>
            /\ Head(up[Module]).op = "store" =>
                 /\ mod = "dumping" /\ ~backing /\ Head(up[Module]).b \in db
                 /\ up[Module] = <<Head(up[Module])>>
        BY <1>2, <1>3, <2>1, ModuleIs
      <3> QED BY <1>2, <2>1, <3>1, <3>2
    <2> QED BY <2>1
  <1>5. n # r /\ n # 0 /\ \A x \in Rank : x \in Node
    BY <1>2, NodesAre
  <1>6. /\ backing' = backing /\ reqs' = reqs /\ UNCHANGED modVars /\ aborted' = aborted
        /\ backing \in BOOLEAN /\ aborted \in BOOLEAN
        /\ discarded' = discarded /\ discarded \subseteq Blob
    BY <1>2 DEF StoreRequest, Rest, TypeOK
  <1>7. n \in Rank => Above(n, "store", b) = 0
    BY <1>2, <1>3, OneMoves
  <1>8. k \in Cache /\ Counted(k, r)
    BY <1>2, <1>3 DEF TypeOK
  <1>9. CASE b \in Huge
    <2> DEFINE no == Answers({n}, Rsp("store", Head(up[n]).b, "EFBIG"))
    <2>1. Post(Taken(up, n), down, r, <<>>, no) /\ cache' = cache
      BY <1>9 DEF StoreRequest
    <2>2. no = Answers({n}, Rsp("store", Head(up[n]).b, "EFBIG"))
      OBVIOUS
    <2> HIDE DEF no
    <2>3. /\ "store" \in {"load", "store", "flush", "on", "off"} /\ "EFBIG" \in Errnum
          /\ backing' \in BOOLEAN
      BY <1>6 DEF Errnum
    <2>4. Replied(r, n, "store", "EFBIG", k, no)
      BY <1>1, <1>2, <1>6, <2>1, <2>2, <2>3, Untouched, ReplyIs
    <2>5. n # Module
      <3>1. db \cap Huge = {}
        BY <1>3 DEF Living
      <3> QED BY <1>4, <1>9, <3>1
    <2>6. Inv'
      BY <1>6, <2>4, <2>5, InvIs DEF Replied
    <2>7. "EFBIG" # "ok"
      OBVIOUS
    <2>8. Keeping => Keeping'
      BY <1>6, <2>4, <2>5, <2>7, ReplyKeeps
    <2>9. FlushOk
      BY <2>4, <2>7, ReplyNotFlush
    <2> QED BY <2>6, <2>8, <2>9
  <1>10. CASE b \notin Huge
    <2>1. cache' = [cache EXCEPT ![r] = f] /\ Post(Taken(up, n), down, r, rq, ans)
      BY <1>10 DEF StoreRequest, Become
    <2>2. Fills(k, r, b, n, sent, wait, f)
      <3>1. /\ sent \in BOOLEAN /\ wait \in BOOLEAN /\ k1 = Filled(k, b)
            /\ sent => b \in k1.dirty /\ Stores(k1, r, b)
            /\ k2 = IF sent THEN Storing(k1, {b}, 1) ELSE k1
            /\ wait <=> r > 0 /\ b \in k1.dirty
            /\ f = IF wait THEN [k2 EXCEPT !.storeReq = @ \cup {<<n, b>>}] ELSE Redirtied(k2, r, b)
        BY DEF Stores, Connected, Registered
      <3> HIDE DEF store, sent, wait, k1, k2, f, k, b
      <3>2. b \in Blob
        BY <1>2 DEF b
      <3> QED BY <1>8, <3>1, <3>2, StoreCacheIs
    <2>3. \A x \in Node : x \in W <=> <<x, b>> \in k.loadReq /\ b \notin k.valid
      <3>1. FilledTo(k, r, b, k1)
        BY <1>2, <1>8, FilledIs
      <3>2. k1.loadReq = IF b \in k.valid THEN k.loadReq ELSE k.loadReq \ (Node \X {b})
        BY <3>1 DEF FilledTo
      <3> HIDE DEF k1
      <3>3. ASSUME NEW x \in Node
            PROVE  x \in W <=> <<x, b>> \in k.loadReq /\ b \notin k.valid
        <4>1. x \in W <=> <<x, b>> \in k.loadReq /\ <<x, b>> \notin k1.loadReq
          BY DEF Waiters
        <4>2. <<x, b>> \in Node \X {b}
          OBVIOUS
        <4> QED BY <3>2, <4>1, <4>2
      <3> QED BY <3>3
    <2>4. Tells(W, n, b, wait, ans)
      <3>1. /\ wait \in BOOLEAN /\ loaded = Answers(W, Rsp("load", b, "ok"))
            /\ ans = IF wait THEN loaded ELSE Both(loaded, Answers({n}, Rsp("store", b, err)))
            /\ err \in Errnum
        BY DEF Errnum
      <3> HIDE DEF wait, W, loaded, ans, err
      <3> QED BY <1>2, <3>1, StoreAnswersAre
    <2>5. /\ rq \in Seq(Request)
          /\ \A p, c : Count(rq, p, c) = Bit(sent /\ "store" = p /\ b = c)
      <3> HIDE DEF sent
      <3>1. Req("store", b) \in Request
        BY <1>2, ReqIs
      <3>2. <<Req("store", b)>> \in Seq(Request) /\ <<>> \in Seq(Request)
        BY SMTT(60), <3>1
      <3>3. ASSUME NEW p, NEW c PROVE Count(rq, p, c) = Bit(sent /\ "store" = p /\ b = c)
        <4>1. Count(<<Req("store", b)>>, p, c) = Bit(Fits(Req("store", b), p, c))
          BY <3>1, OneCounted
        <4>2. Fits(Req("store", b), p, c) <=> "store" = p /\ b = c
          BY SMTT(60), ReqFits
        <4>3. Count(<<>>, p, c) = 0
          BY NoneCounted
        <4> QED BY <4>1, <4>2, <4>3 DEF Bit
      <3> QED BY <3>2, <3>3
    <2> HIDE DEF store, sent, err, wait, k1, k2, W, loaded, f, rq, ans
    <2>6. /\ f \in Cache /\ Counted(f, r)
          /\ f.valid = k.valid \cup {b} /\ f.loading = k.loading /\ f.flushReq = k.flushReq
          /\ f.storing = IF sent THEN k.storing \cup {b} ELSE k.storing
          /\ sent => b \notin k.storing
          /\ f.loadReq = IF b \in k.valid THEN k.loadReq ELSE k.loadReq \ (Node \X {b})
          /\ f.storeReq = IF wait THEN k.storeReq \cup {<<n, b>>} ELSE k.storeReq
      BY <2>2 DEF Fills
    <2>7. /\ ans \in [Node -> Seq(Response)]
          /\ \A x \in Node : \A p, c :
               Count(ans[x], p, c) = Bit(x \in W /\ "load" = p /\ b = c)
                               + Bit(~wait /\ x \in {n} /\ "store" = p /\ b = c)
          /\ \A x \in Node : \A c \in Oks(ans[x]) : (x \in W \/ x = n) /\ c = b
          /\ \A x \in Node : \A c \in Acks(ans[x]) : ~wait /\ c = b
          /\ \A x \in Node : x \notin W /\ (wait \/ x # n) => ans[x] = <<>>
      BY <2>4 DEF Tells
    <2>8. Flow(n, m, r, rq, ans) /\ Passed(n, r, ans)
      BY <1>2, <2>1, <2>5, <2>7, AskFlow
    <2>9. Handled(n, m, r, f, rq, ans)
      BY <1>2, <1>6, <2>1, <2>5, <2>6, <2>7, <2>8, PostHandled
    <2>10. Routed(k, r)
      BY <1>3 DEF Routes, Routed
    <2>11. Routed(f, r)
      <3>1. f.loadReq \subseteq k.loadReq /\ f.storeReq \subseteq k.storeReq \cup {<<n, b>>}
        BY <2>6
      <3>2. ASSUME NEW x \in Node, NEW c \in Blob, <<x, c>> \in f.loadReq \/ <<x, c>> \in f.storeReq
            PROVE  Child(x, r)
        <4>1. CASE <<x, c>> \in k.loadReq \/ <<x, c>> \in k.storeReq
          BY <2>10, <4>1 DEF Routed
        <4>2. CASE <<x, c>> = <<n, b>>
          BY <1>2, <4>2
        <4> QED BY <3>1, <3>2, <4>1, <4>2
      <3> QED BY <2>6, <2>10, <3>2 DEF Routed
    <2>12. \A x \in W : x \in Node => Child(x, r) /\ x # Module /\ x # r
      <3>1. ASSUME NEW x \in W, x \in Node PROVE Child(x, r) /\ x # Module /\ x # r
        <4>1. <<x, b>> \in k.loadReq
          BY <2>3, <3>1
        <4>2. Child(x, r)
          BY <1>2, <2>10, <3>1, <4>1 DEF Routed
        <4>3. x = Module => r = 0
          BY <4>2, NodesAre
        <4>4. x # Module
          BY <1>2, <1>3, <4>1, <4>3 DEF Living
        <4> QED BY <4>2, <4>4, NodesAre
      <3> QED BY <3>1
    <2>13. Balanced(n, m, r, f, rq, ans)
      <3> HIDE DEF m, b, k
      <3>1. ASSUME NEW p \in {"load", "store"}, NEW c \in Blob
            PROVE  Count(rq, p, c) + Count(ans[r], p, c) + Pending(k, p, c)
                     = Pending(f, p, c) + Bit(n = r /\ Fits(m, p, c))
        <4>1. Count(rq, p, c) = Bit(sent /\ "store" = p /\ b = c)
          BY <2>5
        <4>2. Count(ans[r], p, c) = 0
          <5>1. r \in Node /\ r \notin W /\ r # n
            BY <1>5, <2>12
          <5>2. ans[r] = <<>>
            BY <2>7, <5>1
          <5> QED BY <5>2, NoneCounted
        <4>3. Bit(n = r /\ Fits(m, p, c)) = 0
          BY <1>5 DEF Bit
        <4>4. Bit(sent /\ "store" = p /\ b = c) + Pending(k, p, c) = Pending(f, p, c)
          <5>1. CASE sent /\ "store" = p /\ b = c
            <6>1. Pending(k, p, c) = 0 /\ Pending(f, p, c) = 1
              BY <2>6, <5>1 DEF Pending, Bit
            <6>2. Bit(sent /\ "store" = p /\ b = c) = 1
              BY <5>1 DEF Bit
            <6> QED BY SMTT(60), <6>1, <6>2
          <5>2. CASE ~(sent /\ "store" = p /\ b = c)
            <6>1. p = "store" => (c \in f.storing <=> c \in k.storing)
              BY <2>6, <5>2
            <6>2. Pending(k, p, c) = Pending(f, p, c)
              BY <2>6, <6>1 DEF Pending, Bit
            <6>3. Bit(sent /\ "store" = p /\ b = c) = 0
              BY <5>2 DEF Bit
            <6>4. Pending(f, p, c) \in Nat
              BY DEF Pending, Bit
            <6> QED BY SMTT(60), <6>2, <6>3, <6>4
          <5> QED BY <5>1, <5>2
        <4>5. Pending(f, p, c) \in Nat /\ Pending(k, p, c) \in Nat
              /\ Bit(sent /\ "store" = p /\ b = c) \in Nat
          BY DEF Pending, Bit
        <4> QED BY SMTT(60), <4>1, <4>2, <4>3, <4>4, <4>5
      <3>2. ASSUME NEW p \in {"load", "store"}, NEW c \in Blob, NEW x \in Rank \ {r}
            PROVE  IF Child(x, r)
                   THEN Count(ans[x], p, c) + Waits(f, x, p, c)
                          = Waits(k, x, p, c) + Bit(n = x /\ Fits(m, p, c))
                   ELSE Count(ans[x], p, c) = 0
        <4> DEFINE A == x \in W /\ "load" = p /\ b = c
                   B == ~wait /\ x \in {n} /\ "store" = p /\ b = c
        <4>1. x \in Node
          BY <1>5
        <4>2. Count(ans[x], p, c) = Bit(A) + Bit(B)
          BY <2>7, <4>1
        <4>3. CASE ~Child(x, r)
          <5>1. x \notin W /\ x # n
            BY <1>2, <2>12, <4>1, <4>3
          <5>2. ans[x] = <<>>
            BY <2>7, <4>1, <5>1
          <5>3. Count(ans[x], p, c) = 0
            BY <5>2, NoneCounted
          <5> QED BY <4>3, <5>3
        <4>4. CASE Child(x, r) /\ b = c /\ p = "load"
          <5>1. Bit(B) = 0 /\ Bit(n = x /\ Fits(m, p, c)) = 0
            BY <1>2, <4>4 DEF Bit, b
          <5>2. x \in W <=> <<x, b>> \in k.loadReq /\ b \notin k.valid
            BY <2>3, <4>1 DEF k, b
          <5>3. CASE b \in k.valid
            <6>1. Bit(A) = 0
              BY <5>2, <5>3 DEF Bit
            <6>2. Waits(f, x, p, c) = Waits(k, x, p, c)
              BY <2>6, <4>4, <5>3 DEF Waits
            <6>3. Waits(k, x, p, c) \in Nat
              BY DEF Waits, Bit
            <6>4. Count(ans[x], p, c) + Waits(f, x, p, c)
                          = Waits(k, x, p, c) + Bit(n = x /\ Fits(m, p, c))
              <7> HIDE DEF A, B
              <7> QED BY SMTT(60), <4>2, <5>1, <6>1, <6>2, <6>3
            <6> QED BY <4>4, <6>4
          <5>4. CASE b \notin k.valid
            <6>1. <<x, c>> \in Node \X {b}
              BY <4>1, <4>4
            <6>2. <<x, c>> \notin f.loadReq
              <7>1. f.loadReq = k.loadReq \ (Node \X {b})
                BY <2>6, <5>4 DEF k, b
              <7> QED BY <6>1, <7>1
            <6>3. Waits(f, x, p, c) = 0
              BY <4>4, <6>2 DEF Waits, Bit
            <6>4. Bit(A) = Waits(k, x, p, c)
              BY <4>4, <5>2, <5>4 DEF Waits, Bit
            <6>5. Waits(k, x, p, c) \in Nat
              BY DEF Waits, Bit
            <6>6. Count(ans[x], p, c) + Waits(f, x, p, c)
                          = Waits(k, x, p, c) + Bit(n = x /\ Fits(m, p, c))
              <7> HIDE DEF A, B
              <7> QED BY SMTT(60), <4>2, <5>1, <6>3, <6>4, <6>5
            <6> QED BY <4>4, <6>6
          <5> QED BY <5>3, <5>4
        <4>5. CASE Child(x, r) /\ b = c /\ p = "store" /\ x = n
          <5>1. Bit(A) = 0
            BY <4>5 DEF Bit
          <5>2. Bit(n = x /\ Fits(m, p, c)) = 1
            BY <1>2, <4>5 DEF Bit, b
          <5>3. <<n, b>> \notin k.storeReq
            <6>1. Above(n, "store", b) = Waits(k, n, "store", b)
              BY <1>2, <1>5 DEF Above, Child, k
            <6> QED BY SMTT(60), <1>7, <4>5, <6>1 DEF Waits, Bit, b
          <5>4. Waits(k, x, p, c) = 0
            BY <4>5, <5>3 DEF Waits, Bit
          <5>5. Bit(B) + Waits(f, x, p, c) = 1
            <6>1. CASE wait
              <7>1. Bit(B) = 0 /\ Waits(f, x, p, c) = 1
                BY <2>6, <4>5, <6>1 DEF Waits, Bit
              <7> QED BY SMTT(60), <7>1
            <6>2. CASE ~wait
              <7>1. Bit(B) = 1
                BY <4>5, <6>2 DEF Bit
              <7>2. Waits(f, x, p, c) = 0
                BY <2>6, <4>5, <5>3, <6>2 DEF Waits, Bit
              <7> QED BY SMTT(60), <7>1, <7>2
            <6> QED BY <6>1, <6>2
          <5>6. Bit(B) \in Nat /\ Waits(f, x, p, c) \in Nat
            BY DEF Bit, Waits
          <5>7. Count(ans[x], p, c) + Waits(f, x, p, c)
                          = Waits(k, x, p, c) + Bit(n = x /\ Fits(m, p, c))
            <6> HIDE DEF A, B
            <6> QED BY SMTT(60), <4>2, <5>1, <5>2, <5>4, <5>5, <5>6
          <5> QED BY <4>5, <5>7
        <4>6. CASE Child(x, r) /\ ~(b = c /\ (p = "load" \/ x = n))
          <5>1. Bit(A) = 0 /\ Bit(B) = 0 /\ Bit(n = x /\ Fits(m, p, c)) = 0
            BY <1>2, <4>6 DEF Bit, b
          <5>2. p = "load" => (<<x, c>> \in f.loadReq <=> <<x, c>> \in k.loadReq)
            <6>1. p = "load" => c # b
              BY <4>6
            <6>2. c # b => <<x, c>> \notin Node \X {b}
              OBVIOUS
            <6> QED BY <2>6, <6>1, <6>2
          <5>3. p = "store" => (<<x, c>> \in f.storeReq <=> <<x, c>> \in k.storeReq)
            <6>1. p = "store" => <<x, c>> # <<n, b>>
              BY <4>6
            <6> QED BY <2>6, <6>1
          <5>4. Waits(f, x, p, c) = Waits(k, x, p, c)
            BY <5>2, <5>3 DEF Waits, Bit
          <5>5. Waits(k, x, p, c) \in Nat
            BY DEF Waits, Bit
          <5>6. Count(ans[x], p, c) + Waits(f, x, p, c)
                          = Waits(k, x, p, c) + Bit(n = x /\ Fits(m, p, c))
            <6> HIDE DEF A, B
            <6> QED BY SMTT(60), <4>2, <5>1, <5>4, <5>5
          <5> QED BY <4>6, <5>6
        <4> QED BY <4>3, <4>4, <4>5, <4>6
      <3> QED BY <1>2, <3>1, <3>2 DEF Balanced, k
    <2>14. /\ TypeOK' /\ Routes' /\ (\A i \in Rank : Counted(cache'[i], i)) /\ Singles'
      BY <1>2, <1>3, <1>6, <2>6, <2>9, <2>11, <2>13, HandlerIs
    <2>15. /\ n # Module => up'[Module] = up[Module]
           /\ n = Module => up'[Module] = Tail(up[Module])
      BY <2>8, PassedIs
    <2>16. cache'[r] = f /\ \A x \in Rank \ {r} : cache'[x] = cache[x]
      BY <1>2, <2>1 DEF TypeOK
    <2>17. /\ Oks(ans[0]) = {}
           /\ n # Module => ans[Module] = <<>>
      BY <1>5, <2>7, <2>12, NodesAre
    <2>18. r = 0 => /\ \A c \in Blob : <<Module, c>> \notin f.loadReq
                    /\ f.storeReq = {} /\ Module \notin f.flushReq /\ f.dirty \cap Huge = {}
      <3>1. CASE r = 0
        <4>1. /\ \A c \in Blob : <<Module, c>> \notin k.loadReq
              /\ k.storeReq = {} /\ Module \notin k.flushReq /\ k.dirty \cap Huge = {}
          BY <1>3, <3>1 DEF Living
        <4>2. ~wait /\ f.dirty \subseteq k.dirty \cup {b}
          BY <2>2, <3>1 DEF Fills
        <4>3. f.dirty \cap Huge = {}
          BY <1>10, <4>1, <4>2
        <4> QED BY <2>6, <4>1, <4>2, <4>3
      <3> QED BY <3>1
    <2>19. Living'
      <3>1. CASE n # Module
        BY <1>2, <1>3, <1>6, <2>9, <2>15, <2>17, <2>18, <3>1, LivingHandled
      <3>2. CASE n = Module
        <4>1. mod' = mod /\ db' = db /\ dump' = dump
          BY <1>6 DEF modVars
        <4>2. /\ r = 0 /\ mod = "dumping" /\ ~backing /\ up'[Module] = <<>>
          BY <1>4, <2>15, <3>2
        <4>3. Asked'
          BY <1>6, <4>1, <4>2 DEF Asked
        <4>4. Oks(down'[0]) = {}
          <5>1. Oks(down'[0]) \subseteq Oks(down[0]) \cup Oks(ans[0])
            BY <2>8, NodesAre DEF Flow
          <5>2. Oks(down[0]) = {}
            BY <1>3, <4>2 DEF Living
          <5> QED BY <2>17, <5>1, <5>2
        <4>5. /\ \A c \in Blob : <<Module, c>> \notin cache'[0].loadReq
              /\ cache'[0].storeReq = {} /\ Module \notin cache'[0].flushReq
              /\ cache'[0].dirty \cap Huge = {}
          BY <2>16, <2>18, <4>2
        <4> QED BY <1>3, <4>1, <4>2, <4>3, <4>4, <4>5 DEF Living
      <3> QED BY <3>1, <3>2
    <2>20. Inv'
      BY <2>14, <2>19, InvIs
    <2>21. FlushOk
      <3>1. ASSUME NEW c \in Client PROVE Count(ans[c], "flush", NoBlob) = 0
        <4>1. Count(ans[c], "flush", NoBlob) = Bit(c \in W /\ "load" = "flush" /\ b = NoBlob)
                               + Bit(~wait /\ c \in {n} /\ "store" = "flush" /\ b = NoBlob)
          BY <2>7, NodesAre
        <4>2. /\ Bit(c \in W /\ "load" = "flush" /\ b = NoBlob) = 0
              /\ Bit(~wait /\ c \in {n} /\ "store" = "flush" /\ b = NoBlob) = 0
          BY DEF Bit
        <4> QED BY SMTT(60), <4>1, <4>2
      <3> QED BY <1>2, <2>7, <2>8, <3>1, NotFlush
    <2>22. ASSUME Keeping PROVE Keeping'
      <3>1. /\ k.dirty \subseteq f.dirty
            /\ b \notin k.valid => b \in f.dirty
            /\ r = 0 /\ ~backing => b \in f.dirty
            /\ ~wait /\ r # 0 => b \in k.valid /\ b \notin f.dirty
            /\ f.valid = k.valid \cup {b}
        BY <2>2 DEF Fills
      <3>2. Clean(f) \subseteq Clean(k)
        <4>1. ASSUME NEW c \in Clean(f) PROVE c \in Clean(k)
          <5>1. c \in f.valid /\ c \notin f.dirty
            BY <4>1 DEF Clean
          <5>2. c \notin k.dirty /\ c \in k.valid
            BY <3>1, <5>1
          <5> QED BY <5>2 DEF Clean
        <4> QED BY <4>1
      <3>3. Held \subseteq Held' /\ Clean(cache'[0]) \subseteq Backed'
        <4>1. CASE n # Module
          <5>1. cache[0].valid \subseteq cache'[0].valid
            BY <2>16, <3>1, NodesAre
          <5>2. Backed' = Backed /\ Held \subseteq Held'
            BY <1>6, <2>15, <4>1, <5>1, HeldIs
          <5>3. Clean(cache'[0]) \subseteq Clean(cache[0])
            <6>1. CASE r = 0
              <7>1. cache'[0] = f /\ cache[0] = k
                BY <2>16, <6>1
              <7> QED BY <3>2, <7>1
            <6>2. CASE r # 0
              <7>1. cache'[0] = cache[0]
                BY <2>16, <6>2, NodesAre
              <7> QED BY <7>1
            <6> QED BY <6>1, <6>2
          <5> QED BY <2>22, <5>2, <5>3 DEF Keeping
        <4>2. CASE n = Module
          <5>1. /\ mod' = mod /\ db' = db /\ dump' = dump
            BY <1>6 DEF modVars
          <5>2. /\ r = 0 /\ mod = "dumping" /\ ~backing /\ up[Module] = <<m>> /\ up'[Module] = <<>>
            BY <1>4, <2>15, <4>2
          <5>3. Backed \subseteq dump \cup {b}
            <6>1. \A i \in DOMAIN <<m>> : <<m>>[i] = m
              BY SMTT(60)
            <6> QED BY <5>2, <6>1 DEF Backed
          <5>4. Backed' = dump
            <6>1. DOMAIN <<>> = {}
              BY SMTT(60)
            <6> QED BY <5>1, <5>2, <6>1 DEF Backed
          <5>5. b \in f.dirty /\ cache'[0] = f
            BY <2>16, <3>1, <5>2
          <5>6. Held \subseteq Held'
            BY <3>1, <5>2, <5>3, <5>4, <5>5 DEF Held
          <5>7. Clean(k) \subseteq Backed
            BY <2>22, <5>2 DEF Keeping
          <5>8. Clean(f) \subseteq dump
            BY <3>2, <5>3, <5>5, <5>7 DEF Clean
          <5> QED BY <5>4, <5>5, <5>6, <5>8
        <4> QED BY <4>1, <4>2
      <3>4. r # 0 => /\ cache[r].dirty \ f.dirty \subseteq Good(r) \cup discarded'
                     /\ Clean(f) \subseteq Good(r) \cup discarded'
        BY <2>22, <3>1, <3>2 DEF Keeping
      <3>5. Serves(r, f, ans)
        <4>1. ASSUME NEW x \in Node, NEW c \in Oks(ans[x]) PROVE Child(x, r) /\ c \in f.valid
          BY <1>2, <2>7, <2>12, <3>1
        <4>2. ASSUME NEW x \in Node, NEW c \in Acks(ans[x])
              PROVE  c \in IF r = 0 THEN f.valid ELSE Clean(f)
          <5>1. ~wait /\ c = b
            BY <2>7
          <5> QED BY <3>1, <5>1 DEF Clean
        <4> QED BY <4>1, <4>2 DEF Serves
      <3> QED BY <1>2, <1>6, <2>9, <2>22, <3>3, <3>4, <3>5, KeepIs
    <2> QED BY <2>20, <2>21, <2>22
  <1> QED BY <1>9, <1>10
=============================================================================
