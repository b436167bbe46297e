--------------------------- MODULE ContentAnswers ---------------------------
(***************************************************************************)
(* The handlers of answers to loads and stores, the registration of the    *)
(* backing store and dropcache preserve the invariant of ContentSteps.     *)
(***************************************************************************)
EXTENDS ContentSteps

USE ZenonT(60)

-----------------------------------------------------------------------------
(* Answers *)

(* The cache that cache_load_continuation() leaves. *)
Loaded(k, r, b, e, f) ==
    /\ f \in Cache /\ f.loading = k.loading \ {b} /\ f.loadReq = k.loadReq \ (Node \X {b})
    /\ f.storing = k.storing /\ f.storeReq = k.storeReq /\ f.flushReq = k.flushReq
    /\ f.valid = IF e = "ok" THEN k.valid \cup {b} ELSE k.valid \ {b}
    /\ f.dirty = IF e = "ok" THEN k.dirty ELSE k.dirty \ {b}
    /\ e = "ok" \/ b \notin k.storing => Counted(f, r)
Forgets(k, b) == [k EXCEPT !.loading = @ \ {b}, !.loadReq = @ \ (Node \X {b})]
Ends(g, b, e) == IF e = "ok" THEN [g EXCEPT !.valid = @ \cup {b}] ELSE Removed(g, {b})

(* cache_load_continuation() does that to the cache. *)
LEMMA LoadedIs ==
    ASSUME Laws, NEW k \in Cache, NEW r \in Rank, Counted(k, r), NEW b \in Blob, NEW e,
           NEW g, g = Forgets(k, b), NEW f, f = Ends(g, b, e)
    PROVE  Loaded(k, r, b, e, f) /\ g.storing = k.storing /\ g.valid = k.valid
  <1>1. /\ g \in Cache /\ g.loading = k.loading \ {b} /\ g.loadReq = k.loadReq \ (Node \X {b})
        /\ g.storing = k.storing /\ g.storeReq = k.storeReq /\ g.flushReq = k.flushReq
        /\ g.dirty = k.dirty /\ g.valid = k.valid /\ g.acct = k.acct /\ g.batch = k.batch
    <2>1. k.loadReq \ (Node \X {b}) \in SUBSET (Node \X Blob) /\ k.loading \ {b} \in SUBSET Blob
      BY DEF Cache
    <2> DEFINE S == k.loadReq \ (Node \X {b})
               L == k.loading \ {b}
    <2>2. g = [k EXCEPT !.loading = L, !.loadReq = S] /\ S \in SUBSET (Node \X Blob)
          /\ L \in SUBSET Blob
      BY <2>1 DEF Forgets
    <2> HIDE DEF S, L
    <2>3. /\ g \in Cache /\ g.loading = L /\ g.loadReq = S
          /\ g.storing = k.storing /\ g.storeReq = k.storeReq /\ g.flushReq = k.flushReq
          /\ g.dirty = k.dirty /\ g.valid = k.valid /\ g.acct = k.acct /\ g.batch = k.batch
      BY <2>2 DEF Cache
    <2> QED BY <2>3 DEF S, L
  <1>2. Counted(g, r)
    BY <1>1 DEF Counted
  <1>3. CASE e = "ok"
    <2>1. f = [g EXCEPT !.valid = @ \cup {b}] /\ g.valid \cup {b} \in SUBSET Blob
      BY <1>1, <1>3 DEF Cache, Ends
    <2> DEFINE V == g.valid \cup {b}
    <2>2. f = [g EXCEPT !.valid = V] /\ V \in SUBSET Blob
      BY <2>1
    <2> HIDE DEF V
    <2>3. /\ f \in Cache /\ f.loading = g.loading /\ f.loadReq = g.loadReq
          /\ f.storing = g.storing /\ f.storeReq = g.storeReq /\ f.flushReq = g.flushReq
          /\ f.dirty = g.dirty /\ f.valid = V /\ f.acct = g.acct
          /\ f.batch = g.batch
      BY <1>1, <2>2 DEF Cache
    <2>4. /\ f \in Cache /\ f.loading = g.loading /\ f.loadReq = g.loadReq
          /\ f.storing = g.storing /\ f.storeReq = g.storeReq /\ f.flushReq = g.flushReq
          /\ f.dirty = g.dirty /\ f.valid = g.valid \cup {b} /\ f.acct = g.acct
          /\ f.batch = g.batch
      BY <2>3 DEF V
    <2>5. Counted(f, r)
      BY <1>2, <2>4 DEF Counted
    <2> QED BY <1>1, <1>3, <2>4, <2>5 DEF Loaded
  <1>4. CASE e # "ok"
    <2>1. f = Removed(g, {b}) /\ {b} \in SUBSET Blob
      BY <1>4 DEF Ends
    <2>2. RemovedTo(g, r, {b}, f)
      BY <1>1, <1>2, <2>1, RemovedIs
    <2>3. /\ f \in Cache /\ f.valid = g.valid \ {b} /\ f.dirty = g.dirty \ {b}
          /\ f.storing = g.storing /\ f.loading = g.loading /\ f.loadReq = g.loadReq
          /\ f.storeReq = g.storeReq /\ f.flushReq = g.flushReq
          /\ {b} \cap g.storing = {} => Counted(f, r)
      BY <2>2 DEF RemovedTo
    <2>4. b \notin k.storing => Counted(f, r)
      BY <1>1, <2>3
    <2> QED BY <1>1, <1>4, <2>3, <2>4 DEF Loaded
  <1> QED BY <1>1, <1>3, <1>4

(* A success says that the blob is where it should be. *)
LEMMA OkIsGood ==
    ASSUME TypeOK, Living, NEW r \in Rank, down[r] # <<>>, NEW b \in Blob,
           Head(down[r]).b = b, Head(down[r]).err = "ok"
    PROVE  /\ r = 0 => b \in db /\ b \in Backed
           /\ Keeping /\ r # 0 => b \in Good(r)
  <1>1. down[r] \in Seq(Response)
    BY NodesAre DEF TypeOK
  <1>2. b \in Oks(down[r])
    BY <1>1, OksTail
  <1>3. r = 0 => b \in db /\ b \in Backed
    <2>1. CASE r = 0
      <3>1. Oks(down[0]) \subseteq db /\ Oks(down[0]) # {}
        BY <1>2, <2>1 DEF Living
      <3>2. Backed = db
        BY <3>1, BackedIs
      <3> QED BY <1>2, <2>1, <3>1, <3>2
    <2> QED BY <2>1
  <1>4. Keeping /\ r # 0 => b \in Good(r)
    BY <1>2 DEF Keeping
  <1> QED BY <1>3, <1>4

(* A continuation keeps what is stored if it forgets only what it counts   *)
(* as discarded, and makes clean only what was answered with success.      *)
LEMMA AnswerKeeps ==
    ASSUME TypeOK, Living, Keeping, NEW r \in Rank, down[r] # <<>>, NEW b \in Blob,
           Head(down[r]).b = b, NEW k, k = cache[r], NEW f, NEW rq, NEW ans,
           Handled(r, Head(down[r]), r, f, rq, ans), Serves(r, f, ans),
           up'[Module] = up[Module], discarded \subseteq discarded',
           k.valid \ f.valid \subseteq discarded',
           \A c \in k.dirty \ f.dirty : c \in discarded' \/ (c = b /\ Head(down[r]).err = "ok"),
           \A c \in Clean(f) : c \in Clean(k) \/ (c = b /\ Head(down[r]).err = "ok")
    PROVE  Keeping'
  <1>1. /\ cache' = [cache EXCEPT ![r] = f] /\ cache \in [Rank -> Cache] /\ UNCHANGED modVars
    BY DEF Handled, TypeOK
  <1>2. cache'[r] = f /\ \A x \in Rank \ {r} : cache'[x] = cache[x]
    BY <1>1
  <1>3. Head(down[r]).err = "ok" => (r = 0 => b \in Backed) /\ (r # 0 => b \in Good(r))
    BY OkIsGood
  <1>4. Backed' = Backed
    BY <1>1 DEF Backed, modVars
  <1>5. Held \subseteq Held' \cup discarded'
    <2>1. cache[0].valid \subseteq cache'[0].valid \cup discarded'
      <3>1. CASE r = 0
        BY <1>2, <3>1
      <3>2. CASE r # 0
        BY <1>2, <3>2, NodesAre
      <3> QED BY <3>1, <3>2
    <2> QED BY <1>4, <2>1 DEF Held
  <1>6. Clean(cache'[0]) \subseteq Backed'
    <2>1. CASE r = 0
      <3>1. Clean(k) \subseteq Backed
        BY <2>1 DEF Keeping
      <3> QED BY <1>2, <1>3, <1>4, <2>1, <3>1
    <2>2. CASE r # 0
      <3>1. cache'[0] = cache[0]
        BY <1>2, <2>2, NodesAre
      <3> QED BY <1>4, <3>1 DEF Keeping
    <2> QED BY <2>1, <2>2
  <1>7. r # 0 => /\ cache[r].dirty \ f.dirty \subseteq Good(r) \cup discarded'
                 /\ Clean(f) \subseteq Good(r) \cup discarded'
    <2>1. r # 0 => Clean(k) \subseteq Good(r)
      BY DEF Keeping
    <2> QED BY <1>3, <2>1
  <1> QED BY <1>5, <1>6, <1>7, KeepIs

(* The answers to stores are answers. *)
LEMMA AcksOks ==
    ASSUME NEW q PROVE Acks(q) \subseteq Oks(q)
  <1>1. ASSUME NEW b \in Acks(q) PROVE b \in Oks(q)
    <2>1. PICK i \in DOMAIN q : q[i] = Rsp("store", b, "ok")
      BY <1>1 DEF Acks
    <2>2. q[i].b = b /\ q[i].err = "ok"
      BY SMTT(60), <2>1 DEF Rsp
    <2>3. b \in Blob
      BY <1>1 DEF Acks
    <2> QED BY <2>2, <2>3 DEF Oks
  <1> QED BY <1>1

(* cache_load_continuation() *)
LEMMA LoadResponseStep ==
    ASSUME Laws, Inv, NEW r \in Rank, LoadResponse(r)
    PROVE  Inv' /\ (Keeping => Keeping' /\ FlushOk)
  <1> DEFINE m == Head(down[r])
             b == m.b
             k == cache[r]
             e == IF m.err = "ENOSYS" /\ r = 0 THEN "ENOENT" ELSE m.err
             g == Forgets(k, b)
             f == Ends(g, b, e)
             W == Waiters(k.loadReq, b)
             t == Rsp("load", b, e)
             ans == Answers(W, t)
  <1>1. Hears(r, "load")
    BY DEF LoadResponse
  <1>2. /\ TypeOK /\ ~aborted /\ Sound /\ down[r] # <<>>
        /\ m \in Response /\ m.op = "load" /\ b \in Blob
        /\ \A p, c : Fits(m, p, c) <=> "load" = p /\ b = c
    <2>1. Answer(r, "load")
      BY <1>1, HearIs
    <2> QED BY <2>1 DEF Answer
  <1>3. /\ Routes /\ Singles /\ Living /\ \A i \in Rank : Counted(cache[i], i)
    BY <1>2 DEF Sound
  <1>4. b \in k.loading
    <2>1. Fits(m, "load", b)
      BY <1>2
    <2>2. Pending(k, "load", b) = 1
      BY <1>2, <1>3, <2>1, OneMoves
    <2> QED BY SMTT(60), <2>2 DEF Pending, Bit
  <1>5. e = "ok" <=> m.err = "ok"
    OBVIOUS
  <1>6. /\ backing' = backing /\ reqs' = reqs /\ UNCHANGED modVars
        /\ Post(up, Taken(down, r), r, <<>>, ans)
        /\ cache' = [cache EXCEPT ![r] = f]
        /\ e = "ok" => aborted' = aborted /\ discarded' = discarded
        /\ e # "ok" => Free(g, {b}) /\ discarded' = discarded \cup ({b} \cap g.valid)
    BY DEF LoadResponse, Become, Forgets, Ends
  <1>7. k \in Cache /\ Counted(k, r)
    BY <1>2, <1>3 DEF TypeOK
  <1>8. Loaded(k, r, b, e, f) /\ g.storing = k.storing /\ g.valid = k.valid
    <2>1. g = Forgets(k, b) /\ f = Ends(g, b, e)
      OBVIOUS
    <2>2. b \in Blob
      BY <1>2
    <2> HIDE DEF g, f, e, k, b
    <2> QED BY <1>7, <2>1, <2>2, LoadedIs
  <1>9. /\ aborted' \in BOOLEAN /\ backing' \in BOOLEAN
        /\ ~aborted' => e = "ok" \/ b \notin k.storing
    <2>1. g.storing = k.storing
      BY <1>8
    <2> HIDE DEF g, e, f, ans
    <2>2. CASE e = "ok"
      BY <1>2, <1>6, <2>2 DEF TypeOK
    <2>3. CASE e # "ok"
      <3>1. aborted' = (\/ {b} \cap (g.loading \cup g.storing) # {}
                        \/ (Node \X {b}) \cap (g.loadReq \cup g.storeReq) # {})
        BY <1>6, <2>3 DEF Free
      <3>2. aborted' \in BOOLEAN
        BY SMTT(60), <3>1
      <3>3. ASSUME ~aborted' PROVE b \notin k.storing
        <4>1. {b} \cap (g.loading \cup g.storing) = {}
          BY <3>1, <3>3
        <4> QED BY <2>1, <4>1
      <3> QED BY <1>2, <1>6, <3>2, <3>3 DEF TypeOK
    <2> QED BY <2>2, <2>3
  <1>10. AnswersTo(W, t, ans) /\ \A p, c : Fits(t, p, c) <=> "load" = p /\ b = c
    <2>1. e \in Errnum
      BY <1>2, ResponseIs DEF Errnum
    <2> HIDE DEF e
    <2>2. t \in Response
      BY <1>2, <2>1, RspIs
    <2>3. \A p, c : Fits(t, p, c) <=> "load" = p /\ b = c
      BY SMTT(60), RspFits
    <2>4. ans = Answers(W, t)
      OBVIOUS
    <2> HIDE DEF t, ans, W
    <2> QED BY <2>2, <2>3, <2>4, AnswersIs
  <1>11. t.b = b /\ t.err = e /\ \A c \in Blob : t # Rsp("store", c, "ok")
    BY SMTT(60) DEF Rsp
  <1>12. \A x \in Node : x \in W <=> <<x, b>> \in k.loadReq
    BY DEF Waiters
  <1> HIDE DEF g, f, e, W, t, ans
  <1>13. /\ f \in Cache /\ f.loading = k.loading \ {b} /\ f.loadReq = k.loadReq \ (Node \X {b})
         /\ f.storing = k.storing /\ f.storeReq = k.storeReq /\ f.flushReq = k.flushReq
         /\ f.valid = IF e = "ok" THEN k.valid \cup {b} ELSE k.valid \ {b}
         /\ f.dirty = IF e = "ok" THEN k.dirty ELSE k.dirty \ {b}
         /\ ~aborted' => Counted(f, r)
    BY <1>9, <1>8 DEF Loaded
  <1>14. /\ ans \in [Node -> Seq(Response)]
         /\ \A x \in Node : \A p, c : Count(ans[x], p, c) = Bit(x \in W /\ Fits(t, p, c))
         /\ \A x \in Node : \A c \in Oks(ans[x]) : x \in W /\ c = b /\ e = "ok"
         /\ \A x \in Node : \A c \in Acks(ans[x]) : t = Rsp("store", c, "ok")
         /\ \A x \in Node : ans[x] = IF x \in W THEN <<t>> ELSE <<>>
    BY <1>10, <1>11 DEF AnswersTo
  <1>15. \A x \in Node : Acks(ans[x]) = {}
    BY <1>11, <1>14 DEF Acks
  <1>16. <<>> \in Seq(Request)
    BY SMTT(60)
  <1>17. Flow(r, m, r, <<>>, ans) /\ Passed(r, r, ans)
    BY <1>2, <1>6, <1>14, <1>16, HearFlow
  <1>18. Handled(r, m, r, f, <<>>, ans)
    BY <1>2, <1>6, <1>13, <1>14, <1>16, <1>17, PostHandled
  <1>19. Routed(k, r)
    BY <1>3 DEF Routes, Routed
  <1>20. Routed(f, r)
    BY <1>13, <1>19 DEF Routed
  <1>21. \A x \in W : x \in Node => Child(x, r) /\ x # Module /\ x # r
    <2>1. ASSUME NEW x \in W, x \in Node PROVE Child(x, r) /\ x # Module /\ x # r
      <3>1. <<x, b>> \in k.loadReq
        BY <1>12, <2>1
      <3>2. Child(x, r)
        BY <1>2, <1>19, <2>1, <3>1 DEF Routed
      <3>3. x = Module => r = 0
        BY <3>2, NodesAre
      <3>4. x # Module
        BY <1>2, <1>3, <3>1, <3>3 DEF Living
      <3> QED BY <3>2, <3>4, NodesAre
    <2> QED BY <2>1
  <1>22. Balanced(r, m, r, f, <<>>, ans)
    <2> HIDE DEF m, b, k
    <2>1. ASSUME NEW p \in {"load", "store"}, NEW c \in Blob
          PROVE  Count(<<>>, p, c) + Count(ans[r], p, c) + Pending(k, p, c)
                   = Pending(f, p, c) + Bit(r = r /\ Fits(m, p, c))
      <3>1. Count(<<>>, p, c) = 0
        BY NoneCounted
      <3>2. Count(ans[r], p, c) = 0
        <4>1. r \in Node /\ r \notin W
          BY <1>21, NodesAre
        <4>2. ans[r] = <<>>
          BY <1>14, <4>1
        <4> QED BY <3>1, <4>2
      <3>3. Pending(k, p, c) = Pending(f, p, c) + Bit(r = r /\ Fits(m, p, c))
        <4>1. CASE "load" = p /\ b = c
          <5>1. Pending(k, p, c) = 1
            BY <1>4, <4>1 DEF Pending, Bit, k, b
          <5>2. Pending(f, p, c) = 0
            BY <1>13, <4>1 DEF Pending, Bit, k, b
          <5>3. Bit(r = r /\ Fits(m, p, c)) = 1
            BY <1>2, <4>1 DEF Bit, m, b
          <5> QED BY SMTT(60), <5>1, <5>2, <5>3
        <4>2. CASE ~("load" = p /\ b = c)
          <5>1. Pending(k, p, c) = Pending(f, p, c)
            <6>1. p = "load" => (c \in f.loading <=> c \in k.loading)
              BY <1>13, <4>2 DEF k, b
            <6> QED BY <1>13, <6>1 DEF Pending, k
          <5>2. Bit(r = r /\ Fits(m, p, c)) = 0
            BY <1>2, <4>2 DEF Bit, m, b
          <5>3. Pending(f, p, c) \in Nat
            BY DEF Pending, Bit
          <5> QED BY SMTT(60), <5>1, <5>2, <5>3
        <4> QED BY <4>1, <4>2
      <3>4. Pending(k, p, c) \in Nat
        BY DEF Pending, Bit
      <3> QED BY SMTT(60), <3>1, <3>2, <3>3, <3>4
    <2>2. ASSUME NEW p \in {"load", "store"}, NEW c \in Blob, NEW x \in Rank \ {r}
          PROVE  IF Child(x, r)
                 THEN Count(ans[x], p, c) + Waits(f, x, p, c)
                        = Waits(k, x, p, c) + Bit(r = x /\ Fits(m, p, c))
                 ELSE Count(ans[x], p, c) = 0
      <3>1. x \in Node
        BY NodesAre
      <3>2. Count(ans[x], p, c) = Bit(x \in W /\ Fits(t, p, c))
        BY <1>14, <3>1
      <3>3. Bit(r = x /\ Fits(m, p, c)) = 0
        BY <2>2 DEF Bit
      <3>4. ~Child(x, r) => Count(ans[x], p, c) = 0
        BY <1>21, <3>1, <3>2 DEF Bit
      <3>5. Count(ans[x], p, c) + Waits(f, x, p, c) = Waits(k, x, p, c)
        <4>1. CASE "load" = p /\ b = c
          <5>1. <<x, c>> \in Node \X {b}
            BY <3>1, <4>1
          <5>2. <<x, c>> \notin f.loadReq
            BY <1>13, <5>1 DEF b, k
          <5>3. Waits(f, x, p, c) = 0
            BY <4>1, <5>2 DEF Waits, Bit
          <5>4. Bit(x \in W /\ Fits(t, p, c)) = Waits(k, x, p, c)
            <6>1. Fits(t, p, c)
              BY <1>10, <4>1 DEF b
            <6>2. x \in W <=> <<x, c>> \in k.loadReq
              BY <1>12, <3>1, <4>1 DEF b, k
            <6> QED BY <4>1, <6>1, <6>2 DEF Waits, Bit
          <5>5. Waits(k, x, p, c) \in Nat
            BY DEF Waits, Bit
          <5> QED BY SMTT(60), <3>2, <5>3, <5>4, <5>5
        <4>2. CASE ~("load" = p /\ b = c)
          <5>1. Bit(x \in W /\ Fits(t, p, c)) = 0
            BY <1>10, <4>2 DEF Bit, b
          <5>2. p = "load" => (<<x, c>> \in f.loadReq <=> <<x, c>> \in k.loadReq)
            <6>1. p = "load" => c # b
              BY <4>2
            <6>2. c # b => <<x, c>> \notin Node \X {b}
              OBVIOUS
            <6> QED BY <1>13, <6>1, <6>2 DEF k, b
          <5>3. f.storeReq = k.storeReq
            BY <1>13 DEF k
          <5>4. Waits(f, x, p, c) = Waits(k, x, p, c)
            BY <5>2, <5>3 DEF Waits, Bit
          <5>5. Waits(k, x, p, c) \in Nat
            BY DEF Waits, Bit
          <5> QED BY SMTT(60), <3>2, <5>1, <5>4, <5>5
        <4> QED BY <4>1, <4>2
      <3>6. Waits(k, x, p, c) \in Nat
        BY DEF Waits, Bit
      <3>7. Waits(k, x, p, c) = Waits(k, x, p, c) + Bit(r = x /\ Fits(m, p, c))
        BY SMTT(60), <3>3, <3>6
      <3> QED BY <3>4, <3>5, <3>7
    <2> QED BY <2>1, <2>2 DEF Balanced, k
  <1>23. /\ TypeOK' /\ Routes' /\ (~aborted' => \A i \in Rank : Counted(cache'[i], i)) /\ Singles'
    <2>1. discarded' \subseteq Blob
      BY <1>2, <1>6 DEF TypeOK
    <2> QED BY <1>2, <1>3, <1>9, <1>13, <1>18, <1>20, <1>22, <2>1, HandlerIs
  <1>24. up'[Module] = up[Module]
    BY <1>17, NodesAre DEF Passed
  <1>25. Living'
    <2>1. ans[Module] = <<>> /\ Oks(ans[0]) = {}
      BY <1>14, <1>21, NodesAre
    <2>2. r = 0 => /\ \A c \in Blob : <<Module, c>> \notin f.loadReq
                   /\ f.storeReq = {} /\ Module \notin f.flushReq /\ f.dirty \cap Huge = {}
      <3>1. CASE r = 0
        <4>1. /\ \A c \in Blob : <<Module, c>> \notin k.loadReq
              /\ k.storeReq = {} /\ Module \notin k.flushReq /\ k.dirty \cap Huge = {}
          BY <1>3, <3>1 DEF Living
        <4> QED BY <1>13, <4>1
      <3> QED BY <3>1
    <2> QED BY <1>2, <1>3, <1>6, <1>18, <1>24, <2>1, <2>2, LivingHandled
  <1>26. ASSUME Keeping PROVE Keeping'
    <2>1. Serves(r, f, ans)
      <3>1. ASSUME NEW x \in Node, NEW c \in Oks(ans[x]) PROVE Child(x, r) /\ c \in f.valid
        BY <1>13, <1>14, <1>21
      <3> QED BY <1>15, <3>1 DEF Serves
    <2>2. k.dirty \subseteq k.valid
      BY <1>7 DEF Counted
    <2> HIDE DEF m, b, k
    <2>3. k.valid \ f.valid \subseteq discarded' /\ discarded \subseteq discarded'
      BY <1>6, <1>8, <1>13
    <2>4. \A c \in k.dirty \ f.dirty : c \in discarded'
      BY <1>6, <1>8, <1>13, <2>2
    <2>5. \A c \in Clean(f) : c \in Clean(k) \/ (c = b /\ m.err = "ok")
      BY <1>5, <1>13 DEF Clean
    <2> QED BY <1>2, <1>3, <1>18, <1>24, <1>26, <2>1, <2>3, <2>4, <2>5, AnswerKeeps DEF m, b, k
  <1>27. FlushOk
    <2>1. ASSUME NEW c \in Client PROVE Count(ans[c], "flush", NoBlob) = 0
      <3>1. Count(ans[c], "flush", NoBlob) = Bit(c \in W /\ Fits(t, "flush", NoBlob))
        BY <1>14, NodesAre
      <3>2. ~Fits(t, "flush", NoBlob)
        BY SMTT(60), <1>10
      <3> QED BY <3>1, <3>2 DEF Bit
    <2> QED BY <1>2, <1>14, <1>17, <2>1, NotFlush
  <1> QED BY <1>23, <1>25, <1>26, <1>27, InvIs

(* The cache that cache_store_continuation() leaves when it sends requests *)
(* for the blobs of L, and the answers it gives.                           *)
Settles(k, r, b, e, L, f) ==
    /\ f \in Cache /\ Counted(f, r) /\ f.valid = k.valid /\ f.loading = k.loading
    /\ f.dirty = IF e = "ok" THEN k.dirty \ {b} ELSE k.dirty
    /\ f.storing = (k.storing \ {b}) \cup L /\ L \cap (k.storing \ {b}) = {}
    /\ f.loadReq = k.loadReq /\ f.storeReq = k.storeReq \ (Node \X {b})
    /\ f.flushReq \subseteq k.flushReq
Speaks(k, b, e, ans) ==
    /\ ans \in [Node -> Seq(Response)]
    /\ \A x \in Node : \A p \in {"load", "store"} : \A c :
         Count(ans[x], p, c) = Bit(<<x, b>> \in k.storeReq /\ "store" = p /\ b = c)
    /\ \A x \in Node : \A c \in Oks(ans[x]) : c = b /\ e = "ok" /\ <<x, b>> \in k.storeReq
    /\ \A x \in Node : <<x, b>> \notin k.storeReq /\ x \notin k.flushReq => ans[x] = <<>>
Requests(rq, L) ==
    /\ rq \in Seq(Request)
    /\ \A op, c : Count(rq, op, c) = Bit(op = "store" /\ c \in L)

(* cache_store_continuation() preserves the invariant, whatever it sends. *)
LEMMA StoreSettled ==
    ASSUME Laws, Inv, NEW r \in Rank, Answer(r, "store"), NEW b, b = Head(down[r]).b,
           NEW e, e = Head(down[r]).err, NEW k, k = cache[r], b \in k.storing,
           NEW L, NEW f, Settles(k, r, b, e, L, f), NEW rq, Requests(rq, L),
           NEW ans, Speaks(k, b, e, ans), Post(up, Taken(down, r), r, rq, ans),
           cache' = [cache EXCEPT ![r] = f], Rest
    PROVE  Inv' /\ (Keeping => Keeping') /\ Passed(r, r, ans)
  <1> DEFINE m == Head(down[r])
  <1>1. /\ TypeOK /\ ~aborted /\ Sound /\ down[r] # <<>>
        /\ m \in Response /\ m.op = "store" /\ b \in Blob /\ k \in Cache
        /\ \A p, c : Fits(m, p, c) <=> "store" = p /\ b = c
    BY DEF Answer, TypeOK
  <1>2. /\ Routes /\ Singles /\ Living /\ \A i \in Rank : Counted(cache[i], i)
    BY <1>1 DEF Sound
  <1>3. /\ backing' = backing /\ reqs' = reqs /\ UNCHANGED modVars /\ aborted' = aborted
        /\ backing \in BOOLEAN /\ aborted \in BOOLEAN
        /\ discarded' = discarded /\ discarded \subseteq Blob
    BY <1>1 DEF Rest, TypeOK
  <1>4. /\ f \in Cache /\ Counted(f, r) /\ f.valid = k.valid /\ f.loading = k.loading
        /\ f.dirty = IF e = "ok" THEN k.dirty \ {b} ELSE k.dirty
        /\ f.storing = (k.storing \ {b}) \cup L /\ L \cap (k.storing \ {b}) = {}
        /\ f.loadReq = k.loadReq /\ f.storeReq = k.storeReq \ (Node \X {b})
        /\ f.flushReq \subseteq k.flushReq
    BY DEF Settles
  <1>5. /\ ans \in [Node -> Seq(Response)]
        /\ \A x \in Node : \A p \in {"load", "store"} : \A c :
             Count(ans[x], p, c) = Bit(<<x, b>> \in k.storeReq /\ "store" = p /\ b = c)
        /\ \A x \in Node : \A c \in Oks(ans[x]) : c = b /\ e = "ok" /\ <<x, b>> \in k.storeReq
        /\ \A x \in Node : <<x, b>> \notin k.storeReq /\ x \notin k.flushReq => ans[x] = <<>>
    BY DEF Speaks
  <1>6. /\ rq \in Seq(Request)
        /\ \A p, c : Count(rq, p, c) = Bit(p = "store" /\ c \in L)
    BY DEF Requests
  <1>7. Flow(r, m, r, rq, ans) /\ Passed(r, r, ans)
    BY <1>1, <1>5, <1>6, HearFlow
  <1>8. Handled(r, m, r, f, rq, ans)
    BY <1>1, <1>3, <1>4, <1>5, <1>6, <1>7, PostHandled
  <1>9. Routed(k, r)
    BY <1>2 DEF Routes, Routed
  <1>10. Routed(f, r)
    BY <1>4, <1>9 DEF Routed
  <1>11. ASSUME NEW x \in Node, <<x, b>> \in k.storeReq PROVE Child(x, r) /\ x # r /\ x # 0
    <2>1. Child(x, r)
      BY <1>1, <1>9, <1>11 DEF Routed
    <2> QED BY <2>1, NodesAre
  <1>12. Balanced(r, m, r, f, rq, ans)
    <2>1. ASSUME NEW p \in {"load", "store"}, NEW c \in Blob
          PROVE  Count(rq, p, c) + Count(ans[r], p, c) + Pending(k, p, c)
                   = Pending(f, p, c) + Bit(r = r /\ Fits(m, p, c))
      <3>1. Count(rq, p, c) = Bit(p = "store" /\ c \in L)
        BY <1>6
      <3>2. Count(ans[r], p, c) = 0
        <4>1. r \in Node /\ <<r, b>> \notin k.storeReq
          BY <1>11, NodesAre
        <4>2. Count(ans[r], p, c) = Bit(<<r, b>> \in k.storeReq /\ "store" = p /\ b = c)
          BY <1>5, <4>1
        <4> QED BY <4>1, <4>2 DEF Bit
      <3>3. Bit(r = r /\ Fits(m, p, c)) = Bit(p = "store" /\ b = c)
        <4>1. Fits(m, p, c) <=> p = "store" /\ b = c
          BY <1>1
        <4> HIDE DEF m
        <4> QED BY <4>1 DEF Bit
      <3>4. CASE p = "store"
        <4>1. /\ Bit(p = "store" /\ c \in L) = Bit(c \in L)
              /\ Bit(p = "store" /\ b = c) = Bit(b = c)
              /\ Pending(k, p, c) = Bit(c \in k.storing)
              /\ Pending(f, p, c) = Bit(c \in f.storing)
          BY <3>4 DEF Pending, Bit
        <4>2. /\ c \in f.storing <=> (c \in k.storing /\ b # c) \/ c \in L
              /\ c \in L /\ c \in k.storing => b = c
              /\ b = c => c \in k.storing
          BY <1>4
        <4>3. Bit(c \in L) + Bit(c \in k.storing) = Bit(c \in f.storing) + Bit(b = c)
          BY SMTT(60), <4>2 DEF Bit
        <4>4. Count(rq, p, c) = Bit(c \in L) /\ Bit(r = r /\ Fits(m, p, c)) = Bit(b = c)
          BY <3>1, <3>3, <4>1
        <4>5. Bit(c \in L) \in Nat /\ Bit(c \in k.storing) \in Nat
          BY DEF Bit
        <4> QED BY SMTT(60), <3>2, <4>1, <4>3, <4>4, <4>5
      <3>5. CASE p # "store"
        <4>1. Bit(p = "store" /\ c \in L) = 0 /\ Bit(p = "store" /\ b = c) = 0
          BY <3>5 DEF Bit
        <4>2. Pending(k, p, c) = Pending(f, p, c)
          BY <1>4, <3>5 DEF Pending
        <4>3. Count(rq, p, c) = 0 /\ Bit(r = r /\ Fits(m, p, c)) = 0
          BY <3>1, <3>3, <4>1
        <4>4. Pending(f, p, c) \in Nat
          BY DEF Pending, Bit
        <4> QED BY SMTT(60), <3>2, <4>2, <4>3, <4>4
      <3> QED BY <3>4, <3>5
    <2>2. ASSUME NEW p \in {"load", "store"}, NEW c \in Blob, NEW x \in Rank \ {r}
          PROVE  IF Child(x, r)
                 THEN Count(ans[x], p, c) + Waits(f, x, p, c)
                        = Waits(k, x, p, c) + Bit(r = x /\ Fits(m, p, c))
                 ELSE Count(ans[x], p, c) = 0
      <3>1. x \in Node
        BY NodesAre
      <3>2. Count(ans[x], p, c) = Bit(<<x, b>> \in k.storeReq /\ "store" = p /\ b = c)
        BY <1>5, <3>1
      <3>3. Bit(r = x /\ Fits(m, p, c)) = 0
        BY <2>2 DEF Bit
      <3>4. ~Child(x, r) => Count(ans[x], p, c) = 0
        BY <1>11, <3>1, <3>2 DEF Bit
      <3>5. Count(ans[x], p, c) + Waits(f, x, p, c) = Waits(k, x, p, c)
        <4>1. CASE "store" = p /\ b = c
          <5>1. <<x, c>> \in Node \X {b}
            BY <3>1, <4>1
          <5>2. <<x, c>> \notin f.storeReq
            BY <1>4, <5>1
          <5>3. Waits(f, x, p, c) = 0
            BY <4>1, <5>2 DEF Waits, Bit
          <5>4. Bit(<<x, b>> \in k.storeReq /\ "store" = p /\ b = c) = Waits(k, x, p, c)
            BY <4>1 DEF Waits, Bit
          <5>5. Waits(k, x, p, c) \in Nat
            BY DEF Waits, Bit
          <5>6. Count(ans[x], p, c) = Waits(k, x, p, c)
            BY <3>2, <5>4
          <5> QED BY SMTT(60), <5>3, <5>5, <5>6
        <4>2. CASE ~("store" = p /\ b = c)
          <5>1. Bit(<<x, b>> \in k.storeReq /\ "store" = p /\ b = c) = 0
            BY <4>2 DEF Bit
          <5>2. p = "store" => (<<x, c>> \in f.storeReq <=> <<x, c>> \in k.storeReq)
            <6>1. p = "store" => c # b
              BY <4>2
            <6>2. c # b => <<x, c>> \notin Node \X {b}
              OBVIOUS
            <6> QED BY <1>4, <6>1, <6>2
          <5>3. f.loadReq = k.loadReq
            BY <1>4
          <5>4. Waits(f, x, p, c) = Waits(k, x, p, c)
            BY <5>2, <5>3 DEF Waits, Bit
          <5>5. Waits(k, x, p, c) \in Nat
            BY DEF Waits, Bit
          <5>6. Count(ans[x], p, c) = 0
            BY <3>2, <5>1
          <5> QED BY SMTT(60), <5>4, <5>5, <5>6
        <4> QED BY <4>1, <4>2
      <3>6. Waits(k, x, p, c) \in Nat
        BY DEF Waits, Bit
      <3>7. Waits(k, x, p, c) = Waits(k, x, p, c) + Bit(r = x /\ Fits(m, p, c))
        BY SMTT(60), <3>3, <3>6
      <3> QED BY <3>4, <3>5, <3>7
    <2> QED BY <2>1, <2>2 DEF Balanced
  <1>13. /\ TypeOK' /\ Routes' /\ (\A i \in Rank : Counted(cache'[i], i)) /\ Singles'
    BY <1>1, <1>2, <1>3, <1>4, <1>8, <1>10, <1>12, HandlerIs
  <1>14. up'[Module] = up[Module]
    <2>1. r \in Node /\ r # Module
      BY NodesAre
    <2> QED BY <1>7, <2>1, PassedIs
  <1>15. Living'
    <2>1. Oks(ans[0]) = {}
      BY <1>5, <1>11, NodesAre DEF Oks
    <2>2. ans[Module] = <<>>
      <3>1. CASE r = 0
        <4>1. k.storeReq = {} /\ Module \notin k.flushReq
          BY <1>2, <3>1 DEF Living
        <4> QED BY <1>5, <4>1, NodesAre
      <3>2. CASE r # 0
        <4>1. ~Child(Module, r)
          BY <3>2, NodesAre
        <4>2. <<Module, b>> \notin k.storeReq /\ Module \notin k.flushReq
          BY <1>9, <1>11, <4>1, NodesAre DEF Routed
        <4> QED BY <1>5, <4>2, NodesAre
      <3> QED BY <3>1, <3>2
    <2>3. r = 0 => /\ \A c \in Blob : <<Module, c>> \notin f.loadReq
                   /\ f.storeReq = {} /\ Module \notin f.flushReq /\ f.dirty \cap Huge = {}
      <3>1. CASE r = 0
        <4>1. /\ \A c \in Blob : <<Module, c>> \notin k.loadReq
              /\ k.storeReq = {} /\ Module \notin k.flushReq /\ k.dirty \cap Huge = {}
          BY <1>2, <3>1 DEF Living
        <4>2. f.dirty \subseteq k.dirty
          BY <1>4
        <4> QED BY <1>4, <4>1, <4>2
      <3> QED BY <3>1
    <2> QED BY <1>1, <1>2, <1>3, <1>8, <1>14, <2>1, <2>2, <2>3, LivingHandled
  <1>16. Inv'
    BY <1>13, <1>15, InvIs
  <1>17. ASSUME Keeping PROVE Keeping'
    <2>1. b \in f.valid
      BY <1>2, <1>4 DEF Counted
    <2>2. Serves(r, f, ans)
      <3>1. ASSUME NEW x \in Node, NEW c \in Oks(ans[x])
            PROVE  Child(x, r) /\ c \in f.valid /\ c \in Clean(f)
        BY <1>4, <1>5, <1>11, <2>1 DEF Clean
      <3>2. ASSUME NEW x \in Node, NEW c \in Acks(ans[x]) PROVE c \in f.valid /\ c \in Clean(f)
        BY <3>1, AcksOks
      <3> QED BY <3>1, <3>2 DEF Serves
    <2>3. \A c \in k.dirty \ f.dirty : c = b /\ e = "ok"
      BY <1>4
    <2>4. \A c \in Clean(f) : c \in Clean(k) \/ (c = b /\ e = "ok")
      BY <1>4 DEF Clean
    <2>5. k.valid \ f.valid \subseteq discarded' /\ discarded \subseteq discarded'
      BY <1>3, <1>4
    <2> QED BY <1>1, <1>2, <1>8, <1>14, <1>17, <2>2, <2>3, <2>4, <2>5, AnswerKeeps
  <1> QED BY <1>7, <1>16, <1>17

(* A flush that was waiting is answered, after the stores. *)
Flushes(W, F, t, stored, flushed, ans) ==
    /\ AnswersTo(W, t, stored)
    /\ \/ ans = stored
       \/ \E d \in Errnum : /\ AnswersTo(F, Rsp("flush", NoBlob, d), flushed)
                            /\ BothTo(stored, flushed, ans)

(* Those are the answers of cache_store_continuation(). *)
LEMMA SpeaksIs ==
    ASSUME Laws, NEW k \in Cache, NEW b \in Blob, NEW e \in Errnum, NEW stored, NEW flushed, NEW ans,
           Flushes(Waiters(k.storeReq, b), k.flushReq, Rsp("store", b, e), stored, flushed, ans)
    PROVE  Speaks(k, b, e, ans)
  <1> DEFINE W == Waiters(k.storeReq, b)
             t == Rsp("store", b, e)
  <1>1. \A x \in Node : x \in W <=> <<x, b>> \in k.storeReq
    BY DEF Waiters
  <1>2. /\ \A p, c : Fits(t, p, c) <=> "store" = p /\ b = c
        /\ t.b = b /\ t.err = e
        /\ \A d : Rsp("flush", NoBlob, d).b = NoBlob
        /\ \A d, p, c : Fits(Rsp("flush", NoBlob, d), p, c) <=> "flush" = p /\ NoBlob = c
    BY SMTT(60), RspFits DEF Rsp
  <1>3. /\ AnswersTo(W, t, stored)
        /\ \/ ans = stored
           \/ \E d \in Errnum : /\ AnswersTo(k.flushReq, Rsp("flush", NoBlob, d), flushed)
                                /\ BothTo(stored, flushed, ans)
    BY DEF Flushes
  <1> HIDE DEF W, t
  <1>4. /\ stored \in [Node -> Seq(Response)]
        /\ \A x \in Node : \A p, c : Count(stored[x], p, c) = Bit(x \in W /\ Fits(t, p, c))
        /\ \A x \in Node : \A c \in Oks(stored[x]) : x \in W /\ t.b = c /\ t.err = "ok"
        /\ \A x \in Node : stored[x] = IF x \in W THEN <<t>> ELSE <<>>
    BY <1>3 DEF AnswersTo
  <1>5. ASSUME NEW x \in Node, NEW p, NEW c
        PROVE  Count(stored[x], p, c) = Bit(<<x, b>> \in k.storeReq /\ "store" = p /\ b = c)
    <2>1. Count(stored[x], p, c) = Bit(x \in W /\ Fits(t, p, c))
      BY <1>4
    <2>2. x \in W /\ Fits(t, p, c) <=> <<x, b>> \in k.storeReq /\ "store" = p /\ b = c
      <3>1. Fits(t, p, c) <=> "store" = p /\ b = c
        BY <1>2
      <3>2. x \in W <=> <<x, b>> \in k.storeReq
        BY <1>1
      <3> QED BY <3>1, <3>2
    <2>3. Bit(x \in W /\ Fits(t, p, c)) = Bit(<<x, b>> \in k.storeReq /\ "store" = p /\ b = c)
      BY <2>2 DEF Bit
    <2> QED BY <2>1, <2>3
  <1>6. \A x \in Node : \A c \in Oks(stored[x]) : c = b /\ e = "ok" /\ <<x, b>> \in k.storeReq
    BY <1>1, <1>2, <1>4
  <1>7. \A x \in Node : <<x, b>> \notin k.storeReq => stored[x] = <<>>
    BY <1>1, <1>4
  <1>8. CASE ans = stored
    <2>1. \A x \in Node : \A p \in {"load", "store"} : \A c :
            Count(ans[x], p, c) = Bit(<<x, b>> \in k.storeReq /\ "store" = p /\ b = c)
      <3>1. ASSUME NEW x \in Node, NEW p \in {"load", "store"}, NEW c
            PROVE  Count(ans[x], p, c) = Bit(<<x, b>> \in k.storeReq /\ "store" = p /\ b = c)
        <4>1. Count(stored[x], p, c) = Bit(<<x, b>> \in k.storeReq /\ "store" = p /\ b = c)
          BY SMTT(60), <1>5 DEF Bit
        <4> QED BY <1>8, <4>1
      <3> QED BY <3>1
    <2> QED BY <1>4, <1>6, <1>7, <1>8, <2>1 DEF Speaks
  <1>9. CASE \E d \in Errnum : /\ AnswersTo(k.flushReq, Rsp("flush", NoBlob, d), flushed)
                               /\ BothTo(stored, flushed, ans)
    <2>1. PICK d \in Errnum : /\ AnswersTo(k.flushReq, Rsp("flush", NoBlob, d), flushed)
                              /\ BothTo(stored, flushed, ans)
      BY <1>9
    <2> DEFINE u == Rsp("flush", NoBlob, d)
    <2>2. /\ \A p, c : Fits(u, p, c) <=> "flush" = p /\ NoBlob = c
          /\ u.b \notin Blob
          /\ AnswersTo(k.flushReq, u, flushed)
      BY <1>2, <2>1, BlobAssumption
    <2> HIDE DEF u
    <2>3. /\ \A x \in Node : \A p, c : Count(flushed[x], p, c) = Bit(x \in k.flushReq /\ Fits(u, p, c))
          /\ \A x \in Node : \A c \in Oks(flushed[x]) : u.b = c
          /\ \A x \in Node : flushed[x] = IF x \in k.flushReq THEN <<u>> ELSE <<>>
      BY <2>2 DEF AnswersTo
    <2>4. /\ ans \in [Node -> Seq(Response)]
          /\ \A x \in Node : \A p, c :
               Count(ans[x], p, c) = Count(stored[x], p, c) + Count(flushed[x], p, c)
          /\ \A x \in Node : Oks(ans[x]) = Oks(stored[x]) \cup Oks(flushed[x])
          /\ \A x \in Node : ans[x] = stored[x] \o flushed[x]
      BY <2>1 DEF BothTo
    <2>5. ASSUME NEW x \in Node, NEW p \in {"load", "store"}, NEW c
          PROVE  Count(ans[x], p, c) = Bit(<<x, b>> \in k.storeReq /\ "store" = p /\ b = c)
      <3>1. Count(flushed[x], p, c) = 0
        <4>1. Count(flushed[x], p, c) = Bit(x \in k.flushReq /\ Fits(u, p, c))
          BY <2>3
        <4>2. ~Fits(u, p, c)
          BY <2>2, <2>5
        <4> QED BY <4>1, <4>2 DEF Bit
      <3>2. Count(ans[x], p, c) = Count(stored[x], p, c) + Count(flushed[x], p, c)
        BY <2>4
      <3>3. Count(stored[x], p, c) = Bit(<<x, b>> \in k.storeReq /\ "store" = p /\ b = c)
        BY SMTT(60), <1>5 DEF Bit
      <3>4. Bit(<<x, b>> \in k.storeReq /\ "store" = p /\ b = c) \in Nat
        BY DEF Bit
      <3>5. Count(stored[x], p, c) \in Nat
        BY <3>3, <3>4
      <3>6. Count(ans[x], p, c) = Count(stored[x], p, c)
        BY SMTT(60), <3>1, <3>2, <3>5
      <3> QED BY <3>3, <3>6
    <2>6. \A x \in Node : \A c \in Oks(ans[x]) : c = b /\ e = "ok" /\ <<x, b>> \in k.storeReq
      <3>1. ASSUME NEW x \in Node, NEW c \in Oks(ans[x])
            PROVE  c = b /\ e = "ok" /\ <<x, b>> \in k.storeReq
        <4>1. c \notin Oks(flushed[x])
          BY <2>2, <2>3 DEF Oks
        <4>2. c \in Oks(stored[x])
          BY <2>4, <3>1, <4>1
        <4> QED BY <1>6, <4>2
      <3> QED BY <3>1
    <2>7. \A x \in Node : <<x, b>> \notin k.storeReq /\ x \notin k.flushReq => ans[x] = <<>>
      <3>1. <<>> \o <<>> = <<>>
        BY SMTT(60)
      <3> QED BY <1>7, <2>3, <2>4, <3>1
    <2> QED BY <2>4, <2>5, <2>6, <2>7 DEF Speaks
  <1> QED BY <1>3, <1>8, <1>9

(* cache_store_continuation() *)
LEMMA StoreResponseStep ==
    ASSUME Laws, Inv, NEW r \in Rank, StoreResponse(r)
    PROVE  Inv' /\ (Keeping => Keeping' /\ FlushOk)
  <1> DEFINE m == Head(down[r])
             b == m.b
             e == m.err
             k == cache[r]
             h == [Stored(k, b, e) EXCEPT !.storeReq = @ \ (Node \X {b})]
             W == Waiters(k.storeReq, b)
             t == Rsp("store", b, e)
             stored == Answers(W, t)
  <1>1. Hears(r, "store") /\ Rest
    BY DEF StoreResponse
  <1>2. /\ TypeOK /\ ~aborted /\ Sound /\ down[r] # <<>> /\ Answer(r, "store")
        /\ m \in Response /\ m.op = "store" /\ b \in Blob
        /\ \A p, c : Fits(m, p, c) <=> "store" = p /\ b = c
    <2>1. Answer(r, "store")
      BY <1>1, HearIs
    <2> QED BY <2>1 DEF Answer
  <1>3. /\ Routes /\ Singles /\ Living /\ \A i \in Rank : Counted(cache[i], i)
    BY <1>2 DEF Sound
  <1>4. b \in k.storing
    <2>1. Fits(m, "store", b)
      BY <1>2
    <2>2. Pending(k, "store", b) = 1
      BY <1>2, <1>3, <2>1, OneMoves
    <2> QED BY SMTT(60), <2>2 DEF Pending, Bit
  <1>5. k \in Cache /\ Counted(k, r)
    BY <1>2, <1>3 DEF TypeOK
  <1>6. /\ h \in Cache /\ Counted(h, r) /\ h.valid = k.valid
        /\ h.storing = k.storing \ {b} /\ h.loading = k.loading
        /\ h.dirty = IF e = "ok" THEN k.dirty \ {b} ELSE k.dirty
        /\ h.loadReq = k.loadReq /\ h.flushReq = k.flushReq
        /\ h.storeReq = k.storeReq \ (Node \X {b})
    <2>1. h = [Stored(k, b, e) EXCEPT !.storeReq = @ \ (Node \X {b})]
      OBVIOUS
    <2> HIDE DEF h, k, b, e
    <2>2. StoredTo(k, r, b, e, h)
      BY <1>4, <1>5, <2>1, StoredIs
    <2> QED BY <2>2 DEF StoredTo
  <1>7. e \in Errnum /\ t \in Response /\ m = t
    <2>1. e \in Errnum /\ m = t
      BY <1>2, ResponseIs
    <2> QED BY <1>2, <2>1
  <1>8. AnswersTo(W, t, stored)
    <2>1. stored = Answers(W, t)
      OBVIOUS
    <2> HIDE DEF stored, W, t
    <2> QED BY <1>7, <2>1, AnswersIs
  <1> DEFINE d == FlushErr(h, r)
             u == Rsp("flush", NoBlob, d)
             flushed == Answers(h.flushReq, u)
             both == Both(stored, flushed)
             g == [h EXCEPT !.flushReq = {}]
  <1>9. \/ /\ cache' = [cache EXCEPT ![r] = g] /\ Post(up, Taken(down, r), r, <<>>, both)
        \/ \E s : /\ s \in FlushSeqs(h, r) \/ s = <<>>
                  /\ cache' = [cache EXCEPT ![r] = Flushing(h, s)]
                  /\ Post(up, Taken(down, r), r, StoreReqs(s), stored)
    <2> HIDE DEF d, flushed
    <2>1. CASE FlushDone(h, r)
      BY <2>1 DEF StoreResponse, Become, d, flushed
    <2>2. CASE ~FlushDone(h, r)
      <3>1. \E s \in IF Resume(h, r) THEN FlushSeqs(h, r) ELSE {<<>>} :
              /\ cache' = [cache EXCEPT ![r] = Flushing(h, s)]
              /\ Post(up, Taken(down, r), r, StoreReqs(s), stored)
        BY <2>2 DEF StoreResponse, Become
      <3> HIDE DEF h, stored
      <3> QED BY <3>1
    <2> QED BY <2>1, <2>2
  <1>10. CASE cache' = [cache EXCEPT ![r] = g] /\ Post(up, Taken(down, r), r, <<>>, both)
    <2>1. d \in Errnum /\ (d = "ok" => h.acct = 0)
      BY DEF FlushErr, Errnum
    <2>2. u \in Response
      BY <2>1, RspIs
    <2>3. AnswersTo(h.flushReq, u, flushed)
      <3>1. flushed = Answers(h.flushReq, u)
        OBVIOUS
      <3> HIDE DEF flushed, h, u
      <3> QED BY <2>2, <3>1, AnswersIs
    <2>4. BothTo(stored, flushed, both)
      <3>1. both = Both(stored, flushed)
        OBVIOUS
      <3> HIDE DEF both, stored, flushed, W, t, u, h
      <3>2. stored \in [Node -> Seq(Response)] /\ flushed \in [Node -> Seq(Response)]
        BY <1>8, <2>3 DEF AnswersTo
      <3> QED BY <3>1, <3>2, BothIs
    <2>5. /\ g \in Cache /\ g.valid = h.valid /\ g.storing = h.storing /\ g.loading = h.loading
          /\ g.dirty = h.dirty /\ g.loadReq = h.loadReq /\ g.flushReq = {}
          /\ g.storeReq = h.storeReq /\ g.acct = h.acct /\ g.batch = h.batch
      <3> HIDE DEF h
      <3>1. {} \in SUBSET Node
        OBVIOUS
      <3> QED BY <1>6, <3>1 DEF Cache
    <2> HIDE DEF d, flushed, both, g, stored, h
    <2>6. Settles(k, r, b, e, {}, g)
      <3>1. Counted(g, r)
        BY <1>6, <2>5 DEF Counted
      <3> HIDE DEF k, b, e
      <3> QED BY <1>6, <2>5, <3>1 DEF Settles
    <2>7. Speaks(k, b, e, both)
      <3>1. /\ AnswersTo(W, t, stored)
            /\ \E dd \in Errnum : /\ AnswersTo(k.flushReq, Rsp("flush", NoBlob, dd), flushed)
                                 /\ BothTo(stored, flushed, both)
        BY <1>6, <1>8, <2>1, <2>3, <2>4
      <3>2. Flushes(Waiters(k.storeReq, b), k.flushReq, Rsp("store", b, e), stored, flushed, both)
        BY <3>1 DEF Flushes
      <3> HIDE DEF k, b, e
      <3>3. b \in Blob /\ e \in Errnum
        BY <1>2, <1>7 DEF b, e
      <3> QED BY <1>5, <3>2, <3>3, SpeaksIs
    <2>8. Requests(<<>>, {})
      <3>1. <<>> \in Seq(Request)
        BY SMTT(60)
      <3>2. ASSUME NEW op, NEW c PROVE Count(<<>>, op, c) = Bit(op = "store" /\ c \in {})
        <4>1. Count(<<>>, op, c) = 0
          BY NoneCounted
        <4> QED BY <4>1 DEF Bit
      <3> QED BY <3>1, <3>2 DEF Requests
    <2>9. Inv' /\ (Keeping => Keeping') /\ Passed(r, r, both)
      <3>1. b = Head(down[r]).b /\ e = Head(down[r]).err /\ k = cache[r]
        OBVIOUS
      <3> HIDE DEF b, e, k
      <3> QED BY <1>1, <1>2, <1>4, <1>10, <2>6, <2>7, <2>8, <3>1, StoreSettled
    <2>10. ASSUME Keeping PROVE FlushOk
      <3>1. ASSUME NEW c \in Client, Parent[c] = 0, down[c] = <<>>,
                   down'[c] = <<Rsp("flush", NoBlob, "ok")>>
            PROVE  acked \subseteq db \cup Climbing \cup discarded
        <4>1. c \in Node /\ c # r
          BY NodesAre
        <4>2. both[c] = <<Rsp("flush", NoBlob, "ok")>>
          <5>1. down'[c] = <<>> \o both[c]
            BY <2>9, <3>1, <4>1 DEF Passed
          <5>2. both[c] \in Seq(Response)
            BY <2>4, <4>1 DEF BothTo
          <5>3. <<>> \o both[c] = both[c]
            BY SMTT(60), <5>2
          <5> QED BY <3>1, <5>1, <5>3
        <4>3. both[c] = stored[c] \o flushed[c] /\ stored[c] \in Seq(Response)
              /\ flushed[c] \in Seq(Response)
          BY <1>8, <2>3, <2>4, <4>1 DEF BothTo, AnswersTo
        <4>4. Joins(both[c], stored[c], flushed[c])
          <5>1. Joins(stored[c] \o flushed[c], stored[c], flushed[c])
            BY <4>3, ConcatIs
          <5> QED BY <4>3, <5>1
        <4>5. \A x : 1 \in DOMAIN <<x>> /\ \A i \in DOMAIN <<x>> : <<x>>[i] = x
          BY SMTT(60)
        <4>6. DOMAIN <<>> = {}
          BY SMTT(60)
        <4>7. /\ \A j \in DOMAIN stored[c] : stored[c][j] = Rsp("flush", NoBlob, "ok")
              /\ \A j \in DOMAIN flushed[c] : flushed[c][j] = Rsp("flush", NoBlob, "ok")
          <5> DEFINE z == Rsp("flush", NoBlob, "ok")
          <5>1. both[c] = <<z>>
            BY <4>2
          <5> HIDE DEF z
          <5>2. \A i \in DOMAIN both[c] : both[c][i] = z
            BY <4>5, <5>1
          <5>3. \A j \in DOMAIN stored[c] : stored[c][j] = z
            BY <4>4, <5>2 DEF Joins
          <5>4. \A j \in DOMAIN flushed[c] : flushed[c][j] = z
            BY <4>4, <5>2 DEF Joins
          <5> QED BY <5>3, <5>4 DEF z
        <4>8. c \in h.flushReq /\ u = Rsp("flush", NoBlob, "ok")
          <5>1. c \in W => t = Rsp("flush", NoBlob, "ok")
            <6>1. c \in W => stored[c] = <<t>>
              BY <1>8, <4>1 DEF AnswersTo
            <6> HIDE DEF t, W, u
            <6>2. 1 \in DOMAIN <<t>> /\ <<t>>[1] = t
              BY <4>5
            <6>3. ASSUME c \in W PROVE t = Rsp("flush", NoBlob, "ok")
              <7>1. 1 \in DOMAIN stored[c] /\ stored[c][1] = t
                BY <6>1, <6>2, <6>3
              <7> QED BY <4>7, <7>1
            <6> QED BY <6>3
          <5>2. t # Rsp("flush", NoBlob, "ok")
            BY SMTT(60) DEF Rsp
          <5>3. stored[c] = <<>>
            BY <1>8, <4>1, <5>1, <5>2 DEF AnswersTo
          <5>4. c \in h.flushReq
            <6>1. c \notin h.flushReq => flushed[c] = <<>>
              BY <2>3, <4>1 DEF AnswersTo
            <6> HIDE DEF t, W, u
            <6> QED BY <4>2, <4>4, <4>5, <4>6, <5>3, <6>1 DEF Joins
          <5>5. flushed[c] = <<u>>
            BY <2>3, <4>1, <5>4 DEF AnswersTo
          <5>6. u = Rsp("flush", NoBlob, "ok")
            <6> HIDE DEF t, W, u
            <6> QED BY <4>5, <4>7, <5>5
          <5> QED BY <5>4, <5>6
        <4>9. d = "ok"
          BY SMTT(60), <4>8 DEF Rsp
        <4>10. r = 0
          <5>1. c \in k.flushReq
            BY <1>6, <4>8
          <5>2. Child(c, r)
            BY <1>3, <5>1 DEF Routes
          <5> QED BY <3>1, <5>2 DEF Child
        <4>11. h.dirty = {}
          <5>1. h.acct = 0 /\ h.dirty \in SUBSET Blob /\ h.acct = Cardinality(h.dirty)
            BY <1>6, <2>1, <4>9 DEF Cache, Counted
          <5> QED BY <5>1 DEF Laws, Sizes
        <4>12. e = "ok" /\ k.dirty \subseteq {b}
          <5>1. b \in k.dirty
            BY <1>4, <1>5 DEF Counted
          <5> HIDE DEF k, b, e
          <5> QED BY <1>6, <4>11, <5>1
        <4>13. b \in db
          BY <1>2, <1>3, <4>10, <4>12, OkIsGood
        <4>14. Backed \subseteq db
          BY <1>2, <1>3, BackedIs
        <4>15. cache[0].valid \subseteq db
          <5>1. Clean(k) \subseteq Backed
            BY <2>10, <4>10 DEF Keeping
          <5>2. \A x \in k.valid : x \in Clean(k) \/ x \in k.dirty
            BY DEF Clean
          <5>3. k.valid \subseteq db
            <6> HIDE DEF k, b
            <6> QED BY <4>12, <4>13, <4>14, <5>1, <5>2
          <5> QED BY <4>10, <5>3
        <4> QED BY <2>10, <4>14, <4>15 DEF Keeping, Safe, Held
      <3> QED BY <3>1 DEF FlushOk
    <2> QED BY <2>9, <2>10
  <1>11. CASE \E s : /\ s \in FlushSeqs(h, r) \/ s = <<>>
                     /\ cache' = [cache EXCEPT ![r] = Flushing(h, s)]
                     /\ Post(up, Taken(down, r), r, StoreReqs(s), stored)
    <2> HIDE DEF h, stored
    <2>1. PICK s : /\ s \in FlushSeqs(h, r) \/ s = <<>>
                   /\ cache' = [cache EXCEPT ![r] = Flushing(h, s)]
                   /\ Post(up, Taken(down, r), r, StoreReqs(s), stored)
      BY <1>11
    <2> DEFINE f == Flushing(h, s)
               L == Listed(s)
               rq == StoreReqs(s)
    <2>2. FlushingTo(h, r, s, f)
      <3>1. f = Flushing(h, s)
        OBVIOUS
      <3> HIDE DEF f
      <3> QED BY <1>6, <2>1, <3>1, FlushingIs
    <2> HIDE DEF f
    <2>3. /\ f \in Cache /\ Counted(f, r) /\ f.storing = h.storing \cup L
          /\ f.valid = h.valid /\ f.dirty = h.dirty /\ f.loading = h.loading
          /\ f.loadReq = h.loadReq /\ f.storeReq = h.storeReq /\ f.flushReq = h.flushReq
          /\ rq \in Seq(Request) /\ L \cap h.storing = {}
          /\ \A op, c : Count(rq, op, c) = Bit(op = "store" /\ c \in L)
      BY <2>2 DEF FlushingTo
    <2> HIDE DEF L, rq
    <2>4. Settles(k, r, b, e, L, f)
      <3> HIDE DEF k, b, e
      <3> QED BY <1>6, <2>3 DEF Settles
    <2>5. Requests(rq, L)
      BY <2>3 DEF Requests
    <2>6. Speaks(k, b, e, stored)
      <3>1. AnswersTo(Waiters(k.storeReq, b), Rsp("store", b, e), stored)
        BY <1>8
      <3>2. Flushes(Waiters(k.storeReq, b), k.flushReq, Rsp("store", b, e), stored, stored, stored)
        BY <3>1 DEF Flushes
      <3> HIDE DEF k, b, e
      <3>3. b \in Blob /\ e \in Errnum
        BY <1>2, <1>7 DEF b, e
      <3> QED BY <1>5, <3>2, <3>3, SpeaksIs
    <2>7. cache' = [cache EXCEPT ![r] = f] /\ Post(up, Taken(down, r), r, rq, stored)
      BY <2>1 DEF f, rq
    <2>8. Inv' /\ (Keeping => Keeping') /\ Passed(r, r, stored)
      <3>1. b = Head(down[r]).b /\ e = Head(down[r]).err /\ k = cache[r]
        OBVIOUS
      <3> HIDE DEF b, e, k
      <3> QED BY <1>1, <1>2, <1>4, <2>4, <2>5, <2>6, <2>7, <3>1, StoreSettled
    <2>9. FlushOk
      <3>1. stored \in [Node -> Seq(Response)]
        BY <1>8 DEF AnswersTo
      <3>2. ASSUME NEW c \in Client PROVE Count(stored[c], "flush", NoBlob) = 0
        <4>1. Count(stored[c], "flush", NoBlob) = Bit(c \in W /\ Fits(t, "flush", NoBlob))
          BY <1>8, NodesAre DEF AnswersTo
        <4>2. ~Fits(t, "flush", NoBlob)
          BY SMTT(60), RspFits
        <4> QED BY <4>1, <4>2 DEF Bit
      <3> QED BY <1>2, <2>8, <3>1, <3>2, NotFlush
    <2> QED BY <2>8, <2>9
  <1> QED BY <1>9, <1>10, <1>11

-----------------------------------------------------------------------------
(* Registration of the backing store, and dropcache *)

(* A cache in which only what is being stored may differ. *)
Alike(k, f) ==
    /\ f.valid = k.valid /\ f.dirty = k.dirty /\ f.loading = k.loading
    /\ f.loadReq = k.loadReq /\ f.storeReq = k.storeReq /\ f.flushReq = k.flushReq
(* The module is told nothing but that its request was granted. *)
Granted(ans) ==
    /\ ans \in [Node -> Seq(Response)]
    /\ \A x \in Node : Oks(ans[x]) = {} /\ (x # Module => ans[x] = <<>>)

(* Registration and its end preserve the invariant. *)
LEMMA BackingHandled ==
    ASSUME Laws, Inv, ~aborted, NEW m, NEW f, NEW rq, NEW ans, Handled(Module, m, 0, f, rq, ans),
           Passed(Module, 0, ans), up[Module] # <<>>, TypeOK', Routes', Singles',
           \A i \in Rank : Counted(cache'[i], i), Alike(cache[0], f), Granted(ans),
           mod \in {"loading", "stopping"}, mod = "stopping" => ~backing', Oks(down[0]) = {},
           discarded' = discarded
    PROVE  Inv' /\ (Keeping => Keeping' /\ FlushOk)
  <1>1. TypeOK /\ Sound /\ Living
    BY DEF Inv, Sound
  <1>2. /\ cache' = [cache EXCEPT ![0] = f] /\ UNCHANGED modVars
        /\ Flow(Module, m, 0, rq, ans)
    BY DEF Handled
  <1>3. /\ mod' = mod /\ db' = db /\ dump' = dump /\ unloads' = unloads
    BY <1>2 DEF modVars
  <1>4. cache'[0] = f
    BY <1>1, <1>2, NodesAre DEF TypeOK
  <1>5. /\ f.valid = cache[0].valid /\ f.dirty = cache[0].dirty /\ f.loading = cache[0].loading
        /\ f.loadReq = cache[0].loadReq /\ f.storeReq = cache[0].storeReq
        /\ f.flushReq = cache[0].flushReq
    BY DEF Alike
  <1>6. /\ ans \in [Node -> Seq(Response)]
        /\ \A x \in Node : Oks(ans[x]) = {} /\ (x # Module => ans[x] = <<>>)
    BY DEF Granted
  <1>7. up'[Module] = Tail(up[Module])
    BY PassedIs, NodesAre
  <1>8. up'[Module] = <<>>
    BY <1>1, <1>7, ModuleIs
  <1>9. Living'
    <2>1. Asked'
      <3>1. mod' = "loading" \/ (mod' = "stopping" /\ ~backing')
        BY <1>3
      <3> QED BY <1>8, <3>1 DEF Asked
    <2>2. Oks(down'[0]) = {}
      <3>1. Oks(down'[0]) \subseteq Oks(down[0]) \cup Oks(ans[0])
        BY <1>2, NodesAre DEF Flow
      <3> QED BY <1>6, <3>1, NodesAre
    <2> QED BY <1>1, <1>3, <1>4, <1>5, <1>8, <2>1, <2>2 DEF Living
  <1>10. Inv'
    BY <1>9, InvIs
  <1>11. ASSUME Keeping PROVE Keeping'
    <2>1. Backed' = db /\ Backed = db
      BY <1>3 DEF Backed
    <2>2. Held \subseteq Held'
      BY <1>4, <1>5, <2>1 DEF Held
    <2>3. Clean(cache'[0]) \subseteq Backed'
      <3>1. Clean(f) = Clean(cache[0])
        BY <1>5 DEF Clean
      <3> QED BY <1>4, <1>11, <2>1, <3>1 DEF Keeping
    <2>4. Serves(0, f, ans)
      BY <1>6, AcksOks DEF Serves
    <2>5. 0 \in Rank
      BY NodesAre
    <2> QED BY <1>1, <1>11, <2>2, <2>3, <2>4, <2>5, KeepIs
  <1>12. FlushOk
    <2>1. \A c \in Client : Count(ans[c], "flush", NoBlob) = 0
      <3>1. ASSUME NEW c \in Client PROVE Count(ans[c], "flush", NoBlob) = 0
        <4>1. ans[c] = <<>>
          BY <1>6, NodesAre
        <4> QED BY <4>1, NoneCounted
      <3> QED BY <3>1
    <2>2. 0 \in Rank
      BY NodesAre
    <2> QED BY <1>1, <1>6, <2>1, <2>2, NotFlush
  <1> QED BY <1>10, <1>11, <1>12

(* content_backing_request() *)
LEMMA BackingRequestStep ==
    ASSUME Laws, Inv, BackingRequest
    PROVE  Inv' /\ (Keeping => Keeping' /\ FlushOk)
  <1> DEFINE m == Head(up[Module])
             k == cache[0]
             U == Taken(up, Module)
             ack(op) == Answers({Module}, Rsp(op, NoBlob, "ok"))
  <1>1. /\ reqs' = reqs /\ UNCHANGED modVars /\ aborted' = aborted /\ discarded' = discarded
        /\ down[0] = <<>>
    BY DEF BackingRequest
  <1>2. 0 \in Rank /\ Module \in Node /\ Module \notin Rank
    BY NodesAre
  <1>3. \/ /\ Asks(0, Module, "on") /\ backing' = TRUE
           /\ \E s \in FlushSeqs(k, 0) : /\ cache' = [cache EXCEPT ![0] = Flushing(k, s)]
                                      /\ Post(U, down, 0, StoreReqs(s), ack(m.op))
        \/ /\ Asks(0, Module, "off") /\ backing' = FALSE
           /\ Post(U, down, 0, <<>>, ack(m.op)) /\ cache' = cache
    BY DEF BackingRequest, Become
  <1>4. ASSUME NEW op \in {"on", "off"}, Asks(0, Module, op)
        PROVE  /\ TypeOK /\ ~aborted /\ Sound /\ Child(Module, 0) /\ up[Module] # <<>>
               /\ m.op = op /\ m.b = NoBlob
               /\ \A p, c : Fits(m, p, c) <=> op = p /\ m.b = c
    <2>1. Question(0, Module, op)
      BY <1>2, <1>4, AskIs
    <2>2. m \in Request /\ m.op = op
      BY <2>1 DEF Question
    <2>3. m.b = NoBlob
      BY <1>4, <2>2, MessageIs
    <2> QED BY <2>1, <2>3 DEF Question
  <1>5. CASE /\ Asks(0, Module, "off") /\ backing' = FALSE
             /\ Post(U, down, 0, <<>>, ack(m.op)) /\ cache' = cache
    <2>1. "off" \in {"on", "off"} /\ "off" \in {"load", "store", "flush", "on", "off"}
          /\ "ok" \in Errnum /\ backing' \in BOOLEAN
      BY <1>5 DEF Errnum
    <2>2. /\ TypeOK /\ ~aborted /\ Sound /\ Child(Module, 0) /\ up[Module] # <<>>
          /\ m.op = "off" /\ m.b = NoBlob
      BY <1>4, <1>5, <2>1
    <2> DEFINE ans == Answers({Module}, Rsp("off", Head(up[Module]).b, "ok"))
    <2>3. Post(Taken(up, Module), down, 0, <<>>, ans)
      BY <1>5, <2>2
    <2>4. ans = Answers({Module}, Rsp("off", Head(up[Module]).b, "ok"))
      OBVIOUS
    <2> HIDE DEF ans
    <2>5. Replied(0, Module, "off", "ok", k, ans)
      <3>1. k \in Cache /\ Same(k, k) /\ cache' = [cache EXCEPT ![0] = k]
        BY <1>2, <1>5, <2>2, Untouched
      <3> QED BY <1>1, <1>2, <1>5, <2>1, <2>3, <2>4, <3>1, ReplyIs
    <2>6. /\ Handled(Module, m, 0, k, <<>>, ans) /\ Passed(Module, 0, ans)
          /\ TypeOK' /\ Routes' /\ (\A i \in Rank : Counted(cache'[i], i)) /\ Singles'
      BY <2>5 DEF Replied
    <2>7. Granted(ans)
      <3>1. ans \in [Node -> Seq(Response)]
        BY <2>6 DEF Handled
      <3>2. \A x \in Node : x # Module => ans[x] = <<>>
        BY <2>5 DEF Replied
      <3>3. \A x \in Node : Oks(ans[x]) = {}
        <4>1. \A x \in Node : \A c \in Oks(ans[x]) : c = NoBlob
          BY <2>2, <2>5 DEF Replied
        <4> QED BY <4>1, BlobAssumption DEF Oks
      <3> QED BY <3>1, <3>2, <3>3 DEF Granted
    <2>8. mod = "stopping" /\ mod \in {"loading", "stopping"}
      <3>1. Living
        BY <2>2 DEF Sound
      <3> QED BY <2>2, <3>1, ModuleIs
    <2>9. Oks(down[0]) = {}
      <3>1. DOMAIN <<>> = {}
        BY SMTT(60)
      <3> QED BY <1>1, <3>1 DEF Oks
    <2>10. Alike(k, k)
      BY DEF Alike
    <2> QED BY <1>1, <1>5, <2>2, <2>6, <2>7, <2>8, <2>9, <2>10, BackingHandled
  <1>6. CASE /\ Asks(0, Module, "on") /\ backing' = TRUE
             /\ \E s \in FlushSeqs(k, 0) : /\ cache' = [cache EXCEPT ![0] = Flushing(k, s)]
                                        /\ Post(U, down, 0, StoreReqs(s), ack(m.op))
    <2>1. "on" \in {"on", "off"} /\ "ok" \in Errnum
          /\ backing' \in BOOLEAN
      BY <1>6 DEF Errnum
    <2>2. /\ TypeOK /\ ~aborted /\ Sound /\ Child(Module, 0) /\ up[Module] # <<>>
          /\ m.op = "on" /\ m.b = NoBlob
          /\ \A p, c : Fits(m, p, c) <=> "on" = p /\ m.b = c
      BY <1>4, <1>6, <2>1
    <2>3. /\ Routes /\ Singles /\ Living /\ \A i \in Rank : Counted(cache[i], i)
      BY <2>2 DEF Sound
    <2>4. PICK s \in FlushSeqs(k, 0) : /\ cache' = [cache EXCEPT ![0] = Flushing(k, s)]
                                    /\ Post(U, down, 0, StoreReqs(s), ack(m.op))
      BY <1>6
    <2> DEFINE t == Rsp("on", NoBlob, "ok")
               ans == Answers({Module}, t)
               f == Flushing(k, s)
               L == Listed(s)
               rq == StoreReqs(s)
    <2>5. cache' = [cache EXCEPT ![0] = f] /\ Post(Taken(up, Module), down, 0, rq, ans)
      BY <2>2, <2>4
    <2>6. FlushingTo(k, 0, s, f)
      <3>1. f = Flushing(k, s)
        OBVIOUS
      <3>2. k \in Cache /\ Counted(k, 0)
        BY <1>2, <2>2, <2>3 DEF TypeOK
      <3> HIDE DEF f, k
      <3> QED BY <2>4, <3>1, <3>2, FlushingIs
    <2> HIDE DEF f
    <2>7. /\ f \in Cache /\ Counted(f, 0) /\ f.storing = k.storing \cup L
          /\ f.valid = k.valid /\ f.dirty = k.dirty /\ f.loading = k.loading
          /\ f.loadReq = k.loadReq /\ f.storeReq = k.storeReq /\ f.flushReq = k.flushReq
          /\ rq \in Seq(Request) /\ L \cap k.storing = {}
          /\ \A op, c : Count(rq, op, c) = Bit(op = "store" /\ c \in L)
      BY <2>6 DEF FlushingTo
    <2>8. AnswersTo({Module}, t, ans)
      <3>1. "on" \in {"flush", "on", "off"}
        OBVIOUS
      <3>2. t \in Response
        BY <2>1, <3>1, RspIs
      <3>3. ans = Answers({Module}, t)
        OBVIOUS
      <3> HIDE DEF ans, t
      <3> QED BY <3>2, <3>3, AnswersIs
    <2>9. Granted(ans)
      <3>1. t.b \notin Blob
        BY BlobAssumption DEF Rsp
      <3> HIDE DEF t, ans
      <3>2. \A x \in Node : Oks(ans[x]) = {}
        BY <2>8, <3>1 DEF AnswersTo, Oks
      <3> QED BY <2>8, <3>2 DEF AnswersTo, Granted
    <2> HIDE DEF t, ans, L, rq
    <2>10. /\ ans \in [Node -> Seq(Response)]
           /\ \A x \in Node : x # Module => ans[x] = <<>>
      BY <2>9 DEF Granted
    <2>11. Flow(Module, m, 0, rq, ans) /\ Passed(Module, 0, ans)
      BY <1>2, <2>2, <2>5, <2>7, <2>10, AskFlow
    <2>12. Handled(Module, m, 0, f, rq, ans)
      BY <1>1, <1>2, <2>2, <2>5, <2>7, <2>10, <2>11, PostHandled
    <2>13. Routed(f, 0)
      <3>1. Routed(k, 0)
        BY <1>2, <2>3 DEF Routes, Routed
      <3> QED BY <2>7, <3>1 DEF Routed
    <2>14. Balanced(Module, m, 0, f, rq, ans)
      <3> HIDE DEF m, k
      <3>1. Adds(rq, L, k, f)
        BY <2>7 DEF Adds, k
      <3>2. ASSUME NEW p \in {"load", "store"}, NEW c \in Blob
            PROVE  Count(rq, p, c) + Count(ans[0], p, c) + Pending(k, p, c)
                     = Pending(f, p, c) + Bit(Module = 0 /\ Fits(m, p, c))
        <4>1. /\ Count(rq, p, c) + Pending(k, p, c) = Pending(f, p, c)
              /\ Count(rq, p, c) \in Nat /\ Pending(k, p, c) \in Nat /\ Pending(f, p, c) \in Nat
          BY <3>1, FlushPending
        <4>2. Count(ans[0], p, c) = 0
          <5>1. ans[0] = <<>>
            BY <1>2, <2>10, NodesAre
          <5> QED BY <5>1, NoneCounted
        <4>3. Bit(Module = 0 /\ Fits(m, p, c)) = 0
          BY <1>2 DEF Bit
        <4> QED BY SMTT(60), <4>1, <4>2, <4>3
      <3>3. ASSUME NEW p \in {"load", "store"}, NEW c \in Blob, NEW x \in Rank \ {0}
            PROVE  /\ Count(ans[x], p, c) + Waits(f, x, p, c)
                        = Waits(k, x, p, c) + Bit(Module = x /\ Fits(m, p, c))
                   /\ Count(ans[x], p, c) = 0
        <4>1. Count(ans[x], p, c) = 0
          <5>1. ans[x] = <<>>
            BY <1>2, <2>10, NodesAre
          <5> QED BY <5>1, NoneCounted
        <4>2. Bit(Module = x /\ Fits(m, p, c)) = 0
          BY <1>2 DEF Bit
        <4>3. Waits(f, x, p, c) = Waits(k, x, p, c)
          BY <2>7 DEF Waits, k
        <4>4. Waits(k, x, p, c) \in Nat
          BY DEF Waits, Bit
        <4> QED BY SMTT(60), <4>1, <4>2, <4>3, <4>4
      <3> QED BY <2>2, <3>2, <3>3 DEF Balanced, k
    <2>15. /\ TypeOK' /\ Routes' /\ (\A i \in Rank : Counted(cache'[i], i)) /\ Singles'
      <3>1. aborted' \in BOOLEAN /\ discarded' \subseteq Blob
        BY <1>1, <2>2 DEF TypeOK
      <3> QED BY <1>2, <2>1, <2>2, <2>3, <2>7, <2>12, <2>13, <2>14, <3>1, HandlerIs
    <2>16. mod = "loading" /\ mod \in {"loading", "stopping"} /\ mod # "stopping"
      <3>1. mod = "loading"
        BY <2>2, <2>3, ModuleIs
      <3> QED BY <3>1
    <2>17. Oks(down[0]) = {}
      BY <2>3, <2>16 DEF Living
    <2>18. Alike(k, f)
      BY <2>7 DEF Alike
    <2> QED BY <1>1, <2>2, <2>9, <2>11, <2>12, <2>15, <2>16, <2>17, <2>18, BackingHandled
  <1> QED BY <1>3, <1>5, <1>6

(* content_dropcache_request(), cache_purge() *)
LEMMA DropStep ==
    ASSUME Laws, Inv, NEW r \in Rank, Drop(r)
    PROVE  Inv' /\ (Keeping => Keeping' /\ FlushOk)
  <1> DEFINE k == cache[r]
  <1>1. PICK B \in {Droppable(k)} \cup {{b} : b \in Droppable(k)} :
          cache' = [cache EXCEPT ![r] = Removed(k, B)] /\ Free(k, B)
    BY DEF Drop, Become
  <1>2. /\ ~aborted /\ UNCHANGED <<backing, up, down, waiting, reqs, modVars, acked, discarded>>
    BY DEF Drop
  <1>3. TypeOK /\ Routes /\ Singles /\ Living /\ \A i \in Rank : Counted(cache[i], i)
    BY <1>2 DEF Inv, Sound
  <1>4. k \in Cache /\ Counted(k, r) /\ k.valid \in SUBSET Blob
    BY <1>3 DEF TypeOK, Cache
  <1>5. B \in SUBSET Blob /\ B \subseteq Clean(k)
    BY <1>1, <1>4 DEF Droppable, Clean
  <1> DEFINE f == Removed(k, B)
  <1>6. RemovedTo(k, r, B, f)
    <2>1. f = Removed(k, B)
      OBVIOUS
    <2> HIDE DEF f, k
    <2> QED BY <1>4, <1>5, <2>1, RemovedIs
  <1> HIDE DEF f
  <1>7. /\ f \in Cache /\ f.valid = k.valid \ B /\ f.dirty = k.dirty \ B
        /\ f.storing = k.storing /\ f.loading = k.loading /\ f.loadReq = k.loadReq
        /\ f.storeReq = k.storeReq /\ f.flushReq = k.flushReq
    BY <1>6 DEF RemovedTo
  <1>8. Counted(f, r)
    <2>1. B \cap k.storing = {}
      BY <1>4, <1>5 DEF Clean, Counted
    <2> QED BY <1>6, <2>1 DEF RemovedTo
  <1>9. /\ cache' = [cache EXCEPT ![r] = f] /\ cache' \in [Rank -> Cache] /\ cache'[r] = f
        /\ \A x \in Rank \ {r} : cache'[x] = cache[x]
    BY <1>1, <1>3, <1>7 DEF TypeOK, f
  <1>10. /\ mod' = mod /\ db' = db /\ dump' = dump /\ closing' = closing /\ fails' = fails
         /\ unloads' = unloads /\ lost' = lost
    BY <1>2 DEF modVars
  <1>11. TypeOK'
    <2>1. aborted' \in BOOLEAN
      <3>1. aborted' = (\/ B \cap (k.loading \cup k.storing) # {}
                        \/ (Node \X B) \cap (k.loadReq \cup k.storeReq) # {})
        BY <1>1 DEF Free
      <3> QED BY SMTT(60), <3>1
    <2> QED BY <1>2, <1>3, <1>9, <1>10, <2>1 DEF TypeOK
  <1>12. \A x \in Rank : /\ cache'[x].storing = cache[x].storing /\ cache'[x].loading = cache[x].loading
                         /\ cache'[x].loadReq = cache[x].loadReq
                         /\ cache'[x].storeReq = cache[x].storeReq
                         /\ cache'[x].flushReq = cache[x].flushReq
    BY <1>7, <1>9
  <1>13. Routes'
    BY <1>3, <1>12 DEF Routes
  <1>14. ASSUME NEW i \in Rank PROVE Counted(cache'[i], i)
    BY <1>3, <1>8, <1>9
  <1>15. Singles'
    <2>1. ASSUME NEW x \in Rank, NEW op \in {"load", "store"}, NEW b \in Blob
          PROVE  Single(x, op, b)'
      <3>1. Single(x, op, b)
        BY <1>3 DEF Singles
      <3>2. Moving(x, op, b)' = Moving(x, op, b)
        BY <1>2 DEF Moving
      <3>3. Pending(cache'[x], op, b) = Pending(cache[x], op, b)
        BY <1>12 DEF Pending
      <3>4. Above(x, op, b)' = Above(x, op, b)
        <4>1. x # 0 => Parent[x] \in Rank
          BY TreeAssumption
        <4> QED BY <1>12, <4>1 DEF Above, Waits
      <3>5. Lost(x, op, b)' = Lost(x, op, b)
        BY <1>10 DEF Lost
      <3> QED BY <3>1, <3>2, <3>3, <3>4, <3>5 DEF Single
    <2> QED BY <2>1 DEF Singles
  <1>16. \A x \in Rank : cache'[x].dirty \subseteq cache[x].dirty
    BY <1>7, <1>9
  <1>17. Living'
    <2>1. /\ \A b \in Blob : <<Module, b>> \notin cache'[0].loadReq
          /\ cache'[0].storeReq = {} /\ Module \notin cache'[0].flushReq
          /\ cache'[0].dirty \cap Huge = {}
      BY <1>3, <1>12, <1>16, NodesAre DEF Living
    <2>2. up'[Module] = up[Module] /\ (Module \notin waiting' => Module \notin waiting)
          /\ Oks(down'[0]) \subseteq Oks(down[0]) /\ backing' = backing /\ UNCHANGED modVars
      BY <1>2
    <2> QED BY <1>3, <2>1, <2>2, LivingIs
  <1>18. Inv'
    BY <1>11, <1>13, <1>14, <1>15, <1>17, InvIs
  <1>19. ASSUME Keeping PROVE Keeping'
    <2>1. Backed' = Backed
      BY <1>2, <1>10 DEF Backed
    <2>2. Clean(cache[0]) \subseteq Backed
      BY <1>19 DEF Keeping
    <2>3. ASSUME NEW c \in cache[0].valid, c \notin cache'[0].valid PROVE c \in Backed
      <3>1. r = 0 /\ c \in B
        BY <1>7, <1>9, <2>3, NodesAre
      <3> QED BY <1>5, <2>2, <3>1
    <2>4. Held \subseteq Held'
      BY <2>1, <2>3 DEF Held
    <2>5. \A x \in Rank : Clean(cache'[x]) \subseteq Clean(cache[x])
      <3>1. Clean(f) \subseteq Clean(k)
        BY <1>7 DEF Clean
      <3> QED BY <1>9, <3>1
    <2>6. /\ \A x \in Rank : Good(x) \subseteq Good(x)'
          /\ Safe \subseteq Safe'
      <3>1. k.dirty \ f.dirty = {}
        BY <1>5, <1>7 DEF Clean
      <3> QED BY <1>2, <1>3, <1>9, <2>4, <3>1, GoodIs
    <2>7. Clean(cache'[0]) \subseteq Backed'
      BY <2>1, <2>2, <2>5, NodesAre
    <2>8. \A x \in Rank \ {0} : Clean(cache'[x]) \subseteq Good(x)' /\ Oks(down'[x]) \subseteq Good(x)'
      BY <1>2, <1>19, <2>5, <2>6 DEF Keeping
    <2>9. acked' \subseteq Safe'
      BY <1>2, <1>19, <2>6 DEF Keeping
    <2> QED BY <2>7, <2>8, <2>9 DEF Keeping, Clean, Oks
  <1>20. FlushOk
    <2>1. \A x : <<>> # <<x>>
      BY SMTT(60)
    <2> QED BY <1>2, <2>1 DEF FlushOk
  <1> QED BY <1>18, <1>19, <1>20
=============================================================================
