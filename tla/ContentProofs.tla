--------------------------- MODULE ContentProofs ----------------------------
(***************************************************************************)
(* The theorems about ContentCache, for every tree of brokers, every set   *)
(* of clients and blobs, and every limit: the rest of the steps, the laws  *)
(* of counting, and what follows from the invariant.                       *)
(***************************************************************************)
EXTENDS ContentAnswers

USE ZenonT(60)

-----------------------------------------------------------------------------
(* Clients and the module *)

(* No cache changes, and no message of a rank goes but with the module. *)
Calm ==
    /\ cache' = cache
    /\ \A x \in Rank, op \in {"load", "store"}, b \in Blob :
         Moving(x, op, b)' + Lost(x, op, b)' = Moving(x, op, b) + Lost(x, op, b)

(* The messages that move are counted by natural numbers. *)
LEMMA MovingIs ==
    ASSUME Laws, TypeOK
    PROVE  \A x \in Rank : \A op, b : /\ Moving(x, op, b) \in Nat
                                      /\ Count(up[x], op, b) \in Nat /\ Count(down[x], op, b) \in Nat
  <1>1. ASSUME NEW x \in Rank, NEW op, NEW b
        PROVE  Count(up[x], op, b) \in Nat /\ Count(down[x], op, b) \in Nat
    <2>1. up[x] \in Seq(Request) /\ down[x] \in Seq(Response)
      BY NodesAre DEF TypeOK
    <2> QED BY <2>1 DEF Laws, Counting
  <1>2. ASSUME NEW x \in Rank, NEW op, NEW b PROVE Moving(x, op, b) \in Nat
    <2>1. Count(up[x], op, b) \in Nat /\ Count(down[x], op, b) \in Nat
      BY <1>1
    <2>2. Count(up[x], op, b) + Count(down[x], op, b) \in Nat
      BY SMTT(60), <2>1
    <2> QED BY <2>2 DEF Moving
  <1> QED BY <1>1, <1>2

(* Then what holds of the caches and their messages is preserved. *)
LEMMA CalmIs ==
    ASSUME Laws, TypeOK, TypeOK', Routes, Singles, \A i \in Rank : Counted(cache[i], i), Calm
    PROVE  Routes' /\ Singles' /\ \A i \in Rank : Counted(cache'[i], i)
  <1>1. cache' = cache
    BY DEF Calm
  <1>2. Routes'
    BY <1>1 DEF Routes
  <1>3. \A i \in Rank : Counted(cache'[i], i)
    BY <1>1
  <1>4. ASSUME NEW x \in Rank, NEW op \in {"load", "store"}, NEW b \in Blob PROVE Single(x, op, b)'
    <2> DEFINE M == Moving(x, op, b)
               N == Moving(x, op, b)'
               A == Above(x, op, b)
               P == Pending(cache[x], op, b)
               L == Lost(x, op, b)
               O == Lost(x, op, b)'
    <2>1. M + A + L = P
      BY DEF Singles, Single
    <2>2. N + O = M + L
      BY DEF Calm
    <2>3. M \in Nat
      BY MovingIs
    <2>4. N \in Nat
      <3>1. up'[x] \in Seq(Request) /\ down'[x] \in Seq(Response)
        BY NodesAre DEF TypeOK
      <3>2. Count(up'[x], op, b) \in Nat /\ Count(down'[x], op, b) \in Nat
        BY <3>1 DEF Laws, Counting
      <3>3. Count(up'[x], op, b) + Count(down'[x], op, b) \in Nat
        BY SMTT(60), <3>2
      <3> QED BY <3>3 DEF Moving
    <2>5. A \in Nat /\ P \in Nat /\ L \in Nat /\ O \in Nat
      BY DEF Above, Waits, Pending, Bit, Lost
    <2>6. Above(x, op, b)' = A /\ Pending(cache[x], op, b)' = P
      BY <1>1 DEF Above, Pending
    <2> HIDE DEF M, N, A, P, L, O
    <2>7. N + A + O = P
      BY SMTT(60), <2>1, <2>2, <2>3, <2>4, <2>5
    <2> QED BY <2>6, <2>7 DEF Single, N, O
  <1> QED BY <1>2, <1>3, <1>4 DEF Singles

(* A step that leaves the queues of the ranks alone is calm. *)
LEMMA QueuesCalm ==
    ASSUME cache' = cache, lost' = lost, \A x \in Rank : up'[x] = up[x] /\ down'[x] = down[x]
    PROVE  Calm
  <1>1. ASSUME NEW x \in Rank, NEW op \in {"load", "store"}, NEW b \in Blob
        PROVE  Moving(x, op, b)' = Moving(x, op, b) /\ Lost(x, op, b)' = Lost(x, op, b)
    BY DEF Moving, Lost
  <1> QED BY <1>1 DEF Calm

(* What is stored stays when no cache changes and the module keeps what it *)
(* has.                                                                    *)
LEMMA KeepCalm ==
    ASSUME TypeOK, Keeping, cache' = cache, acked' = acked, discarded' = discarded,
           Backed \subseteq Backed', \A x \in Rank \ {0} : down'[x] = down[x]
    PROVE  Keeping'
  <1>1. Held \subseteq Held'
    BY DEF Held
  <1>2. /\ \A x \in Rank : Good(x) \subseteq Good(x)'
        /\ Safe \subseteq Safe'
    <2>1. 0 \in Rank
      BY NodesAre
    <2>2. cache' = [cache EXCEPT ![0] = cache[0]]
      BY <2>1, Untouched
    <2> QED BY <1>1, <2>1, <2>2, GoodIs
  <1>3. Clean(cache'[0]) \subseteq Backed'
    BY DEF Keeping
  <1>4. \A x \in Rank \ {0} : Clean(cache'[x]) \subseteq Good(x)' /\ Oks(down'[x]) \subseteq Good(x)'
    BY <1>2 DEF Keeping
  <1>5. acked' \subseteq Safe'
    BY <1>2 DEF Keeping
  <1> QED BY <1>3, <1>4, <1>5 DEF Keeping, Clean, Oks

(* No client is told anything. *)
LEMMA Untold ==
    ASSUME \A c \in Client : down'[c] = down[c] \/ down'[c] = <<>>
    PROVE  FlushOk
  <1>1. \A x : <<>> # <<x>>
    BY SMTT(60)
  <1> QED BY <1>1 DEF FlushOk

(* A client or the module sends a request. *)
Sent(n, m) ==
    /\ up' \in [Node -> Seq(Request)] /\ down' \in [Node -> Seq(Response)]
    /\ n \notin waiting /\ waiting' = waiting \cup {n} /\ waiting' \subseteq Client \cup {Module}
    /\ cache' = cache /\ backing' = backing /\ acked' = acked /\ aborted' = aborted
    /\ discarded' = discarded
    /\ \A x \in Node \ {n} : up'[x] = up[x] /\ down'[x] = down[x]
    /\ up'[n] = Append(up[n], m) /\ down'[n] = <<>>
    /\ \A x \in Rank : up'[x] = up[x] /\ down'[x] = down[x]
    /\ FlushOk

(* A request sent by a client or the module preserves these parts. *)
LEMMA SendIs ==
    ASSUME TypeOK, NEW n \in Client \cup {Module}, NEW m \in Request, Send(n, m)
    PROVE  Sent(n, m)
  <1>1. /\ n \notin waiting /\ waiting' = waiting \cup {n}
        /\ up' = [up EXCEPT ![n] = Append(@, m)] /\ down' = [down EXCEPT ![n] = <<>>]
        /\ cache' = cache /\ backing' = backing /\ acked' = acked /\ aborted' = aborted
        /\ discarded' = discarded
    BY DEF Send
  <1>2. /\ up \in [Node -> Seq(Request)] /\ down \in [Node -> Seq(Response)] /\ n \in Node
        /\ waiting \subseteq Client \cup {Module}
    BY NodesAre DEF TypeOK
  <1>3. Append(up[n], m) \in Seq(Request) /\ <<>> \in Seq(Response)
    <2>1. up[n] \in Seq(Request)
      BY <1>2
    <2> QED BY SMTT(60), <2>1
  <1>4. /\ up' \in [Node -> Seq(Request)] /\ down' \in [Node -> Seq(Response)]
        /\ \A x \in Node \ {n} : up'[x] = up[x] /\ down'[x] = down[x]
        /\ up'[n] = Append(up[n], m) /\ down'[n] = <<>>
    BY <1>1, <1>2, <1>3
  <1>5. \A x \in Rank : up'[x] = up[x] /\ down'[x] = down[x]
    BY <1>4, NodesAre
  <1>6. FlushOk
    <2>1. \A c \in Client : down'[c] = down[c] \/ down'[c] = <<>>
      BY <1>4, NodesAre
    <2> QED BY <2>1, Untold
  <1> QED BY <1>1, <1>2, <1>4, <1>5, <1>6 DEF Sent

(* p is q with m at its end. *)
Longer(p, q, m) ==
    /\ p = q \o <<m>>
    /\ \A i \in DOMAIN p : p[i] = m \/ \E j \in DOMAIN q : p[i] = q[j]

(* Append() does that. *)
LEMMA AppendIs ==
    ASSUME NEW M, NEW q \in Seq(M), NEW m \in M, NEW p, p = Append(q, m)
    PROVE  Longer(p, q, m)
  <1>1. p = q \o <<m>> /\ <<m>> \in Seq(M) /\ \A i \in DOMAIN <<m>> : <<m>>[i] = m
    BY SMTT(60)
  <1>2. Joins(q \o <<m>>, q, <<m>>)
    BY <1>1, ConcatIs
  <1>3. Joins(p, q, <<m>>)
    BY <1>1, <1>2
  <1> QED BY <1>1, <1>3 DEF Joins, Longer

(* flux_content_load(), flux_content_store(), flux_content_flush() *)
LEMMA ClientSendStep ==
    ASSUME Laws, Inv, NEW c \in Client, ClientSend(c)
    PROVE  Inv' /\ (Keeping => Keeping') /\ FlushOk
  <1>1. PICK m \in Ops[c] : Send(c, m)
    BY DEF ClientSend
  <1>2. ~aborted /\ reqs < MaxReq /\ reqs' = reqs + 1 /\ UNCHANGED modVars
    BY DEF ClientSend
  <1>3. TypeOK /\ Routes /\ Singles /\ Living /\ \A i \in Rank : Counted(cache[i], i)
    BY <1>2 DEF Inv, Sound
  <1>4. /\ mod' = mod /\ db' = db /\ dump' = dump /\ closing' = closing /\ fails' = fails
        /\ unloads' = unloads /\ lost' = lost
    BY <1>2 DEF modVars
  <1>5. m \in Request
    <2>1. Ops[c] \subseteq [op : {"load", "store"}, b : Blob] \cup [op : {"flush"}, b : {NoBlob}]
      BY OpsAssumption
    <2>2. /\ [op : {"load", "store"}, b : Blob] \subseteq Request
          /\ [op : {"flush"}, b : {NoBlob}] \subseteq Request
      BY SMTT(60) DEF Request
    <2> QED BY <2>1, <2>2
  <1>6. Sent(c, m)
    BY <1>1, <1>3, <1>5, SendIs
  <1>7. /\ up' \in [Node -> Seq(Request)] /\ down' \in [Node -> Seq(Response)]
        /\ waiting' = waiting \cup {c} /\ waiting' \subseteq Client \cup {Module}
        /\ cache' = cache /\ backing' = backing /\ acked' = acked /\ aborted' = aborted
        /\ discarded' = discarded
        /\ \A x \in Node \ {c} : up'[x] = up[x] /\ down'[x] = down[x]
        /\ \A x \in Rank : up'[x] = up[x] /\ down'[x] = down[x]
        /\ FlushOk
    BY <1>6 DEF Sent
  <1>8. TypeOK'
    <2>1. reqs' \in 0 .. MaxReq
      <3>1. reqs \in 0 .. MaxReq /\ MaxReq \in Nat
        BY <1>3, LimitAssumption DEF TypeOK
      <3> QED BY SMTT(60), <1>2, <3>1
    <2> QED BY <1>3, <1>4, <1>7, <2>1 DEF TypeOK
  <1>9. Routes' /\ Singles' /\ \A i \in Rank : Counted(cache'[i], i)
    <2>1. Calm
      BY <1>4, <1>7, QueuesCalm
    <2> QED BY <1>3, <1>8, <2>1, CalmIs
  <1>10. up'[Module] = up[Module] /\ down'[0] = down[0] /\ Module # c /\ Module \in Node
    BY <1>7, NodesAre
  <1>11. Living'
    <2>1. /\ \A x \in Blob : <<Module, x>> \notin cache'[0].loadReq
          /\ cache'[0].storeReq = {} /\ Module \notin cache'[0].flushReq
          /\ cache'[0].dirty \cap Huge = {}
      BY <1>3, <1>7 DEF Living
    <2>2. Oks(down'[0]) \subseteq Oks(down[0]) /\ (Module \notin waiting' => Module \notin waiting)
      BY <1>7, <1>10
    <2> QED BY <1>2, <1>3, <1>7, <1>10, <2>1, <2>2, LivingIs
  <1>12. Inv'
    BY <1>8, <1>9, <1>11, InvIs
  <1>13. ASSUME Keeping PROVE Keeping'
    <2>1. Backed' = Backed
      BY <1>4, <1>10 DEF Backed
    <2> QED BY <1>3, <1>7, <1>13, <2>1, KeepCalm
  <1> QED BY <1>7, <1>12, <1>13

(* Steps of the module *)
Apart ==
    /\ acked' = acked /\ discarded' = discarded
    /\ \A c \in Client : down'[c] = down[c] \/ down'[c] = <<>>
    /\ \A x \in Rank \ {0} : down'[x] = down[x]

(* A calm step of the module preserves the invariant. *)
LEMMA ModuleCalm ==
    ASSUME Laws, Inv, ~aborted, TypeOK', Calm, Living', Apart,
           ~closing' => Backed \subseteq Backed'
    PROVE  Inv' /\ (Keeping /\ ~closing' => Keeping') /\ FlushOk
  <1>1. TypeOK /\ Routes /\ Singles /\ \A i \in Rank : Counted(cache[i], i)
    BY DEF Inv, Sound
  <1>2. Routes' /\ Singles' /\ \A i \in Rank : Counted(cache'[i], i)
    BY <1>1, CalmIs
  <1>3. Inv'
    BY <1>2, InvIs
  <1>4. ASSUME Keeping, ~closing' PROVE Keeping'
    <2>1. /\ cache' = cache /\ acked' = acked /\ discarded' = discarded
          /\ \A x \in Rank \ {0} : down'[x] = down[x]
      BY DEF Calm, Apart
    <2> QED BY <1>1, <1>4, <2>1, KeepCalm
  <1>5. FlushOk
    BY Untold DEF Apart
  <1> QED BY <1>3, <1>4, <1>5

(* What holds of the module before a step. *)
Usual ==
    /\ TypeOK /\ Living /\ ~aborted
    /\ \A b \in Blob : <<Module, b>> \notin cache[0].loadReq
    /\ cache[0].storeReq = {} /\ Module \notin cache[0].flushReq
    /\ mod # "dumping" => dump = {}
    /\ dump \subseteq db /\ db \cap Huge = {} /\ cache[0].dirty \cap Huge = {}
    /\ Oks(down[0]) \subseteq db
    /\ Oks(down[0]) # {} => mod = "up" \/ (mod = "stopping" /\ up[Module] # <<>>)
    /\ Module \notin waiting => up[Module] = <<>>
    /\ Backed \subseteq db

(* All this follows from the invariant. *)
LEMMA UsualIs ==
    ASSUME Inv, ~aborted PROVE Usual
  <1>1. TypeOK /\ Living
    BY DEF Inv, Sound
  <1> QED BY <1>1, BackedIs DEF Usual, Living

(* The module sends m; its first request, or one after the last was        *)
(* answered.                                                               *)
LEMMA ModSendIs ==
    ASSUME Laws, Inv, ~aborted, NEW m \in Request, Send(Module, m), lost' = lost
    PROVE  Calm /\ Apart /\ Sent(Module, m) /\ up'[Module] = <<m>> /\ down'[0] = down[0]
  <1>1. Usual
    BY UsualIs
  <1>2. Sent(Module, m)
    BY <1>1, SendIs DEF Usual
  <1>3. Calm
    BY <1>2, QueuesCalm DEF Sent
  <1>4. Apart
    BY <1>2, NodesAre DEF Sent, Apart
  <1>5. Append(<<>>, m) = <<m>>
    BY SMTT(60)
  <1>6. up[Module] = <<>>
    BY <1>1, <1>2 DEF Sent, Usual
  <1>7. up'[Module] = <<m>>
    BY <1>2, <1>5, <1>6 DEF Sent
  <1>8. down'[0] = down[0]
    BY <1>2, NodesAre DEF Sent
  <1> QED BY <1>2, <1>3, <1>4, <1>7, <1>8

(* mod_main(): the first request *)
LEMMA ModLoadStep ==
    ASSUME Laws, Inv, ModLoad
    PROVE  Inv' /\ (Keeping /\ ~closing' => Keeping') /\ FlushOk
  <1>1. /\ ~aborted /\ mod = "out" /\ mod' = "loading" /\ Send(Module, Req("on", NoBlob))
        /\ reqs' = reqs /\ db' = db /\ dump' = dump /\ fails' = fails /\ unloads' = unloads
        /\ closing' = closing /\ lost' = lost
    BY DEF ModLoad, ModGoes
  <1>2. Usual
    BY <1>1, UsualIs
  <1>3. Req("on", NoBlob) \in Request
    BY ReqIs
  <1>4. Calm /\ Apart /\ Sent(Module, Req("on", NoBlob)) /\ up'[Module] = <<Req("on", NoBlob)>>
        /\ down'[0] = down[0]
    BY <1>1, <1>3, ModSendIs
  <1>5. TypeOK'
    BY <1>1, <1>2, <1>4 DEF TypeOK, Sent, Life, Usual
  <1>6. Living'
    <2>1. Asked'
      BY <1>1, <1>4 DEF Asked
    <2>2. Oks(down'[0]) = {}
      BY <1>1, <1>2, <1>4 DEF Usual
    <2>3. cache' = cache /\ Module \in waiting'
      BY <1>4 DEF Sent
    <2> QED BY <1>1, <1>2, <2>1, <2>2, <2>3 DEF Living, Usual
  <1>7. Backed \subseteq Backed'
    BY <1>1, <1>2 DEF Backed, Usual
  <1> QED BY <1>1, <1>4, <1>5, <1>6, <1>7, ModuleCalm

(* shutdown_cb(): it tells the cache *)
LEMMA ModStopStep ==
    ASSUME Laws, Inv, ModStop
    PROVE  Inv' /\ (Keeping /\ ~closing' => Keeping') /\ FlushOk
  <1>1. /\ ~aborted /\ mod = "up" /\ mod' = "stopping" /\ Send(Module, Req("off", NoBlob))
        /\ reqs' = reqs /\ db' = db /\ dump' = dump /\ fails' = fails
        /\ unloads < MaxUnload /\ unloads' = unloads + 1 /\ closing' = closing /\ lost' = lost
    BY DEF ModStop, ModGoes
  <1>2. Usual
    BY <1>1, UsualIs
  <1>3. Req("off", NoBlob) \in Request
    BY ReqIs
  <1>4. unloads' \in 0 .. MaxUnload
    <2>1. unloads \in 0 .. MaxUnload /\ MaxUnload \in Nat
      BY <1>2, LimitAssumption DEF TypeOK, Usual
    <2> QED BY SMTT(60), <1>1, <2>1
  <1>5. Calm /\ Apart /\ Sent(Module, Req("off", NoBlob)) /\ up'[Module] = <<Req("off", NoBlob)>>
        /\ down'[0] = down[0]
    BY <1>1, <1>3, ModSendIs
  <1>6. TypeOK'
    BY <1>1, <1>2, <1>4, <1>5 DEF TypeOK, Sent, Life, Usual
  <1>7. Living'
    <2>1. Asked'
      BY <1>1, <1>5 DEF Asked
    <2>2. Oks(down'[0]) \subseteq db' /\ dump' = {} /\ dump' \subseteq db'
      BY <1>1, <1>2, <1>5 DEF Usual
    <2>3. cache' = cache /\ Module \in waiting'
      BY <1>5 DEF Sent
    <2>4. \A x : <<x>> # <<>>
      BY SMTT(60)
    <2>5. mod' = "stopping" /\ up'[Module] # <<>>
      BY <1>1, <1>5, <2>4
    <2> QED BY <1>1, <1>2, <2>1, <2>2, <2>3, <2>5 DEF Living, Usual
  <1>8. Backed \subseteq Backed'
    BY <1>1 DEF Backed
  <1> QED BY <1>1, <1>5, <1>6, <1>7, <1>8, ModuleCalm

(* The module goes on without a message. *)
LEMMA QuietIs ==
    ASSUME Laws, Inv, ~aborted, Quiet, up' = up, down' = down, lost' = lost
    PROVE  Calm /\ Apart
  <1>1. cache' = cache /\ acked' = acked /\ discarded' = discarded
    BY DEF Quiet
  <1> QED BY <1>1, QueuesCalm DEF Apart

(* broker_shutdown_cb() *)
LEMMA ModClosingStep ==
    ASSUME Laws, Inv, ModClosing
    PROVE  Inv' /\ (Keeping /\ ~closing' => Keeping') /\ FlushOk
  <1>1. /\ ~aborted /\ mod = "up" /\ mod' = "up" /\ closing' = TRUE /\ Quiet
        /\ up' = up /\ down' = down /\ db' = db /\ dump' = dump /\ fails' = fails
        /\ unloads' = unloads /\ lost' = lost
    BY DEF ModClosing, ModGoes
  <1>2. Usual
    BY <1>1, UsualIs
  <1>3. Calm /\ Apart
    BY <1>1, QuietIs
  <1>4. TypeOK'
    <2>1. closing' \in BOOLEAN
      BY <1>1
    <2> QED BY <1>1, <1>2, <2>1 DEF TypeOK, Quiet, Usual
  <1>5. Living'
    <2>1. Asked'
      BY <1>1, <1>2 DEF Asked, Usual, Living
    <2> QED BY <1>1, <1>2, <2>1 DEF Living, Usual, Quiet
  <1> QED BY <1>1, <1>3, <1>4, <1>5, ModuleCalm

(* mod_main(): the service is registered *)
LEMMA ModRegisterStep ==
    ASSUME Laws, Inv, ModRegister
    PROVE  Inv' /\ (Keeping /\ ~closing' => Keeping') /\ FlushOk
  <1>1. /\ ~aborted /\ mod = "loading" /\ mod' = "up" /\ Module \notin waiting /\ Quiet
        /\ up' = up /\ down' = down /\ db' = db /\ dump' = dump /\ fails' = fails
        /\ unloads' = unloads /\ closing' = closing /\ lost' = lost
    BY DEF ModRegister, ModGoes
  <1>2. Usual
    BY <1>1, UsualIs
  <1>3. Calm /\ Apart
    BY <1>1, QuietIs
  <1>4. TypeOK'
    BY <1>1, <1>2 DEF TypeOK, Quiet, Life, Usual
  <1>5. Living'
    <2>1. up'[Module] = <<>> /\ Oks(down'[0]) = {}
      BY <1>1, <1>2 DEF Usual
    <2>2. Asked'
      BY <1>1, <2>1 DEF Asked
    <2> QED BY <1>1, <1>2, <2>1, <2>2 DEF Living, Usual, Quiet
  <1>6. Backed \subseteq Backed'
    BY <1>1 DEF Backed
  <1> QED BY <1>1, <1>3, <1>4, <1>5, <1>6, ModuleCalm

(* shutdown_cb(): the blobs of the database are returned *)
LEMMA ModDumpStep ==
    ASSUME Laws, Inv, ModDump
    PROVE  Inv' /\ (Keeping /\ ~closing' => Keeping') /\ FlushOk
  <1>1. CASE /\ ModGoes("stopping", "dumping") /\ Module \notin waiting
             /\ dump' = IF closing THEN {} ELSE db
             /\ Quiet /\ UNCHANGED <<up, down, db, closing, fails, unloads, lost>>
    <2>1. /\ ~aborted /\ mod = "stopping" /\ mod' = "dumping" /\ Module \notin waiting /\ Quiet
          /\ up' = up /\ down' = down /\ db' = db /\ fails' = fails
          /\ unloads' = unloads /\ closing' = closing /\ lost' = lost
          /\ dump' \subseteq db /\ (~closing => dump' = db)
      BY <1>1 DEF ModGoes
    <2>2. Usual
      BY <2>1, UsualIs
    <2>3. Calm /\ Apart
      BY <2>1, QuietIs
    <2>4. TypeOK'
      BY <2>1, <2>2 DEF TypeOK, Quiet, Life, Usual
    <2>5. up[Module] = <<>> /\ Oks(down'[0]) = {} /\ ~backing
      <3>1. up[Module] = <<>> /\ Oks(down'[0]) = {}
        BY <2>1, <2>2 DEF Usual
      <3>2. \A x : <<x>> # <<>>
        BY SMTT(60)
      <3>3. ~backing
        BY <2>1, <2>2, <3>1, <3>2 DEF Usual, Living, Asked
      <3> QED BY <3>1, <3>3
    <2>6. Living'
      <3>1. Asked'
        BY <2>1, <2>5 DEF Asked, Quiet
      <3> QED BY <2>1, <2>2, <2>5, <3>1 DEF Living, Usual, Quiet
    <2>7. ~closing' => Backed \subseteq Backed'
      BY <2>1 DEF Backed
    <2> QED BY <2>1, <2>3, <2>4, <2>6, <2>7, ModuleCalm
  <1>2. CASE /\ ModGoes("dumping", "dumping")
             /\ \E b \in dump : dump' = dump \ {b} /\ Send(Module, Req("store", b))
             /\ UNCHANGED <<reqs, db, closing, fails, unloads, lost>>
    <2>1. /\ ~aborted /\ mod = "dumping" /\ mod' = "dumping"
          /\ reqs' = reqs /\ db' = db /\ fails' = fails /\ unloads' = unloads
          /\ closing' = closing /\ lost' = lost
      BY <1>2 DEF ModGoes
    <2>2. PICK b \in dump : dump' = dump \ {b} /\ Send(Module, Req("store", b))
      BY <1>2
    <2>3. Usual
      BY <2>1, UsualIs
    <2>4. b \in Blob /\ b \in db
      BY <2>3 DEF Usual, TypeOK
    <2>5. Req("store", b) \in Request
      BY <2>4, ReqIs
    <2>6. Calm /\ Apart /\ Sent(Module, Req("store", b)) /\ up'[Module] = <<Req("store", b)>>
          /\ down'[0] = down[0]
      BY <2>1, <2>2, <2>5, ModSendIs
    <2>7. TypeOK'
      BY <2>1, <2>2, <2>3, <2>6 DEF TypeOK, Sent, Life, Usual
    <2>8. Living'
      <3>1. ~backing'
        BY <2>1, <2>3, <2>6 DEF Usual, Living, Asked, Sent
      <3>2. Asked'
        BY <2>1, <2>4, <2>6, <3>1 DEF Asked
      <3>3. Oks(down'[0]) = {} /\ dump' \subseteq db'
        BY <2>1, <2>2, <2>3, <2>6 DEF Usual
      <3>4. cache' = cache /\ Module \in waiting'
        BY <2>6 DEF Sent
      <3> QED BY <2>1, <2>3, <3>2, <3>3, <3>4 DEF Living, Usual
    <2>9. Backed \subseteq Backed'
      <3>1. up[Module] = <<>>
        BY <2>3, <2>6 DEF Usual, Sent
      <3>2. DOMAIN <<>> = {} /\ \A x : 1 \in DOMAIN <<x>> /\ <<x>>[1] = x
        BY SMTT(60)
      <3>3. Backed = dump
        BY <2>1, <3>1, <3>2 DEF Backed
      <3>4. Req("store", b).b = b
        BY DEF Req
      <3> DEFINE z == Req("store", b)
      <3>5. up'[Module] = <<z>> /\ z.b = b
        BY <2>6, <3>4
      <3> HIDE DEF z
      <3>6. b \in {up'[Module][i].b : i \in DOMAIN up'[Module]}
        <4>1. 1 \in DOMAIN up'[Module] /\ up'[Module][1].b = b
          BY <3>2, <3>5
        <4> QED BY <4>1
      <3>7. Backed' = dump' \cup {up'[Module][i].b : i \in DOMAIN up'[Module]}
        BY <2>1 DEF Backed
      <3> QED BY <2>2, <3>3, <3>6, <3>7
    <2> QED BY <2>1, <2>6, <2>7, <2>8, <2>9, ModuleCalm
  <1> QED BY <1>1, <1>2 DEF ModDump

(* Messages of two queues put together are counted in each. *)
LEMMA JoinCounted ==
    ASSUME NEW M, Counting(M), NEW p \in Seq(M), NEW q \in Seq(M)
    PROVE  \A op, b : Count(p \o q, op, b) = Count(p, op, b) + Count(q, op, b)
  <1>1. \A x, y \in Seq(M) : \A op, b : Count(x \o y, op, b) = Count(x, op, b) + Count(y, op, b)
    BY DEF Counting
  <1> QED BY <1>1

(* Only the queues to and from the module change. *)
LEMMA FirstCalm ==
    ASSUME Quiet, \A x \in Node \ {0} : up'[x] = up[x] /\ down'[x] = down[x],
           \A op \in {"load", "store"}, b \in Blob :
             Moving(0, op, b)' + Lost(0, op, b)' = Moving(0, op, b) + Lost(0, op, b)
    PROVE  Calm /\ Apart
  <1>1. cache' = cache /\ acked' = acked /\ discarded' = discarded
    BY DEF Quiet
  <1>2. Apart
    BY <1>1, NodesAre DEF Apart
  <1>3. ASSUME NEW x \in Rank, NEW op \in {"load", "store"}, NEW b \in Blob
        PROVE  Moving(x, op, b)' + Lost(x, op, b)' = Moving(x, op, b) + Lost(x, op, b)
    <2>1. CASE x = 0
      BY <2>1
    <2>2. CASE x # 0
      <3>1. up'[x] = up[x] /\ down'[x] = down[x]
        BY <2>2, NodesAre
      <3>2. Moving(x, op, b)' = Moving(x, op, b) /\ Lost(x, op, b)' = Lost(x, op, b)
        BY <2>2, <3>1 DEF Moving, Lost
      <3> QED BY <3>2
    <2> QED BY <2>1, <2>2
  <1> QED BY <1>1, <1>2, <1>3 DEF Calm

(* A request consists of its fields. *)
LEMMA RequestIs ==
    ASSUME NEW m \in Request, NEW op, NEW b PROVE Fits(m, op, b) <=> m = Req(op, b)
  BY SMTT(60) DEF Request, Req, Fits

(* module_thread() after mod_main() *)
LEMMA ModExitStep ==
    ASSUME Laws, Inv, ModExit
    PROVE  Inv' /\ (Keeping /\ ~closing' => Keeping') /\ FlushOk
  <1>1. /\ ~aborted /\ mod = "drained" /\ mod' = "out" /\ Quiet
        /\ up' = [up EXCEPT ![0] = <<>>] /\ down' = down /\ db' = db /\ dump' = dump
        /\ fails' = fails /\ unloads' = unloads /\ closing' = closing
        /\ lost' = lost \cup {up[0][i] : i \in DOMAIN up[0]}
    BY DEF ModExit, ModGoes
  <1>2. Usual
    BY <1>1, UsualIs
  <1>3. up \in [Node -> Seq(Request)] /\ <<>> \in Seq(Request) /\ 0 \in Node
    <2>1. <<>> \in Seq(Request)
      BY SMTT(60)
    <2> QED BY <1>2, <2>1, NodesAre DEF Usual, TypeOK
  <1>4. up' \in [Node -> Seq(Request)] /\ up'[0] = <<>> /\ \A x \in Node \ {0} : up'[x] = up[x]
    BY <1>1, <1>3
  <1>5. \A i \in DOMAIN up[0] : up[0][i] \in Request
    <2>1. up[0] \in Seq(Request)
      BY <1>3
    <2> QED BY SMTT(60), <2>1
  <1>6. TypeOK'
    BY <1>1, <1>2, <1>4, <1>5 DEF TypeOK, Quiet, Life, Usual
  <1>7. Calm /\ Apart
    <2>1. ASSUME NEW op \in {"load", "store"}, NEW b \in Blob
          PROVE  Moving(0, op, b)' + Lost(0, op, b)' = Moving(0, op, b) + Lost(0, op, b)
      <3> DEFINE u == Count(up[0], op, b)
                 d == Count(down[0], op, b)
                 p == Pending(cache[0], op, b)
      <3>1. u \in Nat /\ d \in Nat
        BY <1>2, MovingIs, NodesAre DEF Usual
      <3>2. u + d + Lost(0, op, b) = p
        <4>1. Single(0, op, b)
          BY <1>1, NodesAre DEF Inv, Sound, Singles
        <4>2. u + d + 0 + Lost(0, op, b) = p
          BY <4>1 DEF Single, Moving, Above
        <4> HIDE DEF u, d, p
        <4>3. u + d + 0 = u + d
          BY SMTT(60), <3>1
        <4> QED BY <4>2, <4>3
      <3>3. Lost(0, op, b) \in {0, 1} /\ p \in {0, 1}
        BY DEF Lost, Pending, Bit
      <3>4. u = 0 <=> \A i \in DOMAIN up[0] : ~Fits(up[0][i], op, b)
        BY <1>3 DEF Laws, Counting
      <3>5. u = 0 <=> \A i \in DOMAIN up[0] : up[0][i] # Req(op, b)
        <4>1. ASSUME NEW i \in DOMAIN up[0] PROVE Fits(up[0][i], op, b) <=> up[0][i] = Req(op, b)
          <5>1. up[0][i] \in Request
            BY <1>5
          <5> QED BY SMTT(60), <5>1, RequestIs
        <4>2. (\A i \in DOMAIN up[0] : ~Fits(up[0][i], op, b))
                 <=> (\A i \in DOMAIN up[0] : up[0][i] # Req(op, b))
          BY <4>1
        <4> HIDE DEF u
        <4> QED BY <3>4, <4>2
      <3>6. /\ u = 0 => Lost(0, op, b)' = Lost(0, op, b)
            /\ u # 0 => Lost(0, op, b)' = 1
        BY <1>1, <3>5 DEF Lost
      <3>7. Count(up'[0], op, b) = 0 /\ Count(down'[0], op, b) = d
        BY <1>1, <1>4, NoneCounted
      <3> HIDE DEF u, d, p
      <3>8. 0 + d + Lost(0, op, b)' = u + d + Lost(0, op, b)
        BY SMTT(60), <3>1, <3>2, <3>3, <3>6
      <3> QED BY <3>7, <3>8 DEF Moving, u, d
    <2> QED BY <1>1, <1>4, <2>1, FirstCalm
  <1>8. up'[Module] = up[Module] /\ up[Module] = <<>> /\ ~backing
    <2>1. up'[Module] = up[Module]
      BY <1>4, NodesAre
    <2> QED BY <1>1, <1>2, <2>1 DEF Usual, Living, Asked
  <1>9. Living'
    <2>1. Asked'
      BY <1>1, <1>8 DEF Asked, Quiet
    <2>2. Oks(down'[0]) = {}
      BY <1>1, <1>2 DEF Usual
    <2> QED BY <1>1, <1>2, <1>8, <2>1, <2>2 DEF Living, Usual, Quiet
  <1>10. Backed \subseteq Backed'
    BY <1>1, <1>8 DEF Backed
  <1> QED BY <1>1, <1>6, <1>7, <1>9, <1>10, ModuleCalm

(* module_thread() answers the requests left in the queue with ENOSYS *)
LEMMA ModDrainStep ==
    ASSUME Laws, Inv, ModDrain
    PROVE  Inv' /\ (Keeping /\ ~closing' => Keeping') /\ FlushOk
  <1>1. /\ ~aborted /\ mod = "dumping" /\ mod' = "drained" /\ Quiet /\ Module \notin waiting
        /\ dump = {} /\ down' = [down EXCEPT ![0] = @ \o Refused(up[0])]
        /\ up' = [up EXCEPT ![0] = <<>>] /\ db' = db /\ dump' = dump
        /\ fails' = fails /\ unloads' = unloads /\ closing' = closing /\ lost' = lost
    BY DEF ModDrain, ModGoes, Refused
  <1>2. Usual
    BY <1>1, UsualIs
  <1>3. /\ up \in [Node -> Seq(Request)] /\ down \in [Node -> Seq(Response)]
        /\ <<>> \in Seq(Request) /\ 0 \in Node
        /\ up[0] \in Seq(Request) /\ down[0] \in Seq(Response)
    <2>1. <<>> \in Seq(Request)
      BY SMTT(60)
    <2> QED BY <1>2, <2>1, NodesAre DEF Usual, TypeOK
  <1>4. /\ Refused(up[0]) \in Seq(Response) /\ Oks(Refused(up[0])) = {}
        /\ \A op, b : Count(Refused(up[0]), op, b) = Count(up[0], op, b)
    BY <1>3, RefusedIs
  <1>5. down[0] \o Refused(up[0]) \in Seq(Response)
    BY <1>3, <1>4, ConcatIs
  <1>6. /\ up' \in [Node -> Seq(Request)] /\ up'[0] = <<>>
        /\ \A x \in Node \ {0} : up'[x] = up[x] /\ down'[x] = down[x]
        /\ down' \in [Node -> Seq(Response)] /\ down'[0] = down[0] \o Refused(up[0])
    BY <1>1, <1>3, <1>5
  <1>7. TypeOK'
    BY <1>1, <1>2, <1>6 DEF TypeOK, Quiet, Life, Usual
  <1>8. Calm /\ Apart
    <2>1. ASSUME NEW op, NEW b PROVE Moving(0, op, b)' = Moving(0, op, b)
      <3>1. Count(up[0], op, b) \in Nat /\ Count(down[0], op, b) \in Nat
        BY <1>2, MovingIs, NodesAre DEF Usual
      <3>2. Count(up'[0], op, b) = 0
        BY <1>6, NoneCounted
      <3>3. Count(down'[0], op, b) = Count(down[0], op, b) + Count(up[0], op, b)
        <4>1. Count(down[0] \o Refused(up[0]), op, b)
                = Count(down[0], op, b) + Count(Refused(up[0]), op, b)
          <5>1. Counting(Response)
            BY DEF Laws
          <5>2. \A o, c : Count(down[0] \o Refused(up[0]), o, c)
                           = Count(down[0], o, c) + Count(Refused(up[0]), o, c)
            <6>1. down[0] \in Seq(Response) /\ Refused(up[0]) \in Seq(Response)
              BY <1>3, <1>4
            <6> QED BY <5>1, <6>1, JoinCounted
          <5> QED BY <5>2
        <4> QED BY <1>4, <1>6, <4>1
      <3>4. Count(up'[0], op, b) + Count(down'[0], op, b) = Count(up[0], op, b) + Count(down[0], op, b)
        BY SMTT(60), <3>1, <3>2, <3>3
      <3> QED BY <3>4 DEF Moving
    <2>2. \A op, b : Lost(0, op, b)' = Lost(0, op, b)
      BY <1>1 DEF Lost
    <2> QED BY <1>1, <1>6, <2>1, <2>2, FirstCalm
  <1>9. up'[Module] = up[Module] /\ up[Module] = <<>> /\ ~backing
    <2>1. up'[Module] = up[Module]
      BY <1>6, NodesAre
    <2> QED BY <1>1, <1>2, <2>1 DEF Usual, Living, Asked
  <1>10. Living'
    <2>1. Asked'
      BY <1>1, <1>9 DEF Asked, Quiet
    <2>2. Oks(down'[0]) = {}
      <3>1. Oks(down[0]) = {}
        BY <1>1, <1>2 DEF Usual
      <3>2. Oks(down[0] \o Refused(up[0])) = Oks(down[0]) \cup Oks(Refused(up[0]))
        BY <1>3, <1>4, OksConcat
      <3> QED BY <1>4, <1>6, <3>1, <3>2
    <2> QED BY <1>1, <1>2, <1>9, <2>1, <2>2 DEF Living, Usual, Quiet
  <1>11. Backed \subseteq Backed'
    BY <1>1, <1>9 DEF Backed
  <1> QED BY <1>1, <1>7, <1>8, <1>10, <1>11, ModuleCalm

(* load_cb(), store_cb() *)
LEMMA ModServeStep ==
    ASSUME Laws, Inv, ModServe
    PROVE  Inv' /\ (Keeping /\ ~closing' => Keeping') /\ FlushOk
  <1> DEFINE m == Head(up[0])
             t(e) == Rsp(m.op, m.b, e)
  <1>1. /\ ~aborted /\ mod = "up" /\ mod' = "up" /\ up[0] # <<>> /\ up' = Taken(up, 0) /\ Quiet
        /\ dump' = dump /\ unloads' = unloads /\ closing' = closing /\ lost' = lost
    BY DEF ModServe, ModGoes
  <1>2. Usual
    BY <1>1, UsualIs
  <1>3. /\ up \in [Node -> Seq(Request)] /\ down \in [Node -> Seq(Response)] /\ 0 \in Node
        /\ up[0] \in Seq(Request) /\ down[0] \in Seq(Response)
    BY <1>2, NodesAre DEF Usual, TypeOK
  <1>4. m \in Request /\ Tail(up[0]) \in Seq(Request)
    BY <1>1, <1>3, TailIs
  <1>5. \E e \in Errnum :
          /\ down' = [down EXCEPT ![0] = Append(@, t(e))]
          /\ fails' \in 0 .. MaxFail
          /\ db' = db \/ (db' = db \cup {m.b} /\ m.op = "store")
          /\ e = "ok" => m.b \in db'
    <2>1. fails \in 0 .. MaxFail
      BY <1>2 DEF Usual, TypeOK
    <2>2. CASE /\ m.op = "load" /\ UNCHANGED <<db, fails>>
               /\ down' = [down EXCEPT ![0] = Append(@, t(IF m.b \in db THEN "ok" ELSE "ENOENT"))]
      <3> DEFINE e == IF m.b \in db THEN "ok" ELSE "ENOENT"
      <3>1. e \in Errnum
        BY DEF Errnum
      <3>2. down' = [down EXCEPT ![0] = Append(@, t(e))] /\ (e = "ok" => m.b \in db')
        BY <2>2
      <3> HIDE DEF e, m
      <3> QED BY <2>1, <2>2, <3>1, <3>2
    <2>3. CASE m.op = "store" /\ db' = db \cup {m.b} /\ UNCHANGED fails
               /\ down' = [down EXCEPT ![0] = Append(@, t("ok"))]
      <3>1. "ok" \in Errnum
        BY DEF Errnum
      <3> HIDE DEF m
      <3> QED BY <2>1, <2>3, <3>1
    <2>4. CASE fails < MaxFail /\ fails' = fails + 1 /\ UNCHANGED db
               /\ down' = [down EXCEPT ![0] = Append(@, t("EIO"))]
      <3>1. "EIO" \in Errnum /\ "EIO" # "ok"
        BY DEF Errnum
      <3>2. fails' \in 0 .. MaxFail
        <4>1. MaxFail \in Nat
          BY LimitAssumption
        <4> QED BY SMTT(60), <2>1, <2>4, <4>1
      <3> HIDE DEF m
      <3> QED BY <2>4, <3>1, <3>2
    <2> QED BY <2>2, <2>3, <2>4 DEF ModServe
  <1>6. PICK e \in Errnum :
          /\ down' = [down EXCEPT ![0] = Append(@, t(e))]
          /\ fails' \in 0 .. MaxFail
          /\ db' = db \/ (db' = db \cup {m.b} /\ m.op = "store")
          /\ e = "ok" => m.b \in db'
    BY <1>5
  <1> DEFINE z == Rsp(m.op, m.b, e)
  <1>7. z \in Response
    <2>1. \/ m.op \in {"load", "store"} /\ m.b \in Blob
          \/ m.op \in {"flush", "on", "off"} /\ m.b = NoBlob
      BY <1>4 DEF Request
    <2> HIDE DEF m
    <2>2. CASE m.op \in {"load", "store"} /\ m.b \in Blob
      BY <2>2, RspIs
    <2>3. CASE m.op \in {"flush", "on", "off"} /\ m.b = NoBlob
      BY <2>3, RspIs
    <2> QED BY <2>1, <2>2, <2>3
  <1>8. /\ \A op, b : Fits(z, op, b) <=> Fits(m, op, b)
        /\ z.b = m.b /\ z.err = e
    <2> HIDE DEF m
    <2>1. ASSUME NEW op, NEW b PROVE Fits(z, op, b) <=> Fits(m, op, b)
      <3>1. Fits(Rsp(m.op, m.b, e), op, b) <=> m.op = op /\ m.b = b
        BY SMTT(60), RspFits
      <3> QED BY <3>1 DEF Fits
    <2>2. z.b = m.b /\ z.err = e
      BY DEF Rsp
    <2> QED BY <2>1, <2>2
  <1>9. down' = [down EXCEPT ![0] = Append(@, z)]
    BY <1>6
  <1> HIDE DEF z
  <1>10. /\ up' \in [Node -> Seq(Request)] /\ up'[0] = Tail(up[0])
         /\ \A x \in Node \ {0} : up'[x] = up[x] /\ down'[x] = down[x]
         /\ down' \in [Node -> Seq(Response)] /\ down'[0] = Append(down[0], z)
    <2>1. Append(down[0], z) \in Seq(Response)
      BY SMTT(60), <1>3, <1>7
    <2> QED BY <1>1, <1>3, <1>4, <1>9, <2>1 DEF Taken
  <1>11. Longer(down'[0], down[0], z)
    BY <1>3, <1>7, <1>10, AppendIs
  <1>12. m.op = "store" => m.b \in Blob /\ m.b \notin Huge
    <2>1. CASE m.op = "store"
      <3>1. m.b \in Blob
        BY <1>4, <2>1, MessageIs
      <3>2. Fits(m, "store", m.b)
        BY <2>1 DEF Fits
      <3>3. Pending(cache[0], "store", m.b) = 1
        <4>1. TypeOK /\ Singles /\ 0 \in Rank
          BY <1>1, NodesAre DEF Inv, Sound
        <4> QED BY <1>1, <3>1, <3>2, <4>1, OneMoves
      <3>4. m.b \in cache[0].storing
        BY SMTT(60), <3>3 DEF Pending, Bit
      <3>5. Counted(cache[0], 0)
        BY <1>1, NodesAre DEF Inv, Sound
      <3> QED BY <1>2, <3>1, <3>4, <3>5 DEF Counted, Usual
    <2> QED BY <2>1
  <1>13. db' \subseteq Blob /\ db \subseteq db' /\ db' \cap Huge = {}
    BY <1>2, <1>6, <1>12 DEF Usual, TypeOK
  <1>14. TypeOK'
    BY <1>1, <1>2, <1>6, <1>10, <1>13 DEF TypeOK, Quiet, Life, Usual
  <1>15. Calm /\ Apart
    <2>1. ASSUME NEW op, NEW b PROVE Moving(0, op, b)' = Moving(0, op, b)
      <3>1. Count(up[0], op, b) \in Nat /\ Count(down[0], op, b) \in Nat
        BY <1>2, MovingIs, NodesAre DEF Usual
      <3>2. Count(up[0], op, b) = Count(up'[0], op, b) + Bit(Fits(m, op, b))
        <4>1. Counting(Request)
          BY DEF Laws
        <4>2. Count(up[0], op, b) = Count(Tail(up[0]), op, b) + Bit(Fits(Head(up[0]), op, b))
          BY <1>1, <1>3, <4>1, TailCounted
        <4> QED BY <1>10, <4>2
      <3>3. Count(down'[0], op, b) = Count(down[0], op, b) + Bit(Fits(m, op, b))
        <4>1. Counting(Response) /\ <<z>> \in Seq(Response)
          <5>1. <<z>> \in Seq(Response)
            BY SMTT(60), <1>7
          <5> QED BY <5>1 DEF Laws
        <4>2. Count(down[0] \o <<z>>, op, b) = Count(down[0], op, b) + Count(<<z>>, op, b)
          <5>1. \A o, c : Count(down[0] \o <<z>>, o, c) = Count(down[0], o, c) + Count(<<z>>, o, c)
            BY <1>3, <4>1, JoinCounted
          <5> QED BY <5>1
        <4>3. Count(<<z>>, op, b) = Bit(Fits(z, op, b))
          BY <1>7, OneCounted
        <4>4. Fits(z, op, b) <=> Fits(m, op, b)
          BY <1>8
        <4>5. Bit(Fits(z, op, b)) = Bit(Fits(m, op, b))
          <5> HIDE DEF m
          <5> QED BY <4>4 DEF Bit
        <4>6. down'[0] = down[0] \o <<z>>
          BY <1>11 DEF Longer
        <4> QED BY <4>2, <4>3, <4>5, <4>6
      <3>4. Count(up'[0], op, b) \in Nat /\ Bit(Fits(m, op, b)) \in Nat
        <4>1. Count(Tail(up[0]), op, b) \in Nat
          BY <1>4 DEF Laws, Counting
        <4> QED BY <1>10, <4>1 DEF Bit
      <3>5. Count(up'[0], op, b) + Count(down'[0], op, b) = Count(up[0], op, b) + Count(down[0], op, b)
        <4> HIDE DEF m
        <4> QED BY SMTT(60), <3>1, <3>2, <3>3, <3>4
      <3> QED BY <3>5 DEF Moving
    <2>2. \A op, b : Lost(0, op, b)' = Lost(0, op, b)
      BY <1>1 DEF Lost
    <2> QED BY <1>1, <1>10, <2>1, <2>2, FirstCalm
  <1>16. up'[Module] = up[Module] /\ up[Module] = <<>>
    <2>1. up'[Module] = up[Module]
      BY <1>10, NodesAre
    <2> QED BY <1>1, <1>2, <2>1 DEF Usual, Living, Asked
  <1>17. Living'
    <2>1. Asked'
      BY <1>1, <1>16 DEF Asked
    <2>2. Oks(down'[0]) \subseteq db'
      <3>1. ASSUME NEW b \in Oks(down'[0]) PROVE b \in db'
        <4>1. PICK i \in DOMAIN down'[0] : down'[0][i].b = b /\ down'[0][i].err = "ok"
          BY <3>1 DEF Oks
        <4>2. b \in Blob
          BY <3>1 DEF Oks
        <4>3. CASE down'[0][i] = z
          <5>1. m.b = b /\ e = "ok"
            BY <1>8, <4>1, <4>3
          <5> QED BY <1>6, <5>1
        <4>4. CASE \E j \in DOMAIN down[0] : down'[0][i] = down[0][j]
          <5>1. b \in Oks(down[0])
            BY <4>1, <4>2, <4>4 DEF Oks
          <5> QED BY <1>2, <1>13, <5>1 DEF Usual
        <4> QED BY <1>11, <4>3, <4>4 DEF Longer
      <3> QED BY <3>1
    <2>3. /\ cache' = cache /\ dump' = {} /\ dump' \subseteq db'
      BY <1>1, <1>2 DEF Quiet, Usual
    <2> QED BY <1>1, <1>2, <1>13, <1>16, <2>1, <2>2, <2>3 DEF Living, Usual
  <1>18. Backed \subseteq Backed'
    BY <1>1, <1>13 DEF Backed
  <1> QED BY <1>1, <1>14, <1>15, <1>17, <1>18, ModuleCalm

-----------------------------------------------------------------------------
(* The steps together *)

(* Nothing happens after an assertion has failed. *)
LEMMA Alive ==
    ASSUME Next PROVE ~aborted
  <1>1. ASSUME NEW c \in Client, ClientSend(c) PROVE ~aborted
    BY <1>1 DEF ClientSend, Send
  <1>2. ASSUME NEW r \in Rank, Handle(r) PROVE ~aborted
    <2>1. ASSUME NEW n \in Node, LoadRequest(r, n) \/ StoreRequest(r, n) \/ FlushRequest(r, n)
          PROVE  ~aborted
      BY <2>1 DEF LoadRequest, StoreRequest, FlushRequest, Asks
    <2>2. ASSUME LoadResponse(r) \/ StoreResponse(r) PROVE ~aborted
      BY <2>2 DEF LoadResponse, StoreResponse, Hears
    <2> QED BY <1>2, <2>1, <2>2 DEF Handle
  <1>3. ASSUME NEW r \in Rank, Drop(r) PROVE ~aborted
    BY <1>3 DEF Drop
  <1>4. ASSUME BackingRequest \/ ModLoad \/ ModClosing \/ ModStop PROVE ~aborted
    BY <1>4 DEF BackingRequest, ModLoad, ModClosing, ModStop, ModGoes, Asks
  <1>5. ASSUME ModRun PROVE ~aborted
    BY <1>5 DEF ModRun, ModRegister, ModServe, ModDump, ModDrain, ModExit, ModGoes
  <1> QED BY <1>1, <1>2, <1>3, <1>4, <1>5 DEF Next

(* A session that ends does not come back. *)
LEMMA Ending ==
    ASSUME Next, closing PROVE closing'
  <1>1. ASSUME NEW c \in Client, ClientSend(c) PROVE closing'
    BY <1>1 DEF ClientSend, modVars
  <1>2. ASSUME NEW r \in Rank, Handle(r) PROVE closing'
    <2>1. ASSUME NEW n \in Node, LoadRequest(r, n) \/ StoreRequest(r, n) \/ FlushRequest(r, n)
          PROVE  closing'
      BY <2>1 DEF LoadRequest, StoreRequest, FlushRequest, Rest, modVars
    <2>2. ASSUME LoadResponse(r) \/ StoreResponse(r) PROVE closing'
      BY <2>2 DEF LoadResponse, StoreResponse, Rest, modVars
    <2> QED BY <1>2, <2>1, <2>2 DEF Handle
  <1>3. ASSUME NEW r \in Rank, Drop(r) PROVE closing'
    BY <1>3 DEF Drop, modVars
  <1>4. ASSUME BackingRequest \/ ModLoad \/ ModClosing \/ ModStop PROVE closing'
    BY <1>4 DEF BackingRequest, ModLoad, ModClosing, ModStop, modVars
  <1>5. ASSUME ModRun PROVE closing'
    BY <1>5 DEF ModRun, ModRegister, ModServe, ModDump, ModDrain, ModExit
  <1> QED BY <1>1, <1>2, <1>3, <1>4, <1>5 DEF Next

(* What every step preserves. *)
Preserved == Inv' /\ (Keeping => (~closing' => Keeping') /\ FlushOk)

(* Every action does that, by the lemma on its handler. *)
LEMMA NextStep ==
    ASSUME Laws, Inv, Next PROVE Preserved
  <1> USE DEF Preserved
  <1>1. ASSUME NEW c \in Client, ClientSend(c) PROVE Preserved
    BY <1>1, ClientSendStep
  <1>2. ASSUME NEW r \in Rank, NEW n \in Node, LoadRequest(r, n) PROVE Preserved
    BY <1>2, LoadRequestStep
  <1>3. ASSUME NEW r \in Rank, NEW n \in Node, StoreRequest(r, n) PROVE Preserved
    BY <1>3, StoreRequestStep
  <1>4. ASSUME NEW r \in Rank, NEW n \in Node, FlushRequest(r, n) PROVE Preserved
    BY <1>4, FlushRequestStep
  <1>5. ASSUME NEW r \in Rank, LoadResponse(r) PROVE Preserved
    BY <1>5, LoadResponseStep
  <1>6. ASSUME NEW r \in Rank, StoreResponse(r) PROVE Preserved
    BY <1>6, StoreResponseStep
  <1>7. ASSUME NEW r \in Rank, Drop(r) PROVE Preserved
    BY <1>7, DropStep
  <1>8. ASSUME BackingRequest PROVE Preserved
    BY <1>8, BackingRequestStep
  <1>9. ASSUME ModLoad PROVE Preserved
    BY <1>9, ModLoadStep
  <1>10. ASSUME ModStop PROVE Preserved
    BY <1>10, ModStopStep
  <1>11. ASSUME ModRegister PROVE Preserved
    BY <1>11, ModRegisterStep
  <1>12. ASSUME ModServe PROVE Preserved
    BY <1>12, ModServeStep
  <1>13. ASSUME ModDump PROVE Preserved
    BY <1>13, ModDumpStep
  <1>14. ASSUME ModDrain PROVE Preserved
    BY <1>14, ModDrainStep
  <1>15. ASSUME ModExit PROVE Preserved
    BY <1>15, ModExitStep
  <1>18. ASSUME ModClosing PROVE Preserved
    BY <1>18, ModClosingStep
  <1> HIDE DEF Preserved
  <1>16. ASSUME NEW r \in Rank, Handle(r) PROVE Preserved
    BY <1>2, <1>3, <1>4, <1>5, <1>6, <1>16 DEF Handle
  <1>17. ASSUME ModRun PROVE Preserved
    BY <1>11, <1>12, <1>13, <1>14, <1>15, <1>17 DEF ModRun
  <1> QED BY <1>1, <1>7, <1>8, <1>9, <1>10, <1>16, <1>17, <1>18 DEF Next

(* Steps of other parts of the system. *)
LEMMA Stutter ==
    ASSUME UNCHANGED vars PROVE (Inv => Inv') /\ (Kept => Kept')
  <1>1. /\ cache' = cache /\ backing' = backing /\ up' = up /\ down' = down
        /\ waiting' = waiting /\ reqs' = reqs /\ mod' = mod /\ db' = db /\ dump' = dump
        /\ fails' = fails /\ unloads' = unloads /\ acked' = acked /\ aborted' = aborted
        /\ closing' = closing /\ lost' = lost /\ discarded' = discarded
    BY DEF vars, modVars
  <1>2. TypeOK => TypeOK'
    BY <1>1 DEF TypeOK
  <1>3. Routes => Routes'
    BY <1>1 DEF Routes
  <1>4. (\A r \in Rank : Counted(cache[r], r)) => \A r \in Rank : Counted(cache[r], r)'
    BY <1>1 DEF Counted
  <1>5. Singles => Singles'
    <2>1. ASSUME NEW x, NEW op, NEW b, Single(x, op, b) PROVE Single(x, op, b)'
      <3>1. Moving(x, op, b)' = Moving(x, op, b)
        BY <1>1 DEF Moving
      <3>2. Above(x, op, b)' = Above(x, op, b)
        BY <1>1 DEF Above
      <3>3. Pending(cache'[x], op, b) = Pending(cache[x], op, b)
        BY <1>1
      <3>4. Lost(x, op, b)' = Lost(x, op, b)
        BY <1>1 DEF Lost
      <3> QED BY <2>1, <3>1, <3>2, <3>3, <3>4 DEF Single
    <2> QED BY <2>1 DEF Singles
  <1>6. Living => Living'
    BY <1>1 DEF Living, Asked
  <1>7. Inv => Inv'
    BY <1>1, <1>2, <1>3, <1>4, <1>5, <1>6 DEF Inv, Sound
  <1>8. Kept => Kept'
    <2>1. Backed' = Backed
      BY <1>1 DEF Backed
    <2>2. Held' = Held
      BY <1>1, <2>1 DEF Held
    <2>3. (\A x : Good(x)' = Good(x)) /\ Safe' = Safe
      BY <1>1, <2>2 DEF Good, Safe, Climbing, Inner
    <2> QED BY <1>1, <2>1, <2>3 DEF Kept, Keeping
  <1> QED BY <1>7, <1>8

(* The caches are empty at first, and nothing is on its way. *)
LEMMA InitStep ==
    ASSUME Laws, Init PROVE Inv /\ Kept
  <1>1. /\ cache = [r \in Rank |-> EmptyCache] /\ ~backing
        /\ up = [n \in Node |-> <<>>] /\ down = [n \in Node |-> <<>>]
        /\ waiting = {} /\ reqs = 0 /\ mod = "out" /\ db = {} /\ dump = {}
        /\ fails = 0 /\ unloads = 0 /\ acked = {} /\ aborted = FALSE
        /\ closing = FALSE /\ lost = {} /\ discarded = {}
    BY DEF Init
  <1>2. /\ EmptyCache \in Cache /\ EmptyCache.valid = {} /\ EmptyCache.dirty = {}
        /\ EmptyCache.loading = {} /\ EmptyCache.storing = {} /\ EmptyCache.loadReq = {}
        /\ EmptyCache.storeReq = {} /\ EmptyCache.flushReq = {}
        /\ EmptyCache.acct = 0 /\ EmptyCache.batch = 0
    BY SMTT(60) DEF EmptyCache, Cache
  <1>3. /\ \A r \in Rank : cache[r] = EmptyCache
        /\ \A x \in Node : up[x] = <<>> /\ down[x] = <<>>
        /\ 0 \in Rank /\ 0 \in Node /\ Module \in Node /\ Rank \subseteq Node
    BY <1>1, NodesAre DEF Node
  <1>4. TypeOK
    <2>1. up \in [Node -> Seq(Request)] /\ down \in [Node -> Seq(Response)]
      BY SMTT(60), <1>1
    <2>2. reqs \in 0..MaxReq /\ fails \in 0..MaxFail /\ unloads \in 0..MaxUnload
      BY SMTT(60), <1>1, LimitAssumption
    <2>3. cache \in [Rank -> Cache] /\ mod \in Life /\ backing \in BOOLEAN
      <3>1. backing = FALSE
        BY DEF Init
      <3> QED BY <1>1, <1>2, <3>1 DEF Life
    <2> QED BY <1>1, <2>1, <2>2, <2>3 DEF TypeOK
  <1>5. Cardinality({}) = 0
    BY DEF Laws, Sizes
  <1>6. Routes
    BY <1>2, <1>3 DEF Routes
  <1>7. ASSUME NEW r \in Rank PROVE Counted(cache[r], r)
    <2>1. 0 <= Limit
      BY SMTT(60), LimitAssumption
    <2> QED BY <1>2, <1>3, <1>5, <2>1 DEF Counted
  <1>8. Singles
    <2>1. ASSUME NEW x \in Rank, NEW op \in {"load", "store"}, NEW b \in Blob
          PROVE  Single(x, op, b)
      <3>1. Count(up[x], op, b) = 0 /\ Count(down[x], op, b) = 0
        BY <1>3, NoneCounted
      <3>2. Moving(x, op, b) = 0
        BY SMTT(60), <3>1 DEF Moving
      <3>3. Above(x, op, b) = 0
        <4>1. CASE x = 0
          BY <4>1 DEF Above
        <4>2. CASE x # 0
          <5>1. cache[Parent[x]] = EmptyCache
            BY <1>3, <4>2, TreeAssumption
          <5> QED BY <1>2, <4>2, <5>1 DEF Above, Waits, Bit
        <4> QED BY <4>1, <4>2
      <3>4. Pending(cache[x], op, b) = 0
        BY <1>2, <1>3 DEF Pending, Bit
      <3>5. Lost(x, op, b) = 0
        BY <1>1 DEF Lost
      <3>6. 0 + 0 + 0 = 0
        BY SMTT(60)
      <3> QED BY <3>2, <3>3, <3>4, <3>5, <3>6 DEF Single
    <2> QED BY <2>1 DEF Singles
  <1>9. \A x \in Node : Oks(down[x]) = {}
    <2>1. DOMAIN <<>> = {}
      BY SMTT(60)
    <2> QED BY <1>3, <2>1 DEF Oks
  <1>10. Living
    <2>1. Asked
      BY <1>1, <1>3 DEF Asked
    <2> QED BY <1>1, <1>2, <1>3, <1>9, <2>1 DEF Living
  <1>11. Keeping
    <2>1. \A r \in Rank : Clean(cache[r]) = {}
      BY <1>2, <1>3 DEF Clean
    <2> QED BY <1>1, <1>3, <1>9, <2>1 DEF Keeping
  <1> QED BY <1>4, <1>6, <1>7, <1>8, <1>10, <1>11 DEF Inv, Sound, Kept

-----------------------------------------------------------------------------
(* The laws hold *)
INSTANCE FiniteSetTheorems

(* A function that takes no value twice. *)
LEMMA OneToOne ==
    ASSUME NEW S, NEW T, IsFiniteSet(S), NEW f \in [S -> T],
           \A t \in T : \E s \in S : f[s] = t,
           \A s, t \in S : f[s] = f[t] => s = t
    PROVE  IsFiniteSet(T) /\ Cardinality(T) = Cardinality(S)
  <1>1. f \in Injection(S, T)
    BY DEF Injection, IsInjective
  <1>2. f \in Surjection(S, T)
    BY DEF Surjection
  <1>3. ExistsBijection(S, T)
    BY <1>1, <1>2 DEF ExistsBijection, Bijection
  <1> QED BY <1>3, FS_Bijection

(* Two sets with nothing in common. *)
LEMMA Disjoint ==
    ASSUME NEW S, NEW T, IsFiniteSet(S), IsFiniteSet(T), S \cap T = {}
    PROVE  Cardinality(S \cup T) = Cardinality(S) + Cardinality(T)
  <1>1. Cardinality(S \cup T) = Cardinality(S) + Cardinality(T) - Cardinality(S \cap T)
    BY FS_Union
  <1>2. Cardinality(S \cap T) = 0
    BY FS_EmptySet
  <1>3. Cardinality(S) \in Nat /\ Cardinality(T) \in Nat
    BY FS_CardinalityType
  <1> QED BY SMTT(60), <1>1, <1>2, <1>3

(* The size of a set of blobs. *)
LEMMA SizesHold == Sizes
  <1>1. ASSUME NEW S \in SUBSET Blob
        PROVE  IsFiniteSet(S) /\ Cardinality(S) \in Nat
    <2>1. IsFiniteSet(S)
      BY BlobAssumption, FS_Subset
    <2> QED BY <2>1, FS_CardinalityType
  <1>2. ASSUME NEW S \in SUBSET Blob PROVE Cardinality(S) = 0 <=> S = {}
    BY <1>1, FS_EmptySet
  <1>3. ASSUME NEW S \in SUBSET Blob, NEW b \in Blob \ S
        PROVE  Cardinality(S \cup {b}) = Cardinality(S) + 1
    BY <1>1, FS_AddElement
  <1>4. ASSUME NEW S \in SUBSET Blob, NEW b \in S
        PROVE  Cardinality(S \ {b}) = Cardinality(S) - 1
    BY <1>1, FS_RemoveElement
  <1>5. ASSUME NEW S \in SUBSET Blob, NEW T \in SUBSET Blob, S \cap T = {}
        PROVE  Cardinality(S \cup T) = Cardinality(S) + Cardinality(T)
    BY <1>1, <1>5, Disjoint
  <1>6. ASSUME NEW S \in SUBSET Blob, NEW T \in SUBSET Blob
        PROVE  Cardinality(S \ T) = Cardinality(S) - Cardinality(T \cap S)
    <2>1. S \ T \in SUBSET Blob /\ T \cap S \in SUBSET Blob
      OBVIOUS
    <2>2. (S \ T) \cap (T \cap S) = {} /\ (S \ T) \cup (T \cap S) = S
      OBVIOUS
    <2>3. Cardinality(S) = Cardinality(S \ T) + Cardinality(T \cap S)
      BY <1>5, <2>1, <2>2
    <2>4. Cardinality(S \ T) \in Nat /\ Cardinality(T \cap S) \in Nat
      BY <1>1, <2>1
    <2> QED BY SMTT(60), <2>3, <2>4
  <1> QED BY <1>1, <1>2, <1>3, <1>4, <1>5, <1>6 DEF Sizes

(* Where in a queue the messages about b are. *)
Places(q, op, b) == {i \in DOMAIN q : q[i].op = op /\ q[i].b = b}

(* They are finitely many, and Count() is their number. *)
LEMMA PlacesAre ==
    ASSUME NEW M, NEW q \in Seq(M), NEW op, NEW b
    PROVE  /\ IsFiniteSet(Places(q, op, b)) /\ Cardinality(Places(q, op, b)) \in Nat
           /\ Count(q, op, b) = Cardinality(Places(q, op, b))
           /\ DOMAIN q = 1 .. Len(q) /\ Len(q) \in Nat
  <1>1. DOMAIN q = 1 .. Len(q) /\ Len(q) \in Nat
    BY SMTT(60)
  <1>2. IsFiniteSet(1 .. Len(q))
    <2>1. 1 \in Int /\ Len(q) \in Int
      BY SMTT(60), <1>1
    <2> QED BY <2>1, FS_Interval
  <1>3. Places(q, op, b) \in SUBSET (1 .. Len(q))
    BY <1>1 DEF Places
  <1>4. IsFiniteSet(Places(q, op, b))
    BY <1>2, <1>3, FS_Subset
  <1>5. Cardinality(Places(q, op, b)) \in Nat
    BY <1>4, FS_CardinalityType
  <1> QED BY <1>1, <1>4, <1>5 DEF Count, Places

(* Those of a queue of one message. *)
LEMMA OnePlace ==
    ASSUME NEW m, NEW op, NEW b
    PROVE  Count(<<m>>, op, b) = Bit(Fits(m, op, b))
  <1>1. DOMAIN <<m>> = {1} /\ <<m>>[1] = m
    BY SMTT(60)
  <1>2. CASE Fits(m, op, b)
    <2>1. Places(<<m>>, op, b) = {1}
      BY <1>1, <1>2 DEF Places, Fits
    <2>2. Cardinality({1}) = 1
      BY FS_Singleton
    <2>3. Bit(Fits(m, op, b)) = 1
      BY <1>2 DEF Bit
    <2> QED BY <2>1, <2>2, <2>3 DEF Count, Places
  <1>3. CASE ~Fits(m, op, b)
    <2>1. Places(<<m>>, op, b) = {}
      BY <1>1, <1>3 DEF Places, Fits
    <2>2. Cardinality({}) = 0
      BY FS_EmptySet
    <2>3. Bit(Fits(m, op, b)) = 0
      BY <1>3 DEF Bit
    <2> QED BY <2>1, <2>2, <2>3 DEF Count, Places
  <1> QED BY <1>2, <1>3

(* Those of two queues put together. *)
Added(p, q, op, b) == Count(p \o q, op, b) = Count(p, op, b) + Count(q, op, b)

(* The places of the second queue are shifted by the length of the first. *)
LEMMA PlacesJoined ==
    ASSUME NEW M, NEW p \in Seq(M), NEW q \in Seq(M), NEW op, NEW b
    PROVE  Added(p, q, op, b)
  <1> DEFINE P == Places(p, op, b)
             Q == Places(q, op, b)
             R == {i \in Places(p \o q, op, b) : i > Len(p)}
             f == [i \in Q |-> i + Len(p)]
  <1>1. /\ IsFiniteSet(P) /\ IsFiniteSet(Q)
        /\ DOMAIN p = 1 .. Len(p) /\ Len(p) \in Nat /\ DOMAIN q = 1 .. Len(q) /\ Len(q) \in Nat
    BY PlacesAre
  <1>2. /\ p \o q \in Seq(M) /\ DOMAIN (p \o q) = 1 .. (Len(p) + Len(q))
        /\ \A i \in 1 .. Len(p) : (p \o q)[i] = p[i]
        /\ \A i \in 1 .. Len(q) : (p \o q)[i + Len(p)] = q[i]
    BY SMTT(60), <1>1
  <1>3. \A i \in Q : i \in 1 .. Len(q) /\ q[i].op = op /\ q[i].b = b
    BY <1>1 DEF Places
  <1>4. \A i \in 1 .. Len(q) : /\ i + Len(p) \in 1 .. (Len(p) + Len(q)) /\ i + Len(p) > Len(p)
                               /\ i \notin 1 .. 0
    BY SMTT(60), <1>1
  <1>5. f \in [Q -> R]
    <2>1. ASSUME NEW i \in Q PROVE i + Len(p) \in R
      BY <1>2, <1>3, <1>4 DEF Places
    <2> HIDE DEF Q, R
    <2> QED BY <2>1
  <1>6. \A j \in R : \E i \in Q : f[i] = j
    <2>1. ASSUME NEW j \in R PROVE \E i \in Q : f[i] = j
      <3>1. /\ j \in 1 .. (Len(p) + Len(q)) /\ j > Len(p)
            /\ (p \o q)[j].op = op /\ (p \o q)[j].b = b
        BY <1>2 DEF Places
      <3>2. j - Len(p) \in 1 .. Len(q) /\ (j - Len(p)) + Len(p) = j
        BY SMTT(60), <1>1, <3>1
      <3>3. (p \o q)[j] = q[j - Len(p)]
        BY <1>2, <3>2
      <3>4. j - Len(p) \in Q
        BY <1>1, <3>1, <3>2, <3>3 DEF Places
      <3>5. f[j - Len(p)] = j
        BY <3>2, <3>4
      <3> QED BY <3>4, <3>5
    <2> QED BY <2>1
  <1>7. \A i, j \in Q : f[i] = f[j] => i = j
    <2>1. ASSUME NEW i \in Q, NEW j \in Q, f[i] = f[j] PROVE i = j
      <3>1. i \in 1 .. Len(q) /\ j \in 1 .. Len(q) /\ i + Len(p) = j + Len(p)
        BY <1>3, <2>1
      <3> QED BY SMTT(60), <1>1, <3>1
    <2> QED BY <2>1
  <1>8. IsFiniteSet(R) /\ Cardinality(R) = Cardinality(Q)
    <2> HIDE DEF Q, R, f
    <2> QED BY <1>1, <1>5, <1>6, <1>7, OneToOne
  <1>9. Places(p \o q, op, b) = P \cup R /\ P \cap R = {}
    <2>1. \A i \in 1 .. Len(p) : i \in 1 .. (Len(p) + Len(q)) /\ ~(i > Len(p))
      BY SMTT(60), <1>1
    <2>2. \A i \in 1 .. (Len(p) + Len(q)) : ~(i > Len(p)) => i \in 1 .. Len(p)
      BY SMTT(60), <1>1
    <2>3. ASSUME NEW i \in P PROVE i \in Places(p \o q, op, b) /\ i \notin R
      BY <1>1, <1>2, <2>1 DEF Places
    <2>4. ASSUME NEW i \in Places(p \o q, op, b), i \notin R PROVE i \in P
      BY <1>1, <1>2, <2>2, <2>4 DEF Places
    <2> QED BY <2>3, <2>4
  <1>10. Cardinality(P \cup R) = Cardinality(P) + Cardinality(R)
    <2> HIDE DEF P, R
    <2> QED BY <1>1, <1>8, <1>9, Disjoint
  <1>11. /\ Count(p, op, b) = Cardinality(P) /\ Count(q, op, b) = Cardinality(Q)
         /\ Count(p \o q, op, b) = Cardinality(Places(p \o q, op, b))
    BY DEF Count, Places
  <1> QED BY <1>8, <1>9, <1>10, <1>11 DEF Added

(* The messages of a queue, counted. *)
LEMMA CountingHolds ==
    ASSUME NEW M PROVE Counting(M)
  <1>1. ASSUME NEW op, NEW b PROVE Count(<<>>, op, b) = 0
    <2>1. DOMAIN <<>> = {}
      BY SMTT(60)
    <2>2. Places(<<>>, op, b) = {}
      BY <2>1 DEF Places
    <2> QED BY <2>2, FS_EmptySet DEF Count, Places
  <1>2. ASSUME NEW q \in Seq(M), NEW op, NEW b
        PROVE  /\ Count(q, op, b) \in Nat
               /\ Count(q, op, b) = 0 <=> \A i \in DOMAIN q : ~Fits(q[i], op, b)
    <2>1. /\ IsFiniteSet(Places(q, op, b)) /\ Cardinality(Places(q, op, b)) \in Nat
          /\ Count(q, op, b) = Cardinality(Places(q, op, b))
      BY PlacesAre
    <2>2. Cardinality(Places(q, op, b)) = 0 <=> Places(q, op, b) = {}
      BY <2>1, FS_EmptySet
    <2>3. Places(q, op, b) = {} <=> \A i \in DOMAIN q : ~Fits(q[i], op, b)
      BY DEF Places, Fits
    <2> QED BY <2>1, <2>2, <2>3
  <1>3. ASSUME NEW q \in Seq(M), q # <<>>, NEW op, NEW b
        PROVE  Count(q, op, b) = Count(Tail(q), op, b) + Bit(Fits(Head(q), op, b))
    <2>1. /\ q = <<Head(q)>> \o Tail(q) /\ <<Head(q)>> \in Seq(M)
          /\ Tail(q) \in Seq(M) /\ Head(q) \in M
      BY SMTT(60), <1>3
    <2>2. Count(<<Head(q)>> \o Tail(q), op, b) = Count(<<Head(q)>>, op, b) + Count(Tail(q), op, b)
      <3>1. Added(<<Head(q)>>, Tail(q), op, b)
        BY <2>1, PlacesJoined
      <3> QED BY <3>1 DEF Added
    <2>3. Count(<<Head(q)>>, op, b) = Bit(Fits(Head(q), op, b))
      BY OnePlace
    <2>4. Count(Tail(q), op, b) \in Nat /\ Bit(Fits(Head(q), op, b)) \in Nat
      BY <1>2, <2>1 DEF Bit
    <2>5. Count(q, op, b) = Count(<<Head(q)>> \o Tail(q), op, b)
      BY <2>1
    <2> QED BY SMTT(60), <2>2, <2>3, <2>4, <2>5
  <1>4. ASSUME NEW p \in Seq(M), NEW q \in Seq(M), NEW op, NEW b
        PROVE  Count(p \o q, op, b) = Count(p, op, b) + Count(q, op, b)
    <2>1. Added(p, q, op, b)
      BY PlacesJoined
    <2> QED BY <2>1 DEF Added
  <1>5. ASSUME NEW m \in M, NEW op, NEW b PROVE Count(<<m>>, op, b) = Bit(Fits(m, op, b))
    BY OnePlace
  <1> QED BY <1>1, <1>2, <1>3, <1>4, <1>5 DEF Counting

(* The requests of cache_flush(), one for each entry it has listed. *)
LEMMA ListingHolds == Listing
  <1>1. ASSUME NEW s, NEW c, Lists(s, c, Blob)
        PROVE  Cardinality(Listed(s)) = c
    <2>1. c \in Nat /\ s \in [1 .. c -> Blob] /\ DOMAIN s = 1 .. c
      BY <1>1 DEF Lists
    <2>2. IsFiniteSet(1 .. c) /\ Cardinality(1 .. c) = c
      <3>1. 1 \in Int /\ c \in Int
        BY SMTT(60), <2>1
      <3>2. IsFiniteSet(1 .. c) /\ Cardinality(1 .. c) = IF 1 > c THEN 0 ELSE c - 1 + 1
        BY <3>1, FS_Interval
      <3> QED BY SMTT(60), <2>1, <3>2
    <2>3. s \in [1 .. c -> Listed(s)] /\ \A t \in Listed(s) : \E i \in 1 .. c : s[i] = t
      BY <2>1 DEF Listed
    <2>4. \A i, j \in 1 .. c : s[i] = s[j] => i = j
      BY <1>1 DEF Lists
    <2> QED BY <2>2, <2>3, <2>4, OneToOne
  <1>2. ASSUME NEW s, NEW c, Lists(s, c, Blob), NEW op, NEW b
        PROVE  Count(StoreReqs(s), op, b) = Bit(op = "store" /\ b \in Listed(s))
    <2>1. \A i \in DOMAIN s : StoreReqs(s)[i].op = "store" /\ StoreReqs(s)[i].b = s[i]
      BY DEF StoreReqs, Req
    <2>2. DOMAIN StoreReqs(s) = DOMAIN s
      BY DEF StoreReqs
    <2>3. CASE op = "store" /\ b \in Listed(s)
      <3>1. PICK i \in DOMAIN s : s[i] = b
        BY <2>3 DEF Listed
      <3>2. \A j \in DOMAIN s : s[j] = b => j = i
        <4>1. DOMAIN s = 1 .. c /\ \A j, k \in 1 .. c : s[j] = s[k] => j = k
          BY <1>2 DEF Lists
        <4> QED BY <3>1, <4>1
      <3>3. Places(StoreReqs(s), op, b) = {i}
        BY <2>1, <2>2, <2>3, <3>1, <3>2 DEF Places
      <3>4. Cardinality({i}) = 1
        BY FS_Singleton
      <3>5. Bit(op = "store" /\ b \in Listed(s)) = 1
        BY <2>3 DEF Bit
      <3> QED BY <3>3, <3>4, <3>5 DEF Count, Places
    <2>4. CASE ~(op = "store" /\ b \in Listed(s))
      <3>1. Places(StoreReqs(s), op, b) = {}
        BY <2>1, <2>2, <2>4 DEF Places, Listed
      <3>2. Cardinality({}) = 0
        BY FS_EmptySet
      <3>3. Bit(op = "store" /\ b \in Listed(s)) = 0
        BY <2>4 DEF Bit
      <3> QED BY <3>1, <3>2, <3>3 DEF Count, Places
    <2> QED BY <2>3, <2>4
  <1> QED BY <1>1, <1>2 DEF Listing

(* So the lemmas above hold without hypothesis. *)
LEMMA LawsHold == Laws
  BY CountingHolds, ListingHolds, SizesHold DEF Laws

-----------------------------------------------------------------------------
(* Theorems *)

(* Inv is an inductive invariant: in every tree of brokers the counters of   *)
(* the caches are right, requests are deferred only for children, a load or  *)
(* store that is pending has one message on its way or lost with a module    *)
(* that exited, and what the cache and content-sqlite believe of each other  *)
(* agrees.                                                                   *)
THEOREM Invariance == Spec => []Inv
  <1>1. Init => Inv
    BY InitStep, LawsHold
  <1>2. Inv /\ [Next]_vars => Inv'
    <2>1. ASSUME Inv, Next PROVE Inv'
      BY <2>1, NextStep, LawsHold DEF Preserved
    <2>2. ASSUME Inv, UNCHANGED vars PROVE Inv'
      BY <2>2, Stutter
    <2> QED BY <2>1, <2>2
  <1> QED BY <1>1, <1>2, PTL DEF Spec

(* The fields of struct content_cache, the messages and the life of the      *)
(* backing store stay in their types; no unsigned counter goes below zero.   *)
THEOREM TypeCorrect == Spec => []TypeOK
  <1>1. Inv => TypeOK
    BY DEF Inv
  <1> QED BY <1>1, Invariance, PTL

(* acct_dirty and flush_batch_count are right after any order of loads,      *)
(* stores, flushes, responses, drops and unloads of the backing store.       *)
THEOREM CountersRight == Spec => []Accounting
  <1>1. Inv => Accounting
    BY DEF Inv, Sound, Counted, Accounting
  <1> QED BY <1>1, Invariance, PTL

(* "At most a single request is sent per cache entry": a pending load or     *)
(* store has exactly one request or answer under way, or lost with a backing *)
(* store that exited.                                                        *)
THEOREM SingleRequest == Spec => []OneRequest
  <1>1. Inv => OneRequest
    <2>1. SUFFICES ASSUME Inv, ~aborted, NEW r \in Rank, NEW b \in Blob,
                          NEW op \in {"load", "store"}
                   PROVE  InFlight(r, op, b) + Count(down[r], op, b) + Lost(r, op, b)
                            = Pending(cache[r], op, b)
      <3>1. ASSUME NEW r \in Rank, NEW b \in Blob
            PROVE  /\ Pending(cache[r], "load", b) = IF b \in cache[r].loading THEN 1 ELSE 0
                   /\ Pending(cache[r], "store", b) = IF b \in cache[r].storing THEN 1 ELSE 0
        BY DEF Pending, Bit
      <3> QED BY <3>1 DEF OneRequest
    <2>2. Moving(r, op, b) + Above(r, op, b) + Lost(r, op, b) = Pending(cache[r], op, b)
      BY <2>1 DEF Inv, Sound, Singles, Single
    <2>3. Deferred(r, op, b) = Above(r, op, b)
      <3>1. CASE r = 0
        BY <3>1 DEF Deferred, Above
      <3>2. CASE r # 0
        BY <2>1, <3>2 DEF Deferred, Above, Waits, Bit
      <3> QED BY <3>1, <3>2
    <2>4. Count(up[r], op, b) \in Nat /\ Count(down[r], op, b) \in Nat
      BY <2>1, MovingIs, NodesAre, LawsHold DEF Inv
    <2>5. Above(r, op, b) \in Nat
      BY DEF Above, Waits, Bit
    <2>6. Count(up[r], op, b) + Above(r, op, b) + Count(down[r], op, b)
            = Count(up[r], op, b) + Count(down[r], op, b) + Above(r, op, b)
      BY SMTT(60), <2>4, <2>5
    <2> QED BY <2>2, <2>3, <2>6 DEF InFlight, Moving
  <1> QED BY <1>1, Invariance, PTL

(* Until the session ends, what is clean on rank 0 is in the backing store,  *)
(* and what is clean on another rank, or answered to it with success, is     *)
(* held at the root, was removed by a failed load, or is on its way from a   *)
(* rank above.                                                               *)
THEOREM KeptAlways == Spec => []Kept
  <1>1. Init => Kept
    BY InitStep, LawsHold
  <1>2. Inv /\ Kept /\ [Next]_vars => Kept'
    <2>1. ASSUME Inv, Kept, Next PROVE Kept'
      <3>1. ~closing' => Keeping
        BY <2>1, Alive, Ending DEF Kept
      <3> QED BY <2>1, <3>1, NextStep, LawsHold DEF Preserved, Kept
    <2>2. ASSUME Kept, UNCHANGED vars PROVE Kept'
      BY <2>2, Stutter
    <2> QED BY <2>1, <2>2
  <1> QED BY <1>1, <1>2, Invariance, PTL DEF Spec

(* A store that content_store_request() has answered with success is at the  *)
(* root, or is on its way there from a rank that serves others, whatever is  *)
(* loaded, dropped, fails or is unloaded afterwards, unless a failed load    *)
(* removed it.                                                               *)
THEOREM StoresHeld == Spec => []StoreHeld
  <1>1. Kept => StoreHeld
    BY DEF Kept, Keeping, Safe, StoreHeld
  <1> QED BY <1>1, KeptAlways, PTL

(* content_flush_request() at rank 0 answers with success only when what     *)
(* was stored so far, and has arrived, is in the database.                   *)
THEOREM FlushesDurable == Spec => FlushDurable
  <1>1. Inv /\ Kept /\ [Next]_vars => [FlushOk]_vars
    <2>1. ASSUME Inv, Kept, Next PROVE FlushOk
      <3>1. CASE closing
        BY <3>1 DEF FlushOk
      <3>2. CASE ~closing
        <4>1. Keeping
          BY <2>1, <3>2, Alive DEF Kept
        <4> QED BY <2>1, <4>1, NextStep, LawsHold DEF Preserved
      <3> QED BY <3>1, <3>2
    <2> QED BY <2>1
  <1> QED BY <1>1, Invariance, KeptAlways, PTL DEF Spec, FlushDurable, FlushOk
=============================================================================
