---------------------------- MODULE KvsTxnProofs ----------------------------
(* The theorems about KvsTxn, for every set of namespaces and transactions. *)
(* First what the operators on tree objects, queues, waiters and the stack  *)
(* of calls return; then the steps of a callback, which keep the invariant; *)
(* then requests, answers, heartbeats and the theorems.                     *)
EXTENDS KvsTxn, TLAPS

USE ZenonT(60)

----------------------------------------------------------------------------
(* What the operators on tree objects return *)

(* The empty directory and the leaves of the tree have their types. *)
LEMMA LeafType ==
    /\ None \in Leaf
    /\ \A x \in Data : Val(x) \in Leaf
    /\ \A s \in Seq(Data) : ValRef(s) \in Leaf
    /\ EmptyDir \in SubDir /\ EmptyDir \in Dir
    /\ SubDir \subseteq Dir /\ Dir \subseteq WorkDir
<1>1. None \in Leaf  BY DEF Leaf
<1>2. \A x \in Data : Val(x) \in Leaf  BY DEF Leaf, Val
<1>3. \A s \in Seq(Data) : ValRef(s) \in Leaf  BY DEF Leaf, ValRef
<1>4. EmptyDir \in SubDir /\ EmptyDir \in Dir
  BY <1>1 DEF EmptyDir, SubDir, Dir
<1>5. SubDir \subseteq Dir /\ Dir \subseteq WorkDir
  BY DEF SubDir, Dir, WorkDir
<1> QED  BY <1>1, <1>2, <1>3, <1>4, <1>5

(* Link() keeps a directory a directory, of either kind. *)
LEMMA LinkType ==
    ASSUME NEW X, Leaf \subseteq X,
           \A e \in X : e \notin Leaf => e.t \in {"dir", "dirref"},
           NEW f \in [Name -> X], NEW o \in Op, o.act # "bad"
    PROVE  /\ Link(f, o).dir \in [Name -> X]
           /\ Link(f, o).raws \subseteq Data
           /\ Link(f, o).err \in {"ok", "EISDIR"}
<1> DEFINE e == f[o.name]
<1>1. o.name \in Name /\ o.data \in Data /\ o.act \in {"put", "append", "unlink"}
  BY DEF Op
<1>2. e \in X  BY <1>1
<1>3. CASE o.act = "put"
  BY <1>1, <1>3, LeafType DEF Link
<1>4. CASE o.act = "unlink"
  BY <1>1, <1>4, LeafType DEF Link
<1>5. CASE o.act = "append" /\ e.t = "none"
  BY <1>1, <1>5, LeafType DEF Link
<1>6. CASE o.act = "append" /\ e.t = "valref"
  <2>1. e \in Leaf  BY <1>2, <1>6
  <2>2. e.refs \in Seq(Data)  BY SMTT(60), <2>1, <1>6 DEF Leaf, None
  <2>3. Append(e.refs, o.data) \in Seq(Data)  BY SMTT(60), <2>2, <1>1
  <2> QED  BY <1>1, <1>6, <2>3, LeafType DEF Link
<1>7. CASE o.act = "append" /\ e.t = "val"
  <2>1. e \in Leaf  BY <1>2, <1>7
  <2>2. e.data \in Data  BY SMTT(60), <2>1, <1>7 DEF Leaf, None
  <2>3. <<e.data, o.data>> \in Seq(Data)  BY SMTT(60), <2>2, <1>1
  <2> QED  BY <1>1, <1>7, <2>2, <2>3, LeafType DEF Link
<1>8. CASE o.act = "append" /\ e.t \notin {"none", "val", "valref"}
  BY <1>1, <1>8 DEF Link
<1> QED  BY <1>1, <1>3, <1>4, <1>5, <1>6, <1>7, <1>8

SubEntry == [t : {"dirref", "dir"}, sub : SubDir]

(* kvstxn_link_dirent() in one directory keeps the type of the directory. *)
LEMMA LinkInType ==
    ASSUME NEW f \in WorkDir, NEW o \in Op, o.act # "bad", o.dir \in Name,
           NEW g \in SubDir
    PROVE  /\ LinkIn(f, o, g).dir \in WorkDir
           /\ LinkIn(f, o, g).raws \subseteq Data
           /\ LinkIn(f, o, g).err \in {"ok", "EISDIR"}
<1> DEFINE r == Link(g, o)
<1>1. r.dir \in SubDir /\ r.raws \subseteq Data /\ r.err \in {"ok", "EISDIR"}
  BY LinkType DEF SubDir
<1>2. InDir(r.dir) \in SubEntry  BY <1>1 DEF SubEntry, InDir
<1>3. [f EXCEPT ![o.dir] = InDir(r.dir)] \in WorkDir
  BY <1>2 DEF WorkDir, SubEntry
<1>4. r = [dir |-> r.dir, raws |-> r.raws, err |-> r.err]
  BY DEF Link
<1>5. /\ LinkIn(f, o, g).dir = [f EXCEPT ![o.dir] = InDir(r.dir)]
      /\ LinkIn(f, o, g).raws = r.raws /\ LinkIn(f, o, g).err = r.err
  <2> HIDE DEF r
  <2>1. LinkIn(f, o, g) = [r EXCEPT !.dir = [f EXCEPT ![o.dir] = InDir(r.dir)]]
    BY DEF LinkIn, r
  <2> QED  BY <2>1, <1>4
<1> QED  BY <1>1, <1>3, <1>5

(* ... and so it does for a key of one or of two components. *)
LEMMA LinkDirentType ==
    ASSUME NEW f \in WorkDir, NEW o \in Op, NEW V
    PROVE  /\ LinkDirent(f, o, V).dir \in WorkDir
           /\ LinkDirent(f, o, V).raws \subseteq Data
           /\ LinkDirent(f, o, V).err \in
                {"ok", "EISDIR", "EINVAL", "missing"}
<1> DEFINE e == f[o.dir]
<1>0. o.dir \in Name \cup {"."}  BY DEF Op
<1>1. CASE o.act = "bad"
  BY <1>1 DEF LinkDirent
<1>2. CASE o.act # "bad" /\ o.dir = "."
  <2>1. LinkDirent(f, o, V) = Link(f, o)  BY <1>2 DEF LinkDirent
  <2> DEFINE X == Leaf \cup SubEntry
  <2>2. f \in [Name -> X]  BY DEF WorkDir, SubEntry
  <2>3. \A e2 \in X : e2 \notin Leaf => e2.t \in {"dir", "dirref"}
    BY DEF SubEntry
  <2>4. [Name -> X] \subseteq WorkDir  BY DEF WorkDir, SubEntry
  <2> HIDE DEF X
  <2>5. Leaf \subseteq X  BY DEF X
  <2>6. /\ Link(f, o).dir \in [Name -> X]
        /\ Link(f, o).raws \subseteq Data
        /\ Link(f, o).err \in {"ok", "EISDIR"}
    BY <1>2, <2>2, <2>3, <2>5, LinkType
  <2> QED  BY <2>1, <2>4, <2>6
<1>3. CASE o.act # "bad" /\ o.dir # "."
  <2>0. o.dir \in Name  BY <1>0, <1>3
  <2>1. e \in Leaf \cup SubEntry  BY <2>0 DEF WorkDir, SubEntry
  <2>2. CASE e.t \in {"dir", "dirref"}
    <3>1. e.sub \in SubDir  BY SMTT(60), <2>1, <2>2 DEF SubEntry, Leaf, None
    <3>2. \/ LinkDirent(f, o, V) = LinkIn(f, o, e.sub)
          \/ LinkDirent(f, o, V) = [dir |-> f, raws |-> {}, err |-> "missing"]
      BY <1>3, <2>2 DEF LinkDirent
    <3> QED  BY SMTT(60), <3>1, <3>2, <2>0, <1>3, LinkInType
  <2>3. CASE e.t \notin {"dir", "dirref"}
    <3>1. \/ LinkDirent(f, o, V) = LinkIn(f, o, EmptyDir)
          \/ LinkDirent(f, o, V) = [dir |-> f, raws |-> {}, err |-> "ok"]
      BY <1>3, <2>3 DEF LinkDirent
    <3> QED  BY SMTT(60), <3>1, <2>0, <1>3, LinkInType, LeafType
  <2> QED  BY <2>2, <2>3
<1> QED  BY <1>1, <1>2, <1>3

(* kvstxn_unroll() yields a directory and objects of the tree. *)
LEMMA UnrollType ==
    ASSUME NEW f \in WorkDir
    PROVE  Unroll(f) \in Dir /\ Unrolled(f) \subseteq Blob
<1>1. ASSUME NEW g \in SubDir
      PROVE  UnrollVals(g) \in SubDir /\ LargeIn(g) \subseteq Blob
  BY SMTT(60), LargeAssumption DEF UnrollVals, SubDir, Leaf, ValRef, LargeIn, Raw, Blob
<1>2. \A n \in Name : f[n] \in Leaf \cup SubEntry  BY DEF WorkDir, SubEntry
<1>3. ASSUME NEW n \in Name, f[n].t = "dir"
      PROVE  f[n].sub \in SubDir
  BY SMTT(60), <1>2, <1>3 DEF SubEntry, Leaf, None
<1>4. ASSUME NEW n \in Name, f[n].t # "dir"
      PROVE  UnrollVals(f)[n] \in Leaf \cup [t : {"dirref"}, sub : SubDir]
  BY SMTT(60), <1>2, <1>4, LargeAssumption DEF UnrollVals, SubEntry, Leaf, ValRef, None
<1>5. Unroll(f) \in Dir
  BY <1>1, <1>3, <1>4 DEF Unroll, Dir, DirRef
<1>6. DirBlob(Unroll(f)) \in Blob  BY <1>5 DEF DirBlob, Blob
<1>7. LargeIn(f) \subseteq Blob  BY SMTT(60), LargeAssumption DEF LargeIn, Raw, Blob
<1>8. \A n \in Name : f[n].t = "dir" =>
        /\ DirBlob(UnrollVals(f[n].sub)) \in Blob
        /\ LargeIn(f[n].sub) \subseteq Blob
  BY <1>1, <1>3, LeafType DEF DirBlob, Blob
<1> QED  BY <1>5, <1>6, <1>7, <1>8 DEF Unrolled

(* What a root leads to are objects of the tree. *)
LEMMA ReachType == ASSUME NEW f \in Dir PROVE Reach(f) \subseteq Blob
<1>1. \A n \in Name : f[n].t = "dirref" => f[n].sub \in SubDir
  BY SMTT(60) DEF Dir, Leaf, None
<1>2. \A g : RawsOf(g) \subseteq Blob  BY SMTT(60) DEF RawsOf, Raw, Blob
<1>3. \A g \in Dir : DirBlob(g) \in Blob  BY DEF DirBlob, Blob
<1>4. \A g \in SubDir : Children(g) \subseteq Blob
  <2> SUFFICES ASSUME NEW g \in SubDir PROVE Children(g) \subseteq Blob
    OBVIOUS
  <2>1. SubsOf(g) = {}  BY SMTT(60) DEF SubsOf, SubDir, Leaf, None
  <2> QED  BY <2>1, <1>2 DEF Children
<1>5. Children(f) \subseteq Blob
  BY <1>1, <1>2, <1>3, LeafType DEF Children, SubsOf
<1> QED  BY <1>1, <1>3, <1>4, <1>5 DEF Reach, SubsOf

(* kvstxn_link_dirent() asks only for directories the cache does not hold.  *)
LEMMA LinkMissing ==
    ASSUME NEW f \in WorkDir, NEW o \in Op, NEW V,
           LinkDirent(f, o, V).err = "missing"
    PROVE  DirBlob(f[o.dir].sub) \in Blob \ V
<1> DEFINE e == f[o.dir]
<1>0. o.dir \in Name \cup {"."}  BY DEF Op
<1>1. o.act # "bad"  BY DEF LinkDirent
<1>2. o.dir # "."
  <2> SUFFICES ASSUME o.dir = "." PROVE FALSE  OBVIOUS
  <2> DEFINE X == Leaf \cup SubEntry
  <2>1. LinkDirent(f, o, V) = Link(f, o)  BY <1>1 DEF LinkDirent
  <2>2. f \in [Name -> X] /\ \A e2 \in X : e2 \notin Leaf => e2.t \in {"dir", "dirref"}
    BY DEF WorkDir, SubEntry
  <2>3. Leaf \subseteq X  OBVIOUS
  <2> HIDE DEF X
  <2>4. Link(f, o).err \in {"ok", "EISDIR"}  BY <1>1, <2>2, <2>3, LinkType
  <2> QED  BY <2>1, <2>4
<1>3. o.dir \in Name /\ e \in Leaf \cup SubEntry
  BY <1>0, <1>2 DEF WorkDir, SubEntry
<1>4. \A g \in SubDir : LinkIn(f, o, g).err # "missing"
  <2> SUFFICES ASSUME NEW g \in SubDir PROVE LinkIn(f, o, g).err # "missing"
    OBVIOUS
  <2>1. LinkIn(f, o, g).err \in {"ok", "EISDIR"}  BY <1>1, <1>3, LinkInType
  <2> QED  BY <2>1
<1>5. e.t = "dirref" /\ DirBlob(e.sub) \notin V
  <2>1. e.t \in {"dir", "dirref"} => e.sub \in SubDir
    BY SMTT(60), <1>3 DEF SubEntry, Leaf, None
  <2>2. CASE e.t = "dir"
    <3>1. LinkDirent(f, o, V) = LinkIn(f, o, e.sub)  BY <1>1, <1>2, <2>2 DEF LinkDirent
    <3> QED  BY <2>1, <2>2, <3>1, <1>4
  <2>3. CASE e.t = "dirref"
    <3>1. DirBlob(e.sub) \in V => LinkDirent(f, o, V) = LinkIn(f, o, e.sub)
      BY <1>1, <1>2, <2>3 DEF LinkDirent
    <3> QED  BY <2>1, <2>3, <3>1, <1>4
  <2>4. CASE e.t \notin {"dir", "dirref"}
    <3>1. \/ LinkDirent(f, o, V) = LinkIn(f, o, EmptyDir)
          \/ LinkDirent(f, o, V) = [dir |-> f, raws |-> {}, err |-> "ok"]
      BY <1>1, <1>2, <2>4 DEF LinkDirent
    <3> QED  BY SMTT(60), <3>1, <1>4, LeafType
  <2> QED  BY <2>2, <2>3, <2>4
<1>6. e.sub \in Dir  BY SMTT(60), <1>3, <1>5, LeafType DEF SubEntry, Leaf, None
<1> QED  BY <1>5, <1>6 DEF DirBlob, Blob

----------------------------------------------------------------------------
(* Updates of a queue *)

(* kvstxn_create(): a transaction on which nothing has been done. *)
LEMMA CreateType ==
    ASSUME NEW names \in Seq(Txn), NEW ops \in Seq(Op), NEW nm \in BOOLEAN,
           NEW mg \in BOOLEAN
    PROVE  Create(names, ops, nm, mg) \in Kvstxn /\ Fresh(Create(names, ops, nm, mg))
<1>1. EmptyDir \in WorkDir  BY LeafType
<1>2. "INIT" \in TxnState /\ "ok" \in Errnum  BY DEF TxnState, Errnum
<1>3. 1 \in OpIndex  BY SMTT(60) DEF OpIndex
<1> QED  BY <1>1, <1>2, <1>3 DEF Create, Kvstxn, Fresh

(* The head of a queue that is not empty is a transaction. *)
LEMMA HeadType ==
    ASSUME ready \in ReadyType, NEW n \in Namespace, ready[n] # <<>>
    PROVE  kt(n) \in Kvstxn /\ kt(n) = ready[n][1] /\ Len(ready[n]) \in Nat \ {0}
BY SMTT(60) DEF ReadyType, kt

(* Replacing the head of a queue leaves the rest, and the others, alone. *)
LEMMA WithHeadFacts ==
    ASSUME ready \in ReadyType, NEW n \in Namespace, ready[n] # <<>>,
           NEW k \in Kvstxn
    PROVE  /\ WithHead(n, k) \in ReadyType
           /\ \A m \in Namespace \ {n} : WithHead(n, k)[m] = ready[m]
           /\ WithHead(n, k)[n] # <<>> /\ Head(WithHead(n, k)[n]) = k
           /\ Len(WithHead(n, k)[n]) = Len(ready[n])
           /\ \A i \in 2..Len(ready[n]) : WithHead(n, k)[n][i] = ready[n][i]
<1> DEFINE q == ready[n]
           r == <<k>> \o Tail(q)
<1>1. q \in Seq(Kvstxn) /\ q # <<>>  BY DEF ReadyType
<1>2. /\ r \in Seq(Kvstxn) /\ r # <<>> /\ Head(r) = k /\ Len(r) = Len(q)
      /\ \A i \in 2..Len(q) : r[i] = q[i]
  <2>1. Tail(q) \in Seq(Kvstxn) /\ Len(Tail(q)) = Len(q) - 1
        /\ \A i \in 1..(Len(q) - 1) : Tail(q)[i] = q[i + 1]
    BY SMTT(60), <1>1
  <2>2. <<k>> \in Seq(Kvstxn) /\ Len(<<k>>) = 1 /\ <<k>>[1] = k  BY SMTT(60)
  <2>3. r \in Seq(Kvstxn) /\ Len(r) = 1 + (Len(q) - 1) /\ r[1] = k
        /\ \A i \in 2..Len(q) : r[i] = Tail(q)[i - 1]
    BY SMTT(60), <2>1, <2>2
  <2> QED  BY SMTT(60), <2>1, <2>3, <1>1
<1>3. WithHead(n, k) = [ready EXCEPT ![n] = r]  BY DEF WithHead
<1> HIDE DEF r
<1> QED  BY <1>2, <1>3 DEF ReadyType

(* The elements of a sequence after the first c. *)
LEMMA SuffixFacts ==
    ASSUME NEW S, NEW q \in Seq(S), NEW c \in Nat
    PROVE  /\ SubSeq(q, c + 1, Len(q)) \in Seq(S)
           /\ \A i \in 1..Len(SubSeq(q, c + 1, Len(q))) :
                /\ c + i \in 1..Len(q)
                /\ SubSeq(q, c + 1, Len(q))[i] = q[c + i]
BY SMTT(60)

(* kvstxn_mgr_remove_transaction() leaves transactions not started. *)
LEMMA RemoveHeadFacts ==
    ASSUME NEW q \in Seq(Kvstxn), q # <<>>, NEW fb \in BOOLEAN, NEW c \in Nat
    PROVE  /\ RemoveHead(q, c, fb) \in Seq(Kvstxn)
           /\ (\A i \in 2..Len(q) : Fresh(q[i])) =>
                \A i \in 1..Len(RemoveHead(q, c, fb)) :
                  Fresh(RemoveHead(q, c, fb)[i])
<1> DEFINE rest == Tail(q)
           free == [i \in DOMAIN rest |-> IF i <= c
                     THEN [rest[i] EXCEPT !.comp = FALSE, !.nomerge = TRUE]
                     ELSE rest[i]]
<1>1. /\ rest \in Seq(Kvstxn) /\ Len(rest) = Len(q) - 1 /\ Len(rest) \in Nat
      /\ DOMAIN rest = 1..Len(rest)
      /\ \A i \in 1..Len(rest) : rest[i] = q[i + 1] /\ i + 1 \in 2..Len(q)
  BY SMTT(60)
<1> DEFINE H == \A i \in 2..Len(q) : Fresh(q[i])
<1>3. H => \A i \in 1..Len(rest) : Fresh(rest[i])  BY <1>1
<1>4. /\ free \in Seq(Kvstxn) /\ Len(free) = Len(rest)
      /\ H => \A i \in 1..Len(free) : Fresh(free[i])
  <2>1. \A i \in 1..Len(rest) : free[i] \in Kvstxn /\ (H => Fresh(free[i]))
    <3> SUFFICES ASSUME NEW i \in 1..Len(rest)
                 PROVE  free[i] \in Kvstxn /\ (H => Fresh(free[i]))
      OBVIOUS
    <3>1. rest[i] \in Kvstxn /\ (H => Fresh(rest[i]))  BY SMTT(60), <1>1, <1>3
    <3>2. [rest[i] EXCEPT !.comp = FALSE, !.nomerge = TRUE] \in Kvstxn
      BY <3>1 DEF Kvstxn
    <3>3. Fresh(rest[i]) =>
            Fresh([rest[i] EXCEPT !.comp = FALSE, !.nomerge = TRUE])
      BY <3>1 DEF Kvstxn, Fresh
    <3>4. \/ free[i] = rest[i]
          \/ free[i] = [rest[i] EXCEPT !.comp = FALSE, !.nomerge = TRUE]
      BY <1>1
    <3> QED  BY <3>1, <3>2, <3>3, <3>4
  <2>2. free = [i \in 1..Len(rest) |-> free[i]]  BY <1>1
  <2> HIDE DEF free
  <2>3. free \in Seq(Kvstxn) /\ Len(free) = Len(rest)  BY SMTT(60), <1>1, <2>1, <2>2
  <2> QED  BY <2>1, <2>3
<1>5. /\ SubSeq(rest, c + 1, Len(rest)) \in Seq(Kvstxn)
      /\ H => \A i \in 1..Len(SubSeq(rest, c + 1, Len(rest))) :
                Fresh(SubSeq(rest, c + 1, Len(rest))[i])
  <2> HIDE DEF free, H, rest
  <2>1. /\ SubSeq(rest, c + 1, Len(rest)) \in Seq(Kvstxn)
        /\ \A i \in 1..Len(SubSeq(rest, c + 1, Len(rest))) :
             /\ c + i \in 1..Len(rest)
             /\ SubSeq(rest, c + 1, Len(rest))[i] = rest[c + i]
    BY <1>1, SuffixFacts
  <2> QED  BY <2>1, <1>3
<1>6. RemoveHead(q, c, fb) \in {rest, free, SubSeq(rest, c + 1, Len(rest))}
  BY DEF RemoveHead
<1> HIDE DEF free, H, rest
<1>7. H => \A i \in 1..Len(RemoveHead(q, c, fb)) : Fresh(RemoveHead(q, c, fb)[i])
  BY <1>3, <1>4, <1>5, <1>6
<1> QED  BY <1>1, <1>4, <1>5, <1>6, <1>7 DEF H

----------------------------------------------------------------------------
(* Updates of the stack *)

(* A call becomes another of the same namespace: order and one call each. *)
LEMMA BecomeFacts ==
    ASSUME stack \in Seq(Call), StackOrder, NEW n \in Namespace, NEW g, NEW f,
           Frame(f, n) \in Call, f # "check",
           stack # <<>>, Head(stack) = Frame(g, n), Become(f)
    PROVE  /\ stack' \in Seq(Call) /\ stack' # <<>> /\ Head(stack') = Frame(f, n)
           /\ StackOrder' /\ Running' = Running \cup {n}
<1>1. /\ Len(stack) \in Nat \ {0} /\ stack[1] = Frame(g, n)
      /\ DOMAIN stack = 1..Len(stack)
  BY SMTT(60)
<1>2. Head(stack).ns = n  BY SMTT(60) DEF Frame
<1>3. stack' = <<Frame(f, n)>> \o Tail(stack)  BY <1>2 DEF Become
<1>4. Tail(stack) \in Seq(Call) /\ Len(Tail(stack)) = Len(stack) - 1
      /\ \A i \in 1..(Len(stack) - 1) : Tail(stack)[i] = stack[i + 1]
  BY SMTT(60)
<1>5. /\ stack' \in Seq(Call) /\ Len(stack') = Len(stack)
      /\ stack'[1] = Frame(f, n) /\ DOMAIN stack' = 1..Len(stack)
      /\ \A i \in 2..Len(stack) : stack'[i] = stack[i]
  BY SMTT(60), <1>1, <1>3, <1>4
<1>6. Frame(f, n).f = f /\ Frame(f, n).ns = n /\ Frame(g, n).f = g /\ Frame(g, n).ns = n
  BY DEF Frame
<1>7. StackOrder'
  <2>1. ASSUME NEW i \in 1..Len(stack), NEW j \in 1..Len(stack), i < j,
               stack'[i].f = "check"
        PROVE  stack'[j].f = "check"
    <3>1. i # 1 /\ i \in 2..Len(stack) /\ j \in 2..Len(stack)
      BY SMTT(60), <2>1, <1>1, <1>5, <1>6
    <3> QED  BY <3>1, <2>1, <1>1, <1>5 DEF StackOrder
  <2>2. ASSUME NEW j \in 2..Len(stack), stack[j].f # "check", stack[j].ns = n
        PROVE  FALSE
    BY SMTT(60), <2>2, <1>1, <1>6 DEF StackOrder
  <2>3. ASSUME NEW i \in 1..Len(stack), NEW j \in 1..Len(stack),
               stack'[i].f # "check", stack'[j].f # "check",
               stack'[i].ns = stack'[j].ns
        PROVE  i = j
    <3>1. CASE i = 1 /\ j # 1
      <4>1. j \in 2..Len(stack)  BY SMTT(60), <3>1
      <4> QED  BY <4>1, <3>1, <2>2, <2>3, <1>5, <1>6
    <3>2. CASE j = 1 /\ i # 1
      <4>1. i \in 2..Len(stack)  BY SMTT(60), <3>2
      <4> QED  BY <4>1, <3>2, <2>2, <2>3, <1>5, <1>6
    <3>3. CASE i # 1 /\ j # 1
      <4>1. i \in 2..Len(stack) /\ j \in 2..Len(stack)  BY SMTT(60), <3>3
      <4> QED  BY <4>1, <2>3, <1>1, <1>5 DEF StackOrder
    <3> QED  BY <3>1, <3>2, <3>3
  <2> QED  BY <2>1, <2>3, <1>5 DEF StackOrder
<1>8. Running' = Running \cup {n}
  <2>1. ASSUME NEW m \in Running' PROVE m \in Running \cup {n}
    <3>1. PICK i \in 1..Len(stack) : stack'[i].f # "check" /\ stack'[i].ns = m
      BY <2>1, <1>5 DEF Running
    <3>2. CASE i = 1  BY <3>1, <3>2, <1>5, <1>6
    <3>3. CASE i # 1
      <4>1. i \in 2..Len(stack)  BY SMTT(60), <3>3
      <4> QED  BY <4>1, <3>1, <2>1, <1>1, <1>5 DEF Running
    <3> QED  BY <3>2, <3>3
  <2>2. ASSUME NEW m \in Running PROVE m \in Running'
    <3>1. PICK i \in 1..Len(stack) : stack[i].f # "check" /\ stack[i].ns = m
      BY <2>2, <1>1 DEF Running
    <3>2. CASE i = 1  BY <3>1, <3>2, <2>2, <1>1, <1>5, <1>6 DEF Running
    <3>3. CASE i # 1
      <4>1. i \in 2..Len(stack)  BY SMTT(60), <3>3
      <4> QED  BY <4>1, <3>1, <2>2, <1>1, <1>5 DEF Running
    <3> QED  BY <3>2, <3>3
  <2>3. n \in Running'  BY SMTT(60), <1>1, <1>5, <1>6 DEF Running
  <2> QED  BY <2>1, <2>2, <2>3
<1> QED  BY SMTT(60), <1>1, <1>5, <1>7, <1>8

(* A call returns: its namespace runs no more. *)
LEMMA ReturnFacts ==
    ASSUME stack \in Seq(Call), StackOrder, NEW n \in Namespace, NEW g,
           stack # <<>>, Head(stack) = Frame(g, n), Return
    PROVE  /\ stack' \in Seq(Call) /\ StackOrder' /\ Running' = Running \ {n}
           /\ g = "check" => Running = {}
<1>1. /\ Len(stack) \in Nat \ {0} /\ stack[1] = Frame(g, n)
      /\ DOMAIN stack = 1..Len(stack)
  BY SMTT(60)
<1>2. /\ stack' \in Seq(Call) /\ Len(stack') = Len(stack) - 1
      /\ DOMAIN stack' = 1..(Len(stack) - 1)
      /\ \A i \in 1..(Len(stack) - 1) :
           stack'[i] = stack[i + 1] /\ i + 1 \in 2..Len(stack)
  BY SMTT(60), <1>1 DEF Return
<1>3. Frame(g, n).f = g /\ Frame(g, n).ns = n  BY DEF Frame
<1>4. StackOrder'
  <2>1. ASSUME NEW i \in 1..(Len(stack) - 1), NEW j \in 1..(Len(stack) - 1)
        PROVE  /\ i < j /\ stack'[i].f = "check" => stack'[j].f = "check"
               /\ stack'[i].f # "check" /\ stack'[j].f # "check"
                    /\ stack'[i].ns = stack'[j].ns => i = j
    <3>1. /\ stack'[i] = stack[i + 1] /\ stack'[j] = stack[j + 1]
          /\ i + 1 \in 1..Len(stack) /\ j + 1 \in 1..Len(stack)
          /\ (i + 1 = j + 1) => i = j
          /\ i < j => i + 1 < j + 1
      BY SMTT(60), <1>1, <1>2
    <3> QED  BY <3>1, <1>1 DEF StackOrder
  <2> QED  BY <2>1, <1>2 DEF StackOrder
<1>5. g = "check" => Running = {}
  <2> SUFFICES ASSUME g = "check", NEW m \in Running PROVE FALSE  OBVIOUS
  <2>1. PICK i \in 1..Len(stack) : stack[i].f # "check" /\ stack[i].ns = m
    BY <1>1 DEF Running
  <2>2. stack[1].f = "check"  BY <1>1, <1>3
  <2>3. i # 1 /\ 1 < i  BY SMTT(60), <2>1, <2>2
  <2> QED  BY SMTT(60), <2>1, <2>2, <2>3, <1>1 DEF StackOrder
<1>6. ASSUME NEW m \in Running' PROVE m \in Running \ {n}
  <2>1. PICK i \in 1..(Len(stack) - 1) :
               stack'[i].f # "check" /\ stack'[i].ns = m
    BY <1>6, <1>2 DEF Running
  <2>2. stack[i + 1].f # "check" /\ stack[i + 1].ns = m /\ i + 1 \in 2..Len(stack)
    BY SMTT(60), <2>1, <1>2
  <2>3. m \in Running  BY SMTT(60), <2>2, <1>1, <1>6 DEF Running
  <2>4. m # n
    BY SMTT(60), <2>2, <1>1, <1>3 DEF StackOrder
  <2> QED  BY <2>3, <2>4
<1>7. ASSUME NEW m \in Running \ {n} PROVE m \in Running'
  <2>1. PICK i \in 1..Len(stack) : stack[i].f # "check" /\ stack[i].ns = m
    BY <1>7, <1>1 DEF Running
  <2>2. i # 1  BY <2>1, <1>1, <1>3, <1>7
  <2>3. i - 1 \in 1..(Len(stack) - 1) /\ stack'[i - 1] = stack[i]
    BY SMTT(60), <2>2, <1>1, <1>2
  <2> QED  BY <2>1, <2>3, <1>2, <1>7 DEF Running
<1> QED  BY <1>2, <1>4, <1>5, <1>6, <1>7

(* Concatenation, element by element. *)
LEMMA ConcatFacts ==
    ASSUME NEW S, NEW p \in Seq(S), NEW q \in Seq(S)
    PROVE  /\ p \o q \in Seq(S) /\ Len(p \o q) = Len(p) + Len(q)
           /\ Len(p) \in Nat /\ Len(q) \in Nat
           /\ DOMAIN (p \o q) = 1..(Len(p) + Len(q))
           /\ \A i \in 1..Len(p) : (p \o q)[i] = p[i]
           /\ \A i \in (Len(p) + 1)..(Len(p) + Len(q)) :
                (p \o q)[i] = q[i - Len(p)] /\ i - Len(p) \in 1..Len(q)
BY SMTT(60)

(* A function on 1..c is a sequence. *)
LEMMA SeqFacts ==
    ASSUME NEW S, NEW c \in Nat, NEW p, DOMAIN p = 1..c,
           p = [i \in 1..c |-> p[i]], \A i \in 1..c : p[i] \in S
    PROVE  p \in Seq(S) /\ Len(p) = c
BY SMTT(60)

(* Appending an element of a set to a sequence over it; the sequence of one. *)
LEMMA AppendFacts ==
    ASSUME NEW S, NEW q \in Seq(S), NEW x \in S
    PROVE  Append(q, x) \in Seq(S) /\ <<x>> \in Seq(S)
BY SMTT(60)

(* A bounded counter that counts one more. *)
LEMMA CountFacts ==
    ASSUME NEW m \in Nat, NEW c \in 0..m, NEW d, c < m, d = c + 1
    PROVE  d \in 0..m
BY SMTT(60)

(* A call other than of the check callback makes its namespace run. *)
LEMMA RunningFrame ==
    ASSUME stack \in Seq(Call), NEW i \in 1..Len(stack), stack[i].f # "check"
    PROVE  stack[i].ns \in Running
<1>1. stack[i] \in Call /\ i \in DOMAIN stack  BY SMTT(60)
<1>2. stack[i].ns \in Namespace  BY <1>1 DEF Call
<1> QED  BY <1>1, <1>2 DEF Running

(* wait_runqueue(): the namespaces that waited for b only now run. *)
LEMMA WakeFacts ==
    ASSUME stack \in Seq(Call), StackOrder, \A n \in Namespace : RunInv(n),
           waits \in [Namespace -> SUBSET Blob], NEW b, Wake(b)
    PROVE  /\ waits' \in [Namespace -> SUBSET Blob]
           /\ \A n \in Namespace : waits'[n] = waits[n] \ {b}
           /\ stack' \in Seq(Call) /\ StackOrder'
           /\ Running' = Running \cup {n \in Namespace : waits[n] = {b}}
<1> DEFINE W == {n \in Namespace : waits[n] = {b}}
<1>2. PICK s \in Orders(W) :
        stack' = [i \in DOMAIN s |-> Frame("apply", s[i])] \o stack
  BY DEF Wake
<1>1. PICK c \in Nat : s \in [1..c -> W]
  <2> HIDE DEF W
  <2> QED  BY SMTT(60) DEF Orders
<1> DEFINE p == [i \in DOMAIN s |-> Frame("apply", s[i])]
<1>3. /\ DOMAIN s = 1..c /\ \A i \in 1..c : s[i] \in W
      /\ \A x \in W : \E i \in 1..c : s[i] = x
      /\ \A i, j \in 1..c : s[i] = s[j] => i = j
  <2> HIDE DEF W
  <2>1. s \in [1..c -> W]  BY <1>1
  <2>2. \A x \in W : \E i \in DOMAIN s :
           s[i] = x /\ \A j \in DOMAIN s : s[j] = x => j = i
    BY DEF Orders
  <2> QED  BY SMTT(60), <2>1, <2>2
<1>4. /\ \A i \in 1..c : p[i] = Frame("apply", s[i])
      /\ \A i \in 1..c : p[i] \in Call /\ p[i].f = "apply" /\ p[i].ns = s[i]
  BY <1>3 DEF Call, Frame
<1>5. p \in Seq(Call) /\ Len(p) = c
  <2>1. p = [i \in 1..c |-> p[i]] /\ DOMAIN p = 1..c  BY <1>3
  <2> HIDE DEF p, W
  <2> QED  BY <2>1, <1>1, <1>4, SeqFacts
<1>6. stack' = p \o stack  BY <1>2
<1> HIDE DEF p, W
<1>7. /\ stack' \in Seq(Call) /\ Len(stack') = c + Len(stack)
      /\ DOMAIN stack' = 1..(c + Len(stack)) /\ Len(stack) \in Nat
      /\ DOMAIN stack = 1..Len(stack)
      /\ \A i \in 1..c : stack'[i] = p[i]
      /\ \A i \in (c + 1)..(c + Len(stack)) :
           stack'[i] = stack[i - c] /\ i - c \in 1..Len(stack)
  <2> DEFINE t == p \o stack
  <2>1. /\ t \in Seq(Call) /\ Len(t) = c + Len(stack)
        /\ DOMAIN t = 1..(c + Len(stack)) /\ Len(stack) \in Nat
        /\ DOMAIN stack = 1..Len(stack)
        /\ \A i \in 1..c : t[i] = p[i]
        /\ \A i \in (c + 1)..(c + Len(stack)) :
             t[i] = stack[i - c] /\ i - c \in 1..Len(stack)
    <3>1. DOMAIN stack = 1..Len(stack)  BY SMTT(60)
    <3>2. /\ p \o stack \in Seq(Call) /\ Len(p \o stack) = Len(p) + Len(stack)
          /\ Len(p) \in Nat /\ Len(stack) \in Nat
          /\ DOMAIN (p \o stack) = 1..(Len(p) + Len(stack))
          /\ \A i \in 1..Len(p) : (p \o stack)[i] = p[i]
          /\ \A i \in (Len(p) + 1)..(Len(p) + Len(stack)) :
               (p \o stack)[i] = stack[i - Len(p)] /\ i - Len(p) \in 1..Len(stack)
      BY <1>5, ConcatFacts
    <3> QED  BY <1>5, <3>1, <3>2
  <2> HIDE DEF t
  <2>2. stack' = t  BY <1>6 DEF t
  <2> QED  BY <2>1, <2>2
<1>8. /\ \A i \in 1..c : /\ stack'[i].f # "check" /\ stack'[i].ns \in W
                         /\ stack'[i].ns \notin Running
      /\ \A x \in W : \E i \in 1..c : stack'[i].ns = x
      /\ \A i, j \in 1..c : stack'[i].ns = stack'[j].ns => i = j
  <2>1. \A i \in 1..c : stack'[i].f # "check" /\ stack'[i].ns = s[i]
    BY <1>4, <1>7
  <2>2. \A x \in W : x \notin Running  BY DEF RunInv, W
  <2>3. ASSUME NEW i \in 1..c PROVE stack'[i].ns \in W
    <3>1. stack'[i].ns = s[i] /\ s[i] \in W  BY <2>1, <1>3
    <3> QED  BY <3>1
  <2>4. \A x \in W : \E i \in 1..c : stack'[i].ns = x  BY <2>1, <1>3
  <2>5. ASSUME NEW i \in 1..c, NEW j \in 1..c, stack'[i].ns = stack'[j].ns
        PROVE  i = j
    <3>1. s[i] = s[j]  BY <2>1, <2>5
    <3> QED  BY <3>1, <1>3
  <2> QED  BY <2>1, <2>2, <2>3, <2>4, <2>5
<1>9. StackOrder'
  <2>1. ASSUME NEW i \in DOMAIN stack', NEW j \in DOMAIN stack'
        PROVE  /\ i < j /\ stack'[i].f = "check" => stack'[j].f = "check"
               /\ stack'[i].f # "check" /\ stack'[j].f # "check"
                    /\ stack'[i].ns = stack'[j].ns => i = j
    <3>1. CASE i \in 1..c /\ j \in 1..c  BY <3>1, <1>8
    <3>2. CASE i \in 1..c /\ j \notin 1..c
      <4>1. j \in (c + 1)..(c + Len(stack))  BY SMTT(60), <3>2, <1>1, <1>7
      <4>2. stack'[j] = stack[j - c] /\ j - c \in 1..Len(stack)  BY <4>1, <1>7
      <4>3. stack'[j].f # "check" => stack'[j].ns \in Running
        BY <4>2, RunningFrame
      <4> QED  BY <3>2, <4>3, <1>8
    <3>3. CASE i \notin 1..c /\ j \in 1..c
      <4>1. i \in (c + 1)..(c + Len(stack))  BY SMTT(60), <3>3, <1>1, <1>7
      <4>2. stack'[i] = stack[i - c] /\ i - c \in 1..Len(stack)  BY <4>1, <1>7
      <4>3. stack'[i].f # "check" => stack'[i].ns \in Running
        BY <4>2, RunningFrame
      <4>4. ~(i < j)  BY SMTT(60), <3>3, <4>1, <1>1
      <4> QED  BY <3>3, <4>3, <4>4, <1>8
    <3>4. CASE i \notin 1..c /\ j \notin 1..c
      <4>1. /\ i \in (c + 1)..(c + Len(stack))
            /\ j \in (c + 1)..(c + Len(stack))
        BY SMTT(60), <3>4, <1>1, <1>7
      <4>2. /\ stack'[i] = stack[i - c] /\ i - c \in 1..Len(stack)
            /\ stack'[j] = stack[j - c] /\ j - c \in 1..Len(stack)
            /\ i < j => i - c < j - c
            /\ i - c = j - c => i = j
        BY SMTT(60), <4>1, <1>1, <1>7
      <4> QED  BY SMTT(60), <4>2, <1>7 DEF StackOrder
    <3> QED  BY <3>1, <3>2, <3>3, <3>4
  <2> QED  BY <2>1 DEF StackOrder
<1>10. Running' = Running \cup W
  <2>1. ASSUME NEW m \in Running' PROVE m \in Running \cup W
    <3>1. PICK i \in DOMAIN stack' : stack'[i].f # "check" /\ stack'[i].ns = m
      BY <2>1 DEF Running
    <3>2. CASE i \in 1..c  BY <3>1, <3>2, <1>8
    <3>3. CASE i \notin 1..c
      <4>1. i \in (c + 1)..(c + Len(stack))  BY SMTT(60), <3>3, <1>1, <1>7
      <4>2. stack'[i] = stack[i - c] /\ i - c \in 1..Len(stack)  BY <4>1, <1>7
      <4> QED  BY <4>2, <3>1, <2>1, <1>7 DEF Running
    <3> QED  BY <3>2, <3>3
  <2>2. ASSUME NEW m \in Running PROVE m \in Running'
    <3>1. PICK i \in 1..Len(stack) : stack[i].f # "check" /\ stack[i].ns = m
      BY <2>2, <1>7 DEF Running
    <3>2. i + c \in (c + 1)..(c + Len(stack)) /\ i + c \in DOMAIN stack'
          /\ (i + c) - c = i
      BY SMTT(60), <1>1, <1>7
    <3>3. stack'[i + c] = stack[i]  BY <3>2, <1>7
    <3> QED  BY <3>1, <3>2, <3>3, <2>2 DEF Running
  <2>3. ASSUME NEW m \in W PROVE m \in Running'
    <3>1. PICK i \in 1..c : stack'[i].ns = m  BY <2>3, <1>8
    <3>2. i \in DOMAIN stack'  BY SMTT(60), <1>1, <1>7
    <3>3. m \in Namespace  BY DEF W
    <3> QED  BY <3>1, <3>2, <3>3, <1>8 DEF Running
  <2> QED  BY <2>1, <2>2, <2>3
<1>11. /\ waits' \in [Namespace -> SUBSET Blob]
       /\ \A n \in Namespace : waits'[n] = waits[n] \ {b}
  BY DEF Wake
<1> QED  BY <1>7, <1>9, <1>10, <1>11 DEF W

(* With an empty stack nothing runs. *)
LEMMA IdleRunning == ASSUME stack = <<>> PROVE Running = {}
BY SMTT(60) DEF Running

(* A step that leaves the stack alone leaves the running ones alone. *)
LEMMA SameStack ==
    ASSUME StackOrder, stack' = stack
    PROVE  StackOrder' /\ Running' = Running
BY DEF StackOrder, Running

----------------------------------------------------------------------------
(* What keeps the invariant of KvsTxn whatever step does it.  First, what it *)
(* says inside a call and what a step for one namespace must not touch for  *)
(* the others to keep their part of it; then the moves: a transaction goes  *)
(* on, ends, or blocks, or the waiters of an entry run.                     *)

(* Nothing that namespace m waits for, nor its queue, changes. *)
Untouched(m) ==
    /\ ready'[m] = ready[m] /\ waits'[m] = waits[m]
    /\ m \in Running' <=> m \in Running
    /\ \A b \in waits[m] : /\ b \in present \ valid => b \in present' \ valid'
                           /\ b \in storing => b \in storing'

(* The dirty lists of the other namespaces survive a step of n. *)
DirtyKept(n) ==
    \A m \in Heads \ {n} : /\ kt(m).dlist \subseteq dirty' \ storing'
                           /\ kt(m).dlist \cap waits'[n] = {}

(* The invariant, as far as it concerns n. *)
Own(n) ==
    /\ RunInv(n) /\ WaitInv(n) /\ HeadInv(n)
    /\ ready[n] # <<>> => /\ kt(n).dlist \subseteq dirty \ storing
                          /\ \A m \in Namespace : kt(n).dlist \cap waits[m] = {}
                          /\ \A m \in Heads \ {n} : kt(n).dlist \cap kt(m).dlist = {}

(* A namespace that a step does not touch keeps its part of the invariant. *)
LEMMA UntouchedInv ==
    ASSUME NEW m \in Namespace, RunInv(m), WaitInv(m), HeadInv(m), Untouched(m),
           ready[m] # <<>> /\ kt(m).missing # {}
             => stack' = stack /\ valid' \subseteq valid
    PROVE  RunInv(m)' /\ WaitInv(m)' /\ HeadInv(m)'
<1>1. ready'[m] = ready[m] /\ waits'[m] = waits[m] /\ kt(m)' = kt(m)
      /\ (m \in Running' <=> m \in Running)
  BY DEF Untouched, kt
<1>2. RunInv(m)'  BY <1>1 DEF RunInv
<1>3. WaitInv(m)'  BY <1>1 DEF WaitInv, Untouched
<1>4. HeadInv(m)'  BY <1>1 DEF HeadInv
<1> QED  BY <1>2, <1>3, <1>4

(* A step on behalf of one namespace keeps the invariant if it keeps that    *)
(* namespace's part of it, and touches no other namespace.                  *)
LEMMA OneInv ==
    ASSUME IInv, NEW n \in Namespace, \A m \in Heads \ {n} : kt(m).missing = {},
           TypeOK', StackOrder', CacheInv',
           \A m \in Namespace \ {n} : Untouched(m), DirtyKept(n), Own(n)'
    PROVE  IInv'
<1>1. ASSUME NEW m \in Namespace PROVE RunInv(m)' /\ WaitInv(m)' /\ HeadInv(m)'
  <2>1. CASE m = n  BY <2>1 DEF Own
  <2>2. CASE m # n  BY <2>2, UntouchedInv DEF IInv, Heads
  <2> QED  BY <2>1, <2>2
<1>2. ASSUME NEW m \in Heads' \ {n}
      PROVE  m \in Heads /\ kt(m)' = kt(m)
  BY DEF Heads, kt, Untouched
<1>3. ASSUME NEW m \in Heads', m # n
      PROVE  /\ kt(m)'.dlist \subseteq dirty' \ storing'
             /\ \A l \in Namespace : kt(m)'.dlist \cap waits'[l] = {}
             /\ \A l \in Heads' \ {m} : kt(m)'.dlist \cap kt(l)'.dlist = {}
  <2>1. m \in Heads \ {n} /\ kt(m)' = kt(m)  BY <1>2, <1>3
  <2>2. ASSUME NEW l \in Namespace PROVE kt(m)'.dlist \cap waits'[l] = {}
    <3>1. kt(m).dlist \cap waits[l] = {}  BY <2>1 DEF IInv, DirtyListPrivate
    <3> QED  BY <2>1, <3>1 DEF DirtyKept, Untouched
  <2>3. ASSUME NEW l \in Heads' \ {m} PROVE kt(m)'.dlist \cap kt(l)'.dlist = {}
    <3>1. CASE l = n  BY <1>3, <3>1 DEF Own, Heads
    <3>2. CASE l # n
      <4>1. l \in Heads \ {m} /\ kt(l)' = kt(l)  BY <1>2, <3>2
      <4> QED  BY <2>1, <4>1 DEF IInv, DirtyListPrivate
    <3> QED  BY <3>1, <3>2
  <2> QED  BY <2>1, <2>2, <2>3 DEF DirtyKept
<1>4. n \in Heads' => /\ kt(n)'.dlist \subseteq dirty' \ storing'
                      /\ \A l \in Namespace : kt(n)'.dlist \cap waits'[l] = {}
                      /\ \A l \in Heads' \ {n} : kt(n)'.dlist \cap kt(l)'.dlist = {}
  BY DEF Own, Heads
<1>5. DirtyListPrivate'  BY <1>3, <1>4 DEF DirtyListPrivate
<1> QED  BY <1>1, <1>5 DEF IInv

(* Steps that leave the queues, the stack and the waits alone, and take      *)
(* nothing from the cache but clean entries and those without a waiter.     *)
LEMMA QuietInv ==
    ASSUME IInv,
           UNCHANGED <<ready, stack, waits, dirty, storing>>,
           CacheType', LogType',
           valid' \subseteq valid,
           present \ valid \subseteq present' \ valid',
           present' \ valid' \subseteq loading'
    PROVE  IInv'
<1>1. StackOrder' /\ Running' = Running  BY SameStack DEF IInv
<1>2. TypeOK'  BY DEF IInv, TypeOK, QueueType
<1>3. CacheInv'  BY DEF IInv, CacheInv
<1>4. DirtyListPrivate'  BY DEF IInv, DirtyListPrivate, Heads, kt
<1>5. ASSUME NEW m \in Namespace PROVE RunInv(m)' /\ WaitInv(m)' /\ HeadInv(m)'
  <2>1. Untouched(m)  BY <1>1 DEF Untouched
  <2> QED  BY <2>1, UntouchedInv DEF IInv
<1> QED  BY <1>1, <1>2, <1>3, <1>4, <1>5 DEF IInv

(* What is known inside a call of namespace n. *)
LEMMA CallFacts ==
    ASSUME IInv, NEW n \in Namespace, NEW g, In(g, n)
    PROVE  /\ stack # <<>> /\ Head(stack) = Frame(g, n) /\ stack \in Seq(Call)
           /\ ready \in ReadyType
           /\ g # "check" => /\ n \in Running /\ n \in Heads /\ waits[n] = {}
                             /\ ready[n] # <<>> /\ kt(n) \in Kvstxn
           /\ \A m \in Heads \ {n} : kt(m).missing = {}
<1>1. /\ stack # <<>> /\ Head(stack) = Frame(g, n) /\ stack \in Seq(Call)
      /\ ready \in ReadyType
  BY DEF In, IInv, TypeOK, QueueType
<1>2. ASSUME g # "check" PROVE n \in Running
  <2>1. stack[1] = Frame(g, n) /\ 1 \in DOMAIN stack  BY SMTT(60), <1>1
  <2>2. stack[1].f = g /\ stack[1].ns = n  BY SMTT(60), <2>1 DEF Frame
  <2> QED  BY <1>2, <2>1, <2>2 DEF Running
<1>3. ASSUME g # "check"
      PROVE  /\ n \in Heads /\ waits[n] = {}
             /\ ready[n] # <<>> /\ kt(n) \in Kvstxn
  BY <1>1, <1>2, <1>3, HeadType DEF IInv, RunInv, Heads
<1>4. ASSUME NEW m \in Heads \ {n} PROVE kt(m).missing = {}
  <2>1. Head(stack) # Frame("op", m)  BY SMTT(60), <1>1 DEF Frame
  <2> QED  BY <2>1 DEF IInv, HeadInv, Heads
<1> QED  BY <1>1, <1>2, <1>3, <1>4

(* A step that rewrites the record of the transaction in progress. *)
LEMMA RewriteFacts ==
    ASSUME IInv, NEW n \in Namespace, NEW g, In(g, n), g # "check",
           NEW k \in Kvstxn, ready' = WithHead(n, k)
    PROVE  /\ ready' \in ReadyType /\ ready'[n] # <<>> /\ kt(n)' = k
           /\ \A i \in 2..Len(ready'[n]) : Fresh(ready'[n][i])
           /\ \A m \in Namespace \ {n} : ready'[m] = ready[m] /\ kt(m)' = kt(m)
<1>1. ready \in ReadyType /\ ready[n] # <<>>  BY CallFacts
<1>2. \A i \in 2..Len(ready[n]) : Fresh(ready[n][i])  BY <1>1 DEF IInv, HeadInv
<1> QED  BY SMTT(60), <1>1, <1>2, WithHeadFacts DEF kt

(* The head of the queue of n goes: what is left has not been started. *)
LEMMA RemoveFacts ==
    ASSUME IInv, NEW n \in Namespace, ready[n] # <<>>, NEW fb \in BOOLEAN,
           Remove(n, fb)
    PROVE  /\ ready' \in ReadyType
           /\ \A i \in 1..Len(ready'[n]) : Fresh(ready'[n][i])
           /\ ready'[n] # <<>> => Fresh(kt(n)')
           /\ \A m \in Namespace \ {n} : ready'[m] = ready[m] /\ kt(m)' = kt(m)
<1>1. ready \in ReadyType /\ ready[n] \in Seq(Kvstxn)
  BY DEF IInv, TypeOK, QueueType, ReadyType
<1>2. \A i \in 2..Len(ready[n]) : Fresh(ready[n][i])  BY DEF IInv, HeadInv
<1>3. PICK c \in Leading(ready[n]) :
             ready' = [ready EXCEPT ![n] = RemoveHead(@, c, fb)]
  BY DEF Remove
<1>4. c \in Nat  BY SMTT(60) DEF Leading
<1>5. /\ RemoveHead(ready[n], c, fb) \in Seq(Kvstxn)
      /\ \A i \in 1..Len(RemoveHead(ready[n], c, fb)) :
            Fresh(RemoveHead(ready[n], c, fb)[i])
  BY <1>1, <1>2, <1>4, RemoveHeadFacts
<1>6. /\ ready' \in ReadyType /\ ready'[n] = RemoveHead(ready[n], c, fb)
      /\ \A m \in Namespace \ {n} : ready'[m] = ready[m]
  BY <1>1, <1>3, <1>5 DEF ReadyType
<1>7. ready'[n] # <<>> => kt(n)' = ready'[n][1] /\ 1 \in 1..Len(ready'[n])
  BY SMTT(60), <1>6, <1>5 DEF kt
<1> QED  BY <1>5, <1>6, <1>7 DEF kt

(* Only the calls and the record of a transaction change. *)
CallOnly == UNCHANGED <<root, cacheVars, waits, rpcVars, sent, events, aborted>>

(* What such a step of namespace n owes. *)
LEMMA CallInv ==
    ASSUME IInv, NEW n \in Namespace, CallOnly,
           \A m \in Heads \ {n} : kt(m).missing = {},
           ready' \in ReadyType, \A m \in Namespace \ {n} : ready'[m] = ready[m],
           stack' \in Seq(Call), StackOrder',
           \A m \in Namespace \ {n} : m \in Running' <=> m \in Running,
           RunInv(n)', WaitInv(n)', HeadInv(n)',
           ready'[n] # <<>> => \/ kt(n)'.dlist = {}
                               \/ n \in Heads /\ kt(n)'.dlist = kt(n).dlist
    PROVE  IInv'
<1>1. TypeOK' /\ CacheInv'
  <2>1. QueueType'  BY DEF IInv, TypeOK, QueueType, CallOnly
  <2>2. CacheType'  BY DEF IInv, TypeOK, CacheType, CallOnly, cacheVars, rpcVars
  <2>3. LogType'  BY DEF IInv, TypeOK, LogType, CallOnly, rpcVars
  <2>4. CacheInv'  BY DEF IInv, CacheInv, CallOnly, cacheVars, rpcVars
  <2> QED  BY <2>1, <2>2, <2>3, <2>4 DEF TypeOK
<1>2. \A m \in Namespace \ {n} : Untouched(m)
  BY DEF Untouched, CallOnly, cacheVars, rpcVars
<1>3. DirtyListPrivate /\ dirty' = dirty /\ storing' = storing /\ waits' = waits
  BY DEF IInv, CallOnly, cacheVars, rpcVars
<1>4. DirtyKept(n)  BY <1>3 DEF DirtyKept, DirtyListPrivate
<1>5. Own(n)'
  <2>1. \A m \in Heads' \ {n} : m \in Heads /\ kt(m)' = kt(m)  BY DEF Heads, kt
  <2>2. n \in Heads => /\ kt(n).dlist \subseteq dirty' \ storing'
                       /\ \A m \in Namespace : kt(n).dlist \cap waits'[m] = {}
                       /\ \A m \in Heads \ {n} : kt(n).dlist \cap kt(m).dlist = {}
    BY <1>3 DEF DirtyListPrivate
  <2> QED  BY <2>1, <2>2 DEF Own
<1> QED  BY <1>1, <1>2, <1>4, <1>5, OneInv

(* The calls that only look at the queues: nothing but the stack changes. *)
LEMMA StackInv ==
    ASSUME IInv, CallOnly, ready' = ready, \A m \in Heads : kt(m).missing = {},
           stack' \in Seq(Call), StackOrder', Running' = Running
    PROVE  IInv'
<1>1. TypeOK' /\ CacheInv'
  <2>1. QueueType'  BY DEF IInv, TypeOK, QueueType, CallOnly
  <2>2. CacheType'  BY DEF IInv, TypeOK, CacheType, CallOnly, cacheVars, rpcVars
  <2>3. LogType'  BY DEF IInv, TypeOK, LogType, CallOnly, rpcVars
  <2>4. CacheInv'  BY DEF IInv, CacheInv, CallOnly, cacheVars, rpcVars
  <2> QED  BY <2>1, <2>2, <2>3, <2>4 DEF TypeOK
<1>2. \A m \in Namespace : Untouched(m)
  BY DEF Untouched, CallOnly, cacheVars, rpcVars
<1>3. \A m \in Namespace : RunInv(m)' /\ WaitInv(m)' /\ HeadInv(m)'
  BY <1>2, UntouchedInv DEF IInv, Heads
<1>4. DirtyListPrivate'
  BY DEF IInv, DirtyListPrivate, Heads, kt, CallOnly, cacheVars, rpcVars
<1> QED  BY <1>1, <1>3, <1>4 DEF IInv

(* The transaction in progress goes on, with a new record. *)
LEMMA GotoInv ==
    ASSUME IInv, NEW n \in Namespace, NEW g, In(g, n), g # "check",
           NEW f, Frame(f, n) \in Call, f # "check",
           NEW k \in Kvstxn, k.missing = {}, k.dlist = kt(n).dlist,
           ready' = WithHead(n, k), Become(f), CallOnly
    PROVE  IInv'
<1>1. /\ stack # <<>> /\ Head(stack) = Frame(g, n) /\ stack \in Seq(Call)
      /\ n \in Running /\ n \in Heads /\ waits[n] = {}
      /\ \A m \in Heads \ {n} : kt(m).missing = {}
  BY CallFacts
<1>2. /\ ready' \in ReadyType /\ ready'[n] # <<>> /\ kt(n)' = k
      /\ \A i \in 2..Len(ready'[n]) : Fresh(ready'[n][i])
      /\ \A m \in Namespace \ {n} : ready'[m] = ready[m]
  BY RewriteFacts
<1>3. stack' \in Seq(Call) /\ StackOrder' /\ Running' = Running
  <2>1. StackOrder  BY DEF IInv
  <2>2. stack' \in Seq(Call) /\ StackOrder' /\ Running' = Running \cup {n}
    BY <1>1, <2>1, BecomeFacts
  <2> QED  BY <1>1, <2>2
<1>4. RunInv(n)' /\ WaitInv(n)' /\ HeadInv(n)'
  <2>1. waits'[n] = {}  BY <1>1 DEF CallOnly
  <2> QED  BY <1>1, <1>2, <1>3, <2>1 DEF RunInv, WaitInv, HeadInv
<1> QED  BY <1>1, <1>2, <1>3, <1>4, CallInv

----------------------------------------------------------------------------
(* The moves *)

(* The transaction ends, with an error or not: it leaves the queue, and the  *)
(* entries D of its dirty list may leave the cache.                         *)
LEMMA EndInv ==
    ASSUME IInv, NEW n \in Namespace, NEW g, In(g, n), g # "check",
           NEW fb \in BOOLEAN, Remove(n, fb), Return,
           NEW D \in SUBSET kt(n).dlist,
           present' = present \ D, valid' = valid \ D, dirty' = dirty \ D,
           root' \in RootType, events' \in Seq(Event), fails' \in 0..MaxFail,
           UNCHANGED <<waits, loading, storing, stored, faults, sent, aborted>>
    PROVE  IInv'
<1>1. /\ stack # <<>> /\ Head(stack) = Frame(g, n) /\ stack \in Seq(Call)
      /\ n \in Heads /\ waits[n] = {} /\ ready[n] # <<>>
      /\ \A m \in Heads \ {n} : kt(m).missing = {}
  BY CallFacts
<1>2. stack' \in Seq(Call) /\ StackOrder' /\ Running' = Running \ {n}
  <2>1. StackOrder  BY DEF IInv
  <2> QED  BY <1>1, <2>1, ReturnFacts
<1>3. /\ ready' \in ReadyType
      /\ \A i \in 1..Len(ready'[n]) : Fresh(ready'[n][i])
      /\ ready'[n] # <<>> => Fresh(kt(n)')
      /\ \A m \in Namespace \ {n} : ready'[m] = ready[m] /\ kt(m)' = kt(m)
  BY <1>1, RemoveFacts
<1>4. /\ D \subseteq dirty \ storing /\ \A m \in Namespace : D \cap waits[m] = {}
      /\ \A m \in Heads \ {n} : D \cap kt(m).dlist = {}
  BY <1>1 DEF IInv, DirtyListPrivate
<1>5. TypeOK' /\ CacheInv'
  <2>1. QueueType'  BY <1>2, <1>3 DEF IInv, TypeOK, QueueType
  <2>2. CacheType'  BY DEF IInv, TypeOK, CacheType
  <2>3. LogType'  BY DEF IInv, TypeOK, LogType
  <2>4. CacheInv'  BY <1>4 DEF IInv, CacheInv
  <2> QED  BY <2>1, <2>2, <2>3, <2>4 DEF TypeOK
<1>6. \A m \in Namespace \ {n} : Untouched(m)
  BY <1>2, <1>3, <1>4 DEF Untouched
<1>7. DirtyKept(n)  BY <1>1, <1>4 DEF DirtyKept, IInv, DirtyListPrivate
<1>8. Own(n)'
  <2>1. RunInv(n)' /\ WaitInv(n)'  BY <1>1, <1>2 DEF RunInv, WaitInv
  <2>2. HeadInv(n)'  BY SMTT(60), <1>3 DEF HeadInv, Fresh
  <2>3. ready'[n] # <<>> => kt(n)'.dlist = {}  BY <1>3 DEF Fresh
  <2> QED  BY <2>1, <2>2, <2>3 DEF Own
<1> QED  BY <1>1, <1>2, <1>5, <1>6, <1>7, <1>8, OneInv

(* A transaction that fails leaves the queue, and its request is answered,   *)
(* unless those merged into it are tried one by one.                        *)
LEMMA FailInv ==
    ASSUME IInv, NEW n \in Namespace, NEW g, In(g, n), g # "check",
           NEW e \in Errnum, Fail(n, e),
           NEW D \in SUBSET kt(n).dlist,
           present' = present \ D, valid' = valid \ D, dirty' = dirty \ D,
           fails' \in 0..MaxFail,
           UNCHANGED <<root, waits, loading, storing, stored, faults, sent, aborted>>
    PROVE  IInv'
<1>1. kt(n) \in Kvstxn  BY CallFacts
<1>2. Fallback(kt(n), e) \in BOOLEAN /\ kt(n).names \in Seq(Txn)
  BY <1>1 DEF Fallback, Kvstxn
<1>3. root' \in RootType  BY DEF IInv, TypeOK, LogType
<1>4. events' \in Seq(Event)
  <2>1. [ns |-> n, names |-> kt(n).names, err |-> e, seq |-> root[n].seq,
         ref |-> root[n].ref] \in Event
    BY <1>2 DEF Event, IInv, TypeOK, LogType, RootType
  <2> QED  BY SMTT(60), <2>1 DEF Fail, IInv, TypeOK, LogType
<1>5. Return /\ Remove(n, Fallback(kt(n), e))
  BY DEF Fail
<1> QED  BY <1>2, <1>3, <1>4, <1>5, EndInv

(* The two ways to block: LOAD_ROOT or APPLY_OPS sends requests for missing  *)
(* directories, or PRE_FINISHED sends entries of the dirty list.            *)
Stall(n, k, S, D) ==
    \/ /\ \A b \in S : b \notin valid /\ b.k = "dir"
       /\ present' = present \cup S /\ loading' = loading \cup (S \ present)
       /\ D = {} /\ k.dlist = kt(n).dlist
       /\ UNCHANGED <<valid, dirty, storing>>
    \/ /\ S \subseteq kt(n).dlist \ D /\ storing' = storing \cup S
       /\ k.dlist = {}
       /\ present' = present \ D /\ valid' = valid \ D /\ dirty' = dirty \ D
       /\ UNCHANGED loading
Block(n, k, S, D) ==
    /\ k.blocked /\ k.missing = {} /\ ready' = WithHead(n, k) /\ Return
    /\ waits' = [waits EXCEPT ![n] = S]
    /\ Stall(n, k, S, D)
    /\ fails' \in 0..MaxFail
    /\ UNCHANGED <<root, stored, faults, sent, events, aborted>>

(* The transaction blocks on a set S of entries: on missing directories, or  *)
(* on entries of its dirty list that it sends to be stored, while entries D *)
(* of that list leave the cache.                                            *)
LEMMA BlockInv ==
    ASSUME IInv, NEW n \in Namespace, NEW g, In(g, n), g # "check",
           NEW k \in Kvstxn, NEW S \in SUBSET Blob, S # {},
           NEW D \in SUBSET kt(n).dlist, Block(n, k, S, D)
    PROVE  IInv'
<1>1. /\ stack # <<>> /\ Head(stack) = Frame(g, n) /\ stack \in Seq(Call)
      /\ n \in Heads /\ waits[n] = {}
      /\ \A m \in Heads \ {n} : kt(m).missing = {}
  BY CallFacts
<1>2. stack' \in Seq(Call) /\ StackOrder' /\ Running' = Running \ {n}
  <2>1. StackOrder /\ Return  BY DEF IInv, Block
  <2> QED  BY <1>1, <2>1, ReturnFacts
<1>3. /\ ready' \in ReadyType /\ ready'[n] # <<>> /\ kt(n)' = k
      /\ \A i \in 2..Len(ready'[n]) : Fresh(ready'[n][i])
      /\ \A m \in Namespace \ {n} : ready'[m] = ready[m] /\ kt(m)' = kt(m)
  <2>1. ready' = WithHead(n, k)  BY DEF Block
  <2> QED  BY <2>1, RewriteFacts
<1>4. /\ waits' \in [Namespace -> SUBSET Blob] /\ waits'[n] = S
      /\ \A m \in Namespace \ {n} : waits'[m] = waits[m]
  BY DEF IInv, TypeOK, QueueType, Block
<1>5. /\ kt(n).dlist \subseteq dirty \ storing
      /\ \A m \in Namespace : kt(n).dlist \cap waits[m] = {}
      /\ \A m \in Heads \ {n} : kt(n).dlist \cap kt(m).dlist = {}
      /\ dirty \subseteq valid /\ valid \subseteq present
  BY <1>1 DEF IInv, DirtyListPrivate, TypeOK, CacheType
<1>6. Stall(n, k, S, D)  BY DEF Block
<1>7. TypeOK' /\ CacheInv'
  <2>1. QueueType'  BY <1>2, <1>3, <1>4 DEF QueueType
  <2>2. CacheType'  BY <1>6 DEF IInv, TypeOK, CacheType, Block, Stall
  <2>3. LogType'  BY DEF IInv, TypeOK, LogType, Block
  <2>4. CacheInv'  BY <1>5, <1>6 DEF IInv, CacheInv, Stall
  <2> QED  BY <2>1, <2>2, <2>3, <2>4 DEF TypeOK
<1>8. \A m \in Namespace \ {n} : Untouched(m)
  BY <1>2, <1>3, <1>4, <1>5, <1>6 DEF Untouched, Stall
<1>9. DirtyKept(n)
  <2> SUFFICES ASSUME NEW m \in Heads \ {n}
               PROVE  /\ kt(m).dlist \subseteq dirty' \ storing'
                      /\ kt(m).dlist \cap S = {}
    BY <1>4 DEF DirtyKept
  <2>1. /\ kt(m).dlist \subseteq dirty \ storing
        /\ kt(m).dlist \cap kt(n).dlist = {}
    BY <1>1 DEF IInv, DirtyListPrivate
  <2> QED  BY <1>5, <1>6, <2>1 DEF Stall
<1>10. Own(n)'
  <2>1. RunInv(n)'  BY <1>2 DEF RunInv
  <2>2. WaitInv(n)'  BY <1>3, <1>4, <1>6 DEF WaitInv, Stall, Block
  <2>3. HeadInv(n)'  BY <1>3, <1>4 DEF HeadInv, Block
  <2>4. /\ k.dlist \subseteq dirty' \ storing' /\ k.dlist \cap S = {}
        /\ k.dlist \subseteq kt(n).dlist
    BY <1>5, <1>6 DEF Stall
  <2>5. \A m \in Namespace : k.dlist \cap waits'[m] = {}  BY <1>4, <1>5, <2>4
  <2>6. \A m \in Heads' \ {n} : m \in Heads /\ kt(m)' = kt(m)  BY <1>3 DEF Heads
  <2> QED  BY <2>1, <2>2, <2>3, <2>4, <2>5, <2>6, <1>3, <1>5 DEF Own
<1> QED  BY <1>1, <1>2, <1>7, <1>8, <1>9, <1>10, OneInv

(* Writing the head of a queue back changes nothing. *)
LEMMA SameHead ==
    ASSUME ready \in ReadyType, NEW n \in Namespace, ready[n] # <<>>
    PROVE  WithHead(n, kt(n)) = ready
<1>1. ready[n] \in Seq(Kvstxn)  BY DEF ReadyType
<1>2. <<Head(ready[n])>> \o Tail(ready[n]) = ready[n]  BY SMTT(60), <1>1
<1> QED  BY SMTT(60) DEF WithHead, kt, ReadyType

(* What a step that runs the waiters of entry b leaves of the queue of m. *)
Resumed(m) ==
    /\ Len(ready'[m]) = Len(ready[m])
    /\ ready'[m] = <<>> <=> ready[m] = <<>>
    /\ \A i \in 2..Len(ready[m]) : ready'[m][i] = ready[m][i]
    /\ ready[m] # <<>> => /\ kt(m)'.blocked = kt(m).blocked
                          /\ kt(m).missing = {} /\ kt(m)'.missing = {}
                          /\ m \in Running \/ kt(m)'.dlist = kt(m).dlist

(* The waiters of an entry run: what an answer or a store owes the others.   *)
LEMMA WakeInv ==
    ASSUME IInv, NEW b \in Blob, Wake(b), ready' \in ReadyType,
           \A m \in Namespace : Resumed(m),
           \A c \in Blob \ {b} : /\ c \in present \ valid => c \in present' \ valid'
                                 /\ c \in storing => c \in storing',
           CacheType', LogType', CacheInv', DirtyListPrivate'
    PROVE  IInv'
<1>1. /\ waits' \in [Namespace -> SUBSET Blob]
      /\ \A n \in Namespace : waits'[n] = waits[n] \ {b}
      /\ stack' \in Seq(Call) /\ StackOrder'
      /\ Running' = Running \cup {n \in Namespace : waits[n] = {b}}
  BY WakeFacts DEF IInv, TypeOK, QueueType
<1>2. TypeOK'  BY <1>1 DEF TypeOK, QueueType
<1>3. ASSUME NEW m \in Namespace PROVE RunInv(m)' /\ WaitInv(m)' /\ HeadInv(m)'
  <2>1. RunInv(m) /\ WaitInv(m) /\ HeadInv(m) /\ Resumed(m)  BY DEF IInv
  <2>2. /\ waits'[m] = waits[m] \ {b} /\ waits[m] \subseteq Blob
        /\ m \in Running' <=> m \in Running \/ waits[m] = {b}
    BY <1>1 DEF IInv, TypeOK, QueueType
  <2>3. RunInv(m)'  BY <2>1, <2>2 DEF RunInv, WaitInv, Resumed
  <2>4. WaitInv(m)'
    <3>1. \A c \in waits'[m] : c \in Blob \ {b} /\
            ((c \in present \ valid /\ c.k = "dir") \/ c \in storing)
      BY <2>1, <2>2 DEF WaitInv
    <3>2. waits'[m] # {} => ready'[m] # <<>> /\ kt(m)'.blocked
      BY <2>1, <2>2 DEF WaitInv, Resumed
    <3> QED  BY <3>1, <3>2 DEF WaitInv
  <2>5. HeadInv(m)'
    <3> SUFFICES ASSUME ready'[m] # <<>> PROVE HeadInv(m)'  BY DEF HeadInv
    <3>1. \A i \in 2..Len(ready'[m]) : Fresh(ready'[m][i])
      BY <2>1 DEF HeadInv, Resumed
    <3>2. kt(m)'.blocked => waits'[m] # {} \/ m \in Running'
      <4>1. ready[m] # <<>>
        BY <2>1 DEF Resumed
      <4>2. kt(m)'.blocked = kt(m).blocked
        BY <2>1, <4>1 DEF Resumed
      <4>3. kt(m).blocked => waits[m] # {} \/ m \in Running
        BY <2>1, <4>1 DEF HeadInv
      <4>4. waits[m] # {} => waits'[m] # {} \/ waits[m] = {b}
        BY <2>2
      <4> QED  BY <2>2, <4>2, <4>3, <4>4
    <3>3. ~kt(m)'.blocked /\ m \notin Running' => Fresh(kt(m)')
      BY <2>1, <2>2 DEF HeadInv, Resumed, Fresh
    <3> QED  BY <2>1, <3>1, <3>2, <3>3 DEF HeadInv, Resumed
  <2> QED  BY <2>3, <2>4, <2>5
<1> QED  BY <1>1, <1>2, <1>3 DEF IInv

----------------------------------------------------------------------------
(* The steps of a callback: the check callback, merging, and kvstxn_apply() *)

(* One turn of the loop over the operations: values R enter the cache. *)
Enter(n, R) ==
    /\ present' = present \cup R /\ valid' = valid \cup R /\ dirty' = dirty \cup R
    /\ UNCHANGED <<root, waits, rpcVars, events, stack, sent, aborted>>

(* It keeps the invariant: the values are dirty and nobody waits for them. *)
LEMMA OpInv ==
    ASSUME IInv, NEW n \in Namespace, In("op", n),
           NEW k \in Kvstxn, ready' = WithHead(n, k),
           NEW R \in SUBSET (Blob \ valid), \A b \in R : b.k = "raw",
           k.dlist = kt(n).dlist \cup R,
           \A b \in k.missing : b \notin valid /\ b.k = "dir",
           Enter(n, R)
    PROVE  IInv'
<1>1. /\ stack # <<>> /\ Head(stack) = Frame("op", n)
      /\ n \in Running /\ n \in Heads /\ waits[n] = {}
      /\ \A m \in Heads \ {n} : kt(m).missing = {}
  BY SMTT(60), CallFacts
<1>2. StackOrder' /\ Running' = Running  BY SameStack DEF IInv, Enter
<1>3. /\ ready' \in ReadyType /\ ready'[n] # <<>> /\ kt(n)' = k
      /\ \A i \in 2..Len(ready'[n]) : Fresh(ready'[n][i])
      /\ \A m \in Namespace \ {n} : ready'[m] = ready[m] /\ kt(m)' = kt(m)
  BY RewriteFacts
<1>4. dirty \subseteq valid /\ storing \subseteq dirty /\ valid \subseteq present
  BY DEF IInv, TypeOK, CacheType, CacheInv
<1>5. \A m \in Namespace : waits[m] \cap R = {}
  BY <1>4 DEF IInv, WaitInv
<1>6. TypeOK' /\ CacheInv'
  <2>1. QueueType'  BY <1>3 DEF IInv, TypeOK, QueueType, Enter
  <2>2. CacheType'  BY DEF IInv, TypeOK, CacheType, Enter, rpcVars
  <2>3. LogType'  BY DEF IInv, TypeOK, LogType, Enter, rpcVars
  <2>4. CacheInv'  BY DEF IInv, CacheInv, Enter, rpcVars
  <2> QED  BY <2>1, <2>2, <2>3, <2>4 DEF TypeOK
<1>7. \A m \in Namespace \ {n} : Untouched(m)
  BY <1>2, <1>3, <1>5 DEF Untouched, Enter, rpcVars
<1>8. /\ \A m \in Heads : kt(m).dlist \subseteq dirty \ storing
      /\ \A m \in Heads \ {n} : kt(n).dlist \cap kt(m).dlist = {}
      /\ \A m \in Namespace : kt(n).dlist \cap waits[m] = {}
  BY <1>1 DEF IInv, DirtyListPrivate
<1>9. DirtyKept(n)  BY <1>1, <1>8 DEF DirtyKept, Enter, rpcVars
<1>10. Own(n)'
  <2>1. RunInv(n)' /\ WaitInv(n)'  BY <1>1, <1>3 DEF RunInv, WaitInv, Enter
  <2>2. \A b \in k.missing : b \notin valid'  BY DEF Enter
  <2>3. HeadInv(n)'  BY <1>1, <1>2, <1>3, <2>2 DEF HeadInv, Enter
  <2>4. /\ k.dlist \subseteq dirty' \ storing'
        /\ \A m \in Namespace : k.dlist \cap waits'[m] = {}
        /\ \A m \in Heads \ {n} : k.dlist \cap kt(m).dlist = {}
    BY <1>1, <1>4, <1>5, <1>8 DEF Enter, rpcVars
  <2>5. \A m \in Heads' \ {n} : m \in Heads /\ kt(m)' = kt(m)  BY <1>3 DEF Heads
  <2> QED  BY <1>3, <2>1, <2>3, <2>4, <2>5 DEF Own
<1> QED  BY <1>1, <1>2, <1>6, <1>7, <1>9, <1>10, OneInv

(* load() for every missing object: the transaction blocks, or fails.       *)
LEMMA LoadMissingInv ==
    ASSUME IInv, NEW n \in Namespace, NEW g, In(g, n), g # "check",
           NEW k \in Kvstxn, LoadMissing(n, k),
           k.dlist = kt(n).dlist, k.missing # {},
           \A b \in k.missing : b \notin valid /\ b.k = "dir",
           UNCHANGED <<root, valid, dirty, storing, stored, faults, sent, aborted>>
    PROVE  IInv'
<1> DEFINE stall(e) == LoadStall(k, e)
           block(S, e) == /\ waits' = [waits EXCEPT ![n] = S]
                          /\ present' = present \cup S
                          /\ loading' = loading \cup (S \ present)
                          /\ ready' = WithHead(n, stall(e))
                          /\ Return /\ UNCHANGED events
<1>1. \A e \in Errnum : /\ stall(e) \in Kvstxn /\ stall(e).blocked
                        /\ stall(e).missing = {} /\ stall(e).dlist = kt(n).dlist
  BY DEF Kvstxn, LoadStall
<1>2. k.missing \subseteq Blob /\ "ok" \in Errnum /\ "EIO" \in Errnum
  BY DEF Kvstxn, Errnum
<1>3. ASSUME NEW S \in SUBSET k.missing, NEW e \in Errnum, S # {}, block(S, e),
             fails' \in 0..MaxFail
      PROVE  IInv'
  <2> HIDE DEF stall
  <2>1. S \in SUBSET Blob /\ \A b \in S : b \notin valid /\ b.k = "dir"
    BY <1>2
  <2>2. /\ stall(e) \in Kvstxn /\ stall(e).blocked
        /\ stall(e).missing = {} /\ stall(e).dlist = kt(n).dlist
    BY <1>1
  <2>3. {} \in SUBSET kt(n).dlist  OBVIOUS
  <2>4. Block(n, stall(e), S, {})
    BY <1>3, <2>1, <2>2 DEF Block, Stall
  <2> QED  BY <1>3, <2>1, <2>2, <2>3, <2>4, BlockInv
<1>4. CASE block(k.missing, "ok") /\ UNCHANGED fails
  <2>1. fails' \in 0..MaxFail  BY <1>4 DEF IInv, TypeOK, LogType
  <2> HIDE DEF block
  <2> QED  BY <1>2, <1>3, <1>4, <2>1
<1>5. ASSUME NEW S \in SUBSET k.missing, fails < MaxFail, fails' = fails + 1,
             \/ S # {} /\ block(S, "EIO")
             \/ S = {} /\ Fail(n, "EIO") /\ UNCHANGED <<waits, present, loading>>
      PROVE  IInv'
  <2>1. fails' \in 0..MaxFail  BY SMTT(60), <1>5, BoundAssumption DEF IInv, TypeOK, LogType
  <2> HIDE DEF block
  <2>2. CASE S # {} /\ block(S, "EIO")  BY <1>2, <1>3, <2>1, <2>2
  <2>3. CASE Fail(n, "EIO") /\ UNCHANGED <<waits, present, loading>>
    <3>1. /\ {} \in SUBSET kt(n).dlist /\ present' = present \ {}
          /\ valid' = valid \ {} /\ dirty' = dirty \ {}
      BY <2>3
    <3> QED  BY <1>2, <2>1, <2>3, <3>1, FailInv
  <2> QED  BY <1>5, <2>2, <2>3
<1> QED  BY <1>4, <1>5 DEF LoadMissing

(* The steps of kvstxn_apply() that come first. *)
LEMMA ApplyInv == ASSUME IInv, NEW n \in Namespace, Apply(n) PROVE IInv'
<1> DEFINE k == kt(n)
           goto(st, f) == /\ ready' = WithHead(n, st) /\ Become(f)
                          /\ UNCHANGED <<waits, present, loading, fails, events>>
           go == [k EXCEPT !.state = "APPLY_OPS", !.i = 1, !.cpy = root[n].ref]
           ld == [k EXCEPT !.state = "LOAD_ROOT", !.missing = {DirBlob(root[n].ref)}]
           re == [k EXCEPT !.i = 1]
           rest == UNCHANGED <<root, valid, dirty, storing, stored, faults, sent,
                               aborted>>
<1>1. In("apply", n) /\ rest  BY DEF Apply
<1>2. /\ k \in Kvstxn /\ n \in Heads /\ ready[n] # <<>> /\ ready \in ReadyType
      /\ Head(stack) = Frame("apply", n)
  BY SMTT(60), <1>1, CallFacts
<1>3. root[n].ref \in Dir /\ root[n].ref \in WorkDir  
  BY LeafType DEF IInv, TypeOK, LogType, RootType
<1>4. k.missing = {}
  <2>1. Frame("apply", n) # Frame("op", n)  BY DEF Frame
  <2> QED  BY <1>2, <2>1 DEF IInv, HeadInv
<1>5. \/ /\ \E e \in Errnum : Fail(n, e)
         /\ UNCHANGED <<waits, present, loading, fails>>
      \/ goto(go, "op")
      \/ DirBlob(root[n].ref) \notin valid /\ LoadMissing(n, ld)
      \/ goto(re, "op")
      \/ goto(k, "flush")
  <2>1. CASE Removed(n)
    BY <2>1 DEF Apply, Errnum
  <2>2. CASE ~Removed(n) /\ k.aux # "ok"
    BY <2>2, <1>2 DEF Apply, Kvstxn
  <2>3. CASE ~Removed(n) /\ k.aux = "ok"
    BY <2>3, Zenon DEF Apply
  <2> QED  BY <2>1, <2>2, <2>3
<1>6. CASE /\ \E e \in Errnum : Fail(n, e)
           /\ UNCHANGED <<waits, present, loading, fails>>
  <2>1. /\ {} \in SUBSET kt(n).dlist /\ present' = present \ {}
        /\ valid' = valid \ {} /\ dirty' = dirty \ {} /\ fails' \in 0..MaxFail
    BY <1>1, <1>6 DEF IInv, TypeOK, LogType
  <2> QED  BY <1>1, <1>6, <2>1, FailInv
<1>7. ASSUME NEW st \in Kvstxn, NEW f \in {"op", "flush"}, goto(st, f),
             st.dlist = k.dlist, st.missing = {}
      PROVE  IInv'
  <2>1. Frame(f, n) \in Call /\ f # "check"  BY DEF Frame, Call
  <2>2. CallOnly  BY <1>1, <1>7 DEF CallOnly, cacheVars, rpcVars
  <2> QED  BY <1>1, <1>7, <2>1, <2>2, GotoInv
<1>8. /\ go \in Kvstxn /\ go.dlist = k.dlist /\ go.missing = {}
      /\ re \in Kvstxn /\ re.dlist = k.dlist /\ re.missing = {}
  <2> HIDE DEF k
  <2>1. k.missing = {} /\ k \in Kvstxn /\ 1 \in OpIndex
    BY SMTT(60), <1>2, <1>4 DEF OpIndex
  <2>2. re \in Kvstxn /\ re.dlist = k.dlist /\ re.missing = {}
    BY <2>1 DEF Kvstxn
  <2>3. "APPLY_OPS" \in TxnState  BY DEF TxnState
  <2>4. go \in Kvstxn /\ go.dlist = k.dlist /\ go.missing = {}
    BY <2>1, <2>3, <1>3 DEF Kvstxn
  <2> QED  BY <2>2, <2>4
<1>9. /\ ld \in Kvstxn /\ ld.dlist = k.dlist /\ ld.missing = {DirBlob(root[n].ref)}
      /\ DirBlob(root[n].ref).k = "dir"
  <2> HIDE DEF k
  <2>1. DirBlob(root[n].ref) \in Blob  BY <1>3 DEF DirBlob, Blob
  <2> QED  BY <1>2, <1>3, <2>1 DEF Kvstxn, TxnState, DirBlob
<1>10. CASE DirBlob(root[n].ref) \notin valid /\ LoadMissing(n, ld)
  <2> HIDE DEF ld
  <2> QED  BY <1>1, <1>9, <1>10, LoadMissingInv
<1> HIDE DEF goto, go, re, ld
<1> QED  BY <1>2, <1>4, <1>5, <1>6, <1>7, <1>8, <1>10

(* The loop of APPLY_OPS. *)
LEMMA ApplyOpInv == ASSUME IInv, NEW n \in Namespace, ApplyOp(n) PROVE IInv'
<1> DEFINE k == kt(n)
           o == k.ops[k.i]
           r == LinkDirent(k.cpy, o, valid)
           raws == {Raw(x) : x \in r.raws} \ valid
<1>1. In("op", n) /\ UNCHANGED <<root, storing, stored, faults, sent, aborted>>
  BY DEF ApplyOp
<1>2. /\ k \in Kvstxn /\ n \in Heads /\ ready[n] # <<>> /\ ready \in ReadyType
      /\ Head(stack) = Frame("op", n)
  BY SMTT(60), <1>1, CallFacts
<1>3. \A b \in k.missing : b \notin valid /\ b.k = "dir"
  BY <1>2 DEF IInv, HeadInv
<1>4. CASE k.i > Len(k.ops) /\ k.missing # {}
  <2>1. LoadMissing(n, k) /\ UNCHANGED <<valid, dirty>>  BY <1>4 DEF ApplyOp
  <2>2. k.dlist = kt(n).dlist  OBVIOUS
  <2> HIDE DEF k
  <2> QED  BY <1>1, <1>2, <1>3, <1>4, <2>1, <2>2, LoadMissingInv
<1>5. CASE k.i > Len(k.ops) /\ k.missing = {}
  <2> DEFINE st == [k EXCEPT !.state = "STORE", !.tostore = Unrolled(k.cpy)]
  <2>1. /\ ready' = WithHead(n, st) /\ Become("store")
        /\ UNCHANGED <<waits, present, loading, fails, events, valid, dirty>>
    BY <1>5 DEF ApplyOp
  <2>2. Unrolled(k.cpy) \subseteq Blob /\ "STORE" \in TxnState
    BY <1>2, UnrollType DEF Kvstxn, TxnState
  <2>3. st \in Kvstxn /\ st.dlist = kt(n).dlist /\ st.missing = {}
    <3>1. k.dlist = kt(n).dlist  OBVIOUS
    <3> HIDE DEF k
    <3> QED  BY <1>2, <1>5, <2>2, <3>1 DEF Kvstxn
  <2>4. Frame("store", n) \in Call  BY DEF Frame, Call
  <2>5. CallOnly  BY <1>1, <2>1 DEF CallOnly, cacheVars, rpcVars
  <2> HIDE DEF st
  <2> QED  BY <1>1, <2>1, <2>3, <2>4, <2>5, GotoInv
<1>6. CASE ~(k.i > Len(k.ops))
  <2>1. o \in Op
    <3>1. k.ops \in Seq(Op) /\ k.i \in Nat \ {0}  BY <1>2 DEF Kvstxn, OpIndex
    <3> QED  BY SMTT(60), <3>1, <1>6
  <2>2. /\ k.cpy \in WorkDir /\ k.i \in OpIndex /\ k.missing \subseteq Blob
        /\ k.dlist \subseteq Blob
    BY <1>2 DEF Kvstxn
  <2>3. /\ r.dir \in WorkDir /\ r.raws \subseteq Data
        /\ r.err \in {"ok", "EISDIR", "EINVAL", "missing"}
    <3> HIDE DEF o, k
    <3> QED  BY <2>1, <2>2, LinkDirentType
  <2>4. CASE r.err \in {"EINVAL", "EISDIR"}
    <3>1. Fail(n, r.err) /\ UNCHANGED <<present, valid, dirty, waits, loading, fails>>
      BY <1>6, <2>4 DEF ApplyOp, cacheVars
    <3>2. /\ {} \in SUBSET kt(n).dlist /\ present' = present \ {}
          /\ valid' = valid \ {} /\ dirty' = dirty \ {} /\ fails' \in 0..MaxFail
      BY <3>1 DEF IInv, TypeOK, LogType
    <3>3. r.err \in Errnum  BY <2>4 DEF Errnum
    <3> HIDE DEF r
    <3> QED  BY <1>1, <3>1, <3>2, <3>3, FailInv
  <2>5. CASE r.err \notin {"EINVAL", "EISDIR"}
    <3> DEFINE miss == IF r.err = "missing"
                       THEN k.missing \cup {DirBlob(k.cpy[o.dir].sub)}
                       ELSE k.missing
               st == [k EXCEPT !.i = @ + 1, !.cpy = r.dir, !.dlist = @ \cup raws,
                        !.missing = IF r.err = "missing"
                          THEN @ \cup {DirBlob(k.cpy[o.dir].sub)} ELSE @]
    <3>1. /\ present' = present \cup raws /\ valid' = valid \cup raws
          /\ dirty' = dirty \cup raws /\ ready' = WithHead(n, st)
          /\ UNCHANGED <<events, stack, waits, loading, fails>>
      BY <1>6, <2>5 DEF ApplyOp
    <3>2. raws \in SUBSET (Blob \ valid) /\ \A b \in raws : b.k = "raw"
      <4> HIDE DEF r
      <4> QED  BY SMTT(60), <2>3 DEF Raw, Blob
    <3>3. miss \subseteq Blob /\ \A b \in miss : b \notin valid /\ b.k = "dir"
      <4>1. r.err = "missing" => DirBlob(k.cpy[o.dir].sub) \in Blob \ valid
        <5> HIDE DEF o, k
        <5> QED  BY <2>1, <2>2, LinkMissing
      <4>2. DirBlob(k.cpy[o.dir].sub).k = "dir"  BY DEF DirBlob
      <4> HIDE DEF r, k, o
      <4> QED  BY <4>1, <4>2, <2>2, <1>3
    <3>4. /\ st \in Kvstxn /\ st.dlist = kt(n).dlist \cup raws /\ st.missing = miss
      <4>1. k.i + 1 \in OpIndex  BY SMTT(60), <2>2 DEF OpIndex
      <4>2. k.dlist \cup raws \subseteq Blob  BY <2>2, <3>2
      <4>3. k.dlist = kt(n).dlist  OBVIOUS
      <4> DEFINE st2 == [k EXCEPT !.i = k.i + 1, !.cpy = r.dir,
                           !.dlist = k.dlist \cup raws, !.missing = miss]
      <4>4. st = st2
        <5> HIDE DEF k, o, r, raws
        <5> QED  BY <1>2 DEF Kvstxn
      <4> HIDE DEF miss, k, o, r, raws, st
      <4>5. /\ st2 \in Kvstxn /\ st2.dlist = k.dlist \cup raws /\ st2.missing = miss
        BY <1>2, <2>3, <3>3, <4>1, <4>2 DEF Kvstxn
      <4> QED  BY <4>3, <4>4, <4>5
    <3> HIDE DEF miss, st, raws, k, o, r
    <3>5. Enter(n, raws)  BY <1>1, <3>1 DEF Enter, rpcVars
    <3> QED  BY <1>1, <3>1, <3>2, <3>3, <3>4, <3>5, OpInv
  <2> QED  BY <2>4, <2>5
<1> QED  BY <1>4, <1>5, <1>6

(* PRE_FINISHED. *)
LEMMA FlushInv == ASSUME IInv, NEW n \in Namespace, Flush(n) PROVE IInv'
<1> DEFINE k == kt(n)
           stall(e) == FlushStall(k, e)
           block(S, e) == /\ waits' = [waits EXCEPT ![n] = S]
                          /\ storing' = storing \cup S
                          /\ ready' = WithHead(n, stall(e))
                          /\ Return /\ UNCHANGED events
           clean(S) == Cleanup(S)
<1>1. In("flush", n) /\ UNCHANGED <<root, loading, stored, faults, sent, aborted>>
  BY DEF Flush
<1>2. /\ k \in Kvstxn /\ n \in Heads /\ ready[n] # <<>> /\ ready \in ReadyType
      /\ Head(stack) = Frame("flush", n)
  BY SMTT(60), <1>1, CallFacts
<1>3. k.missing = {} /\ k.dlist \subseteq Blob
  <2>1. Frame("flush", n) # Frame("op", n)  BY DEF Frame
  <2> QED  BY <1>2, <2>1 DEF IInv, HeadInv, Kvstxn
<1>4. \A e \in Errnum : /\ stall(e) \in Kvstxn /\ stall(e).blocked
                        /\ stall(e).missing = {} /\ stall(e).dlist = {}
  <2> HIDE DEF k
  <2> QED  BY <1>2, <1>3 DEF Kvstxn, FlushStall
<1>5. "ok" \in Errnum /\ "EIO" \in Errnum  BY DEF Errnum
<1>6. ASSUME NEW S \in SUBSET k.dlist, S # {}, NEW e \in Errnum, block(S, e),
             NEW D \in SUBSET k.dlist, S \cap D = {}, clean(D),
             fails' \in 0..MaxFail
      PROVE  IInv'
  <2>1. S \in SUBSET Blob /\ S \subseteq kt(n).dlist \ D  BY <1>3, <1>6
  <2>2. /\ stall(e) \in Kvstxn /\ stall(e).blocked
        /\ stall(e).missing = {} /\ stall(e).dlist = {}
    BY <1>4
  <2> HIDE DEF stall
  <2>3. Block(n, stall(e), S, D)
    BY <1>1, <1>6, <2>1, <2>2 DEF Block, Stall, Cleanup
  <2> QED  BY <1>1, <1>6, <2>1, <2>2, <2>3, BlockInv
<1>7. CASE /\ k.dlist = {} /\ Become("finish")
           /\ UNCHANGED <<ready, cacheVars, waits, storing, fails, events>>
  <2>1. ready' = WithHead(n, kt(n))  BY <1>2, <1>7, SameHead
  <2>2. Frame("finish", n) \in Call  BY DEF Frame, Call
  <2>3. CallOnly  BY <1>1, <1>7 DEF CallOnly, cacheVars, rpcVars
  <2> QED  BY <1>1, <1>2, <1>3, <1>7, <2>1, <2>2, <2>3, GotoInv
<1>8. CASE /\ k.dlist # {} /\ block(k.dlist, "ok") /\ UNCHANGED <<cacheVars, fails>>
  <2>1. clean({}) /\ fails' \in 0..MaxFail
    BY <1>8 DEF Cleanup, cacheVars, IInv, TypeOK, LogType
  <2>2. {} \in SUBSET k.dlist /\ k.dlist \cap {} = {}  OBVIOUS
  <2> HIDE DEF block, clean, k
  <2> QED  BY <1>5, <1>6, <1>8, <2>1, <2>2
<1>9. CASE /\ fails < MaxFail /\ fails' = fails + 1
           /\ \E S \in SUBSET k.dlist :
                /\ S # k.dlist /\ clean(k.dlist \ S)
                /\ \/ S # {} /\ block(S, "EIO")
                   \/ S = {} /\ Fail(n, "EIO") /\ UNCHANGED <<waits, storing>>
  <2>1. fails' \in 0..MaxFail  BY SMTT(60), <1>9, BoundAssumption DEF IInv, TypeOK, LogType
  <2>2. PICK S \in SUBSET k.dlist :
                /\ clean(k.dlist \ S)
                /\ \/ S # {} /\ block(S, "EIO")
                   \/ S = {} /\ Fail(n, "EIO") /\ UNCHANGED <<waits, storing>>
    BY <1>9
  <2>3. CASE S # {} /\ block(S, "EIO")
    <3>1. k.dlist \ S \in SUBSET k.dlist /\ S \cap (k.dlist \ S) = {}  OBVIOUS
    <3> HIDE DEF block, clean, k
    <3> QED  BY <1>5, <1>6, <2>1, <2>2, <2>3, <3>1
  <2>4. CASE Fail(n, "EIO") /\ UNCHANGED <<waits, storing>>
    <3>1. k.dlist \ S \in SUBSET kt(n).dlist  OBVIOUS
    <3> QED  BY <1>1, <1>5, <2>1, <2>2, <2>4, <3>1, FailInv DEF Cleanup
  <2> QED  BY <2>2, <2>3, <2>4
<1> QED  BY <1>7, <1>8, <1>9 DEF Flush

(* The new root is published, or an assertion fails. *)
LEMMA FinishInv == ASSUME IInv, NEW n \in Namespace, Finish(n) PROVE IInv'
<1> DEFINE k == kt(n)
           new == Unroll(k.cpy)
           ev == [ns |-> n, names |-> k.names, err |-> "ok",
                  seq |-> root[n].seq + 1, ref |-> new]
<1>1. /\ In("finish", n)
      /\ UNCHANGED <<present, valid, dirty, waits, loading, storing, stored,
                     fails, faults, sent>>
  BY DEF Finish, cacheVars, rpcVars
<1>2. k \in Kvstxn  BY SMTT(60), <1>1, CallFacts
<1>3. new \in Dir /\ k.names \in Seq(Txn)
  <2>1. k.cpy \in WorkDir /\ k.names \in Seq(Txn)  BY <1>2 DEF Kvstxn
  <2> HIDE DEF k
  <2> QED  BY <2>1, UnrollType
<1>4. CASE DirBlob(new) \in valid
  <2>1. /\ root' = [root EXCEPT ![n] = [@ EXCEPT !.ref = new, !.seq = root[n].seq + 1]]
        /\ events' = Append(events, ev)
        /\ Remove(n, FALSE)
        /\ Return /\ aborted' = aborted
    BY <1>4 DEF Finish
  <2> HIDE DEF new, k
  <2>2. root' \in RootType
    <3> DEFINE R == [ref : Dir, seq : Nat, life : {"live", "remove", "gone"}]
    <3>1. root \in RootType /\ root[n] \in R  BY DEF IInv, TypeOK, LogType, RootType
    <3>2. root[n].seq + 1 \in Nat  BY SMTT(60), <3>1
    <3>3. [root[n] EXCEPT !.ref = new, !.seq = root[n].seq + 1] \in R
      BY <1>3, <3>1, <3>2
    <3> QED  BY <2>1, <3>1, <3>3 DEF RootType
  <2>3. ev \in Event
    BY SMTT(60), <1>3 DEF Event, Errnum, IInv, TypeOK, LogType, RootType
  <2> HIDE DEF ev
  <2>4. events' \in Seq(Event)  BY SMTT(60), <2>1, <2>3 DEF IInv, TypeOK, LogType
  <2>5. /\ {} \in SUBSET kt(n).dlist /\ present' = present \ {}
        /\ valid' = valid \ {} /\ dirty' = dirty \ {} /\ fails' \in 0..MaxFail
        /\ FALSE \in BOOLEAN
    BY <1>1 DEF IInv, TypeOK, LogType
  <2> QED  BY <1>1, <2>1, <2>2, <2>4, <2>5, EndInv
<1>5. CASE DirBlob(new) \notin valid
  <2>1. aborted' = TRUE /\ UNCHANGED <<root, ready, events, stack>>
    BY <1>5 DEF Finish
  <2>2. CacheType' /\ LogType'
    <3>1. CacheType'  BY <1>1, <2>1 DEF IInv, TypeOK, CacheType
    <3>2. LogType'  BY <1>1, <2>1 DEF IInv, TypeOK, LogType
    <3> QED  BY <3>1, <3>2
  <2> QED  BY <1>1, <2>1, <2>2, QuietInv DEF IInv, CacheInv
<1> QED  BY <1>4, <1>5

----------------------------------------------------------------------------
(* The check callback, the merge, and STORE, which runs waiters *)

(* transaction_check_cb(): the calls it makes are queued. *)
LEMMA CheckCbInv == ASSUME IInv, CheckCb PROVE IInv'
<1> DEFINE W == {n \in Namespace : root[n].life # "gone"}
<1>1. PICK s \in Orders(W) : stack' = [i \in DOMAIN s |-> Frame("check", s[i])]
  BY DEF CheckCb
<1>2. PICK c \in Nat : s \in [1..c -> W]
  <2> HIDE DEF W
  <2> QED  BY SMTT(60) DEF Orders
<1>3. CallOnly /\ ready' = ready  BY DEF CheckCb, CallOnly
<1>4. DOMAIN s = 1..c /\ \A i \in 1..c : s[i] \in Namespace
  BY <1>2
<1> HIDE DEF W
<1>5. /\ DOMAIN stack' = 1..c
      /\ \A i \in 1..c : stack'[i] = Frame("check", s[i]) /\ stack'[i] \in Call
                          /\ stack'[i].f = "check"
  BY <1>1, <1>4 DEF Frame, Call
<1>6. stack' \in Seq(Call)
  <2>1. stack' = [i \in 1..c |-> stack'[i]]  BY <1>1, <1>4
  <2> QED  BY <2>1, <1>2, <1>5, SeqFacts
<1>7. StackOrder'  BY <1>5 DEF StackOrder
<1>8. Running' = {} /\ Running = {}
  BY <1>5, IdleRunning DEF Running, CheckCb, Idle
<1>9. \A n \in Heads : kt(n).missing = {}
  BY DEF IInv, HeadInv, Heads, CheckCb, Idle
<1> QED  BY <1>3, <1>6, <1>7, <1>8, <1>9, StackInv

(* kvstxn_check_root_cb(): skip the namespace, or start on its head. *)
LEMMA CheckRootInv == ASSUME IInv, NEW n \in Namespace, CheckRoot(n) PROVE IInv'
<1> DEFINE new == Create(<<>>, <<>>, FALSE, TRUE)
<1>1. In("check", n) /\ CallOnly  BY DEF CheckRoot, CallOnly
<1>2. /\ stack # <<>> /\ Head(stack) = Frame("check", n) /\ stack \in Seq(Call)
      /\ ready \in ReadyType /\ StackOrder
  BY <1>1, CallFacts DEF IInv
<1>3. \A m \in Heads : kt(m).missing = {}
  <2>1. \A m : Frame("check", n) # Frame("op", m)  BY DEF Frame
  <2> QED  BY <1>2, <2>1 DEF IInv, HeadInv, Heads
<1>4. Running = {}
  <2> SUFFICES ASSUME NEW m \in Running PROVE FALSE  OBVIOUS
  <2>1. PICK i \in DOMAIN stack : stack[i].f # "check"  BY DEF Running
  <2>2. stack[1].f = "check" /\ 1 \in DOMAIN stack /\ i \in Nat /\ (i = 1 \/ 1 < i)
    BY SMTT(60), <1>2 DEF Frame
  <2> QED  BY <2>1, <2>2, <1>2 DEF StackOrder
<1>5. CASE ~Ready(n)
  <2>1. Return /\ ready' = ready  BY <1>5 DEF CheckRoot
  <2>2. stack' \in Seq(Call) /\ StackOrder' /\ Running' = {}
    BY <1>2, <1>4, <2>1, ReturnFacts
  <2> QED  BY <1>1, <1>3, <1>4, <2>1, <2>2, StackInv
<1>6. CASE Ready(n)
  <2>1. /\ n \in Heads /\ ready[n] # <<>> /\ ~kt(n).blocked /\ waits[n] = {}
        /\ Fresh(kt(n)) /\ ready[n] \in Seq(Kvstxn)
    BY <1>2, <1>4, <1>6 DEF Ready, Heads, IInv, WaitInv, HeadInv, ReadyType
  <2>2. new \in Kvstxn /\ Fresh(new)
    <3>1. << >> \in Seq(Txn) /\ << >> \in Seq(Op)  BY SMTT(60)
    <3> QED  BY <3>1, CreateType
  <2>3. PICK f \in {"merge", "apply"} :
          /\ Become(f)
          /\ \/ ready' = ready
             \/ ready' = [ready EXCEPT ![n] = <<new>> \o @]
    BY <1>6 DEF CheckRoot
  <2> HIDE DEF new
  <2>4. /\ stack' \in Seq(Call) /\ stack' # <<>> /\ Head(stack') = Frame(f, n)
        /\ StackOrder' /\ Running' = {n}
    <3>1. Frame(f, n) \in Call /\ f # "check"  BY DEF Frame, Call
    <3> QED  BY <1>2, <1>4, <2>3, <3>1, BecomeFacts
  <2>5. /\ ready' \in ReadyType /\ ready'[n] # <<>> /\ Fresh(kt(n)')
        /\ \A i \in 2..Len(ready'[n]) : Fresh(ready'[n][i])
        /\ \A m \in Namespace \ {n} : ready'[m] = ready[m] /\ kt(m)' = kt(m)
    <3>1. \A i \in 2..Len(ready[n]) : Fresh(ready[n][i])
      BY <2>1 DEF IInv, HeadInv
    <3>2. CASE ready' = ready
      BY <3>1, <3>2, <1>2, <2>1 DEF kt
    <3>3. CASE ready' = [ready EXCEPT ![n] = <<new>> \o @]
      <4> DEFINE q == <<new>> \o ready[n]
      <4>1. <<new>> \in Seq(Kvstxn) /\ Len(<<new>>) = 1 /\ <<new>>[1] = new
        BY SMTT(60), <2>2
      <4>2. /\ q \in Seq(Kvstxn) /\ Len(q) = 1 + Len(ready[n]) /\ q[1] = new
            /\ \A i \in 2..Len(q) : q[i] = ready[n][i - 1] /\ i - 1 \in 1..Len(ready[n])
        BY SMTT(60), <4>1, <2>1
      <4>3. q # <<>> /\ Head(q) = new  BY SMTT(60), <4>2
      <4>4. \A i \in 1..Len(ready[n]) : Fresh(ready[n][i])
        <5> SUFFICES ASSUME NEW i \in 1..Len(ready[n]) PROVE Fresh(ready[n][i])
          OBVIOUS
        <5>1. CASE i = 1
          <6>1. kt(n) = ready[n][1]  BY <1>2, <2>1, HeadType
          <6> QED  BY <5>1, <6>1, <2>1
        <5>2. CASE i # 1  BY SMTT(60), <5>2, <3>1
        <5> QED  BY <5>1, <5>2
      <4>5. \A i \in 2..Len(q) : Fresh(q[i])  BY <4>2, <4>4
      <4> HIDE DEF q
      <4>6. ready' = [ready EXCEPT ![n] = q]  BY <3>3 DEF q
      <4>7. ready' \in ReadyType /\ ready'[n] = q
            /\ \A m \in Namespace \ {n} : ready'[m] = ready[m]
        BY <4>2, <4>6, <1>2 DEF ReadyType
      <4> QED  BY <4>3, <4>5, <4>7, <2>2 DEF kt
    <3> QED  BY <2>3, <3>2, <3>3
  <2>6. RunInv(n)' /\ WaitInv(n)' /\ HeadInv(n)'
    <3>1. waits'[n] = {}  BY <1>1, <2>1 DEF CallOnly
    <3> QED  BY <2>4, <2>5, <3>1 DEF RunInv, WaitInv, HeadInv, Fresh
  <2>7. kt(n)'.dlist = {}  BY <2>5 DEF Fresh
  <2>8. \A m \in Namespace \ {n} : m \in Running' <=> m \in Running  BY <1>4, <2>4
  <2> QED  BY <1>1, <1>3, <2>4, <2>5, <2>6, <2>7, <2>8, CallInv
<1> QED  BY <1>5, <1>6

(* The merge loop. *)
LEMMA MergeInv == ASSUME IInv, NEW n \in Namespace, Merge(n) PROVE IInv'
<1> DEFINE q == ready[n]
           j == Len(q[1].names) + 2
           r == Absorb(q, j)
<1>1. In("merge", n) /\ CallOnly  BY DEF Merge, CallOnly
<1>2. /\ waits[n] = {} /\ stack \in Seq(Call)
      /\ Head(stack) = Frame("merge", n) /\ kt(n) \in Kvstxn
      /\ ready \in ReadyType /\ n \in Running /\ n \in Heads /\ q # <<>>
      /\ \A m \in Heads \ {n} : kt(m).missing = {}
  BY SMTT(60), <1>1, CallFacts
<1>3. kt(n).missing = {}
  <2>1. Frame("merge", n) # Frame("op", n)  BY DEF Frame
  <2> QED  BY <1>2, <2>1 DEF IInv, HeadInv
<1>4. CASE ~(j <= Len(q) /\ ~q[j].nomerge)
  <2>1. Become("apply") /\ ready' = ready  BY <1>4 DEF Merge
  <2>2. ready' = WithHead(n, kt(n))  BY <1>2, <2>1, SameHead
  <2>3. Frame("apply", n) \in Call  BY DEF Frame, Call
  <2> QED  BY <1>1, <1>2, <1>3, <2>1, <2>2, <2>3, GotoInv
<1>5. CASE j <= Len(q) /\ ~q[j].nomerge
  <2>1. ready' = [ready EXCEPT ![n] = r] /\ stack' = stack
    BY <1>5 DEF Merge
  <2>2. /\ q \in Seq(Kvstxn) /\ Len(q) \in Nat /\ DOMAIN q = 1..Len(q)
        /\ kt(n) = q[1] /\ q[1] \in Kvstxn /\ q[1].names \in Seq(Txn)
    <3>1. kt(n) = q[1] /\ q \in Seq(Kvstxn)  BY <1>2, HeadType DEF ReadyType
    <3>2. kt(n).names \in Seq(Txn)  BY <1>2 DEF Kvstxn
    <3> QED  BY SMTT(60), <3>1, <3>2, <1>2
  <2>3. j \in 2..Len(q) /\ 1 \in 1..Len(q)
    <3>1. Len(q[1].names) \in Nat  BY SMTT(60), <2>2
    <3> QED  BY SMTT(60), <3>1, <2>2, <1>5
  <2> HIDE DEF j
  <2> DEFINE a == [q[1] EXCEPT !.names = q[1].names \o q[j].names,
                               !.ops = q[1].ops \o q[j].ops]
             b == [q[j] EXCEPT !.comp = TRUE]
  <2>4. r = [i \in 1..Len(q) |-> IF i = 1 THEN a ELSE IF i = j THEN b ELSE q[i]]
    BY <2>2 DEF Absorb
  <2>5. q[j] \in Kvstxn /\ q[1] \in Kvstxn  BY SMTT(60), <2>2, <2>3
  <2>6. /\ a \in Kvstxn /\ a.dlist = q[1].dlist /\ a.blocked = q[1].blocked
        /\ a.missing = q[1].missing
    <3>1. q[1].names \o q[j].names \in Seq(Txn) /\ q[1].ops \o q[j].ops \in Seq(Op)
      BY SMTT(60), <2>5 DEF Kvstxn
    <3> HIDE DEF q
    <3> QED  BY <2>5, <3>1 DEF Kvstxn
  <2>7. b \in Kvstxn /\ (Fresh(q[j]) => Fresh(b))
    <3> HIDE DEF q
    <3> QED  BY <2>5 DEF Kvstxn, Fresh
  <2> HIDE DEF a, b, r, q
  <2>8. r \in Seq(Kvstxn) /\ Len(r) = Len(q)
    <3>1. \A i \in 1..Len(q) : r[i] \in Kvstxn
      BY SMTT(60), <2>2, <2>4, <2>6, <2>7
    <3>2. DOMAIN r = 1..Len(q) /\ r = [i \in 1..Len(q) |-> r[i]]  BY <2>4
    <3> QED  BY <3>1, <3>2, <2>2, SeqFacts
  <2>9. r # <<>> /\ Head(r) = a  BY SMTT(60), <2>3, <2>4, <2>8
  <2>10. \A i \in 2..Len(q) : Fresh(q[i])
    BY <1>2 DEF IInv, HeadInv, q
  <2>11. \A i \in 2..Len(r) : Fresh(r[i])
    BY SMTT(60), <2>2, <2>3, <2>4, <2>7, <2>8, <2>10
  <2>12. /\ ready' \in ReadyType /\ ready'[n] = r
         /\ \A m \in Namespace \ {n} : ready'[m] = ready[m] /\ kt(m)' = kt(m)
    BY <1>2, <2>1, <2>8 DEF ReadyType, kt
  <2>13. kt(n)' = a  BY <2>9, <2>12 DEF kt
  <2>14. StackOrder' /\ Running' = Running  BY <2>1, SameStack DEF IInv
  <2>15. a.dlist = kt(n).dlist /\ a.missing = {}  BY <1>3, <2>2, <2>6
  <2>16. RunInv(n)' /\ WaitInv(n)' /\ HeadInv(n)'
    <3>1. waits'[n] = {}  BY <1>1, <1>2 DEF CallOnly
    <3> QED  BY <1>2, <2>9, <2>11, <2>12, <2>13, <2>14, <2>15, <3>1
             DEF RunInv, WaitInv, HeadInv
  <2>17. /\ stack' \in Seq(Call) /\ kt(n)'.dlist = kt(n).dlist
         /\ \A m \in Namespace \ {n} : m \in Running' <=> m \in Running
    BY <1>2, <2>1, <2>13, <2>14, <2>15
  <2> QED  BY <1>1, <1>2, <2>12, <2>14, <2>16, <2>17, CallInv
<1> QED  BY <1>4, <1>5

(* STORE. *)
LEMMA StoreObjInv == ASSUME IInv, NEW n \in Namespace, StoreObj(n) PROVE IInv'
<1> DEFINE k == kt(n)
<1>1. /\ In("store", n)
      /\ UNCHANGED <<root, loading, storing, stored, fails, faults, sent, events,
                     aborted>>
  BY DEF StoreObj, rpcVars
<1>2. /\ k \in Kvstxn /\ n \in Heads /\ ready[n] # <<>> /\ ready \in ReadyType
      /\ Head(stack) = Frame("store", n) /\ n \in Running
      /\ k.tostore \subseteq Blob /\ k.dlist \subseteq Blob
  BY SMTT(60), <1>1, CallFacts DEF Kvstxn
<1>3. \A m \in Heads : kt(m).missing = {}
  <2>1. \A m : Frame("store", n) # Frame("op", m)  BY DEF Frame
  <2> QED  BY <1>2, <2>1 DEF IInv, HeadInv, Heads
<1>4. CASE /\ ready' = WithHead(n, [k EXCEPT !.state = "PRE_FINISHED"])
           /\ Become("flush") /\ UNCHANGED <<cacheVars, waits>>
  <2> DEFINE st == [k EXCEPT !.state = "PRE_FINISHED"]
  <2>1. st \in Kvstxn /\ st.dlist = kt(n).dlist /\ st.missing = {}
    <3>1. k.dlist = kt(n).dlist /\ k.missing = {} /\ "PRE_FINISHED" \in TxnState
      BY <1>2, <1>3 DEF TxnState
    <3> HIDE DEF k
    <3> QED  BY <1>2, <3>1 DEF Kvstxn
  <2>2. Frame("flush", n) \in Call  BY DEF Frame, Call
  <2> HIDE DEF st
  <2>3. ready' = WithHead(n, st)  BY <1>4 DEF st
  <2>4. CallOnly  BY <1>1, <1>4 DEF CallOnly, rpcVars
  <2> QED  BY <1>1, <1>4, <2>1, <2>2, <2>3, <2>4, GotoInv
<1>5. ASSUME NEW b \in k.tostore, b \in valid,
             ready' = WithHead(n, [k EXCEPT !.tostore = @ \ {b}]),
             UNCHANGED <<cacheVars, waits, stack>>
      PROVE  IInv'
  <2> DEFINE st == [k EXCEPT !.tostore = @ \ {b}]
  <2>1. /\ st \in Kvstxn /\ st.dlist = kt(n).dlist /\ st.missing = {}
        /\ st.blocked = kt(n).blocked
    <3>1. k.dlist = kt(n).dlist /\ k.missing = {} /\ k.blocked = kt(n).blocked
      BY <1>2, <1>3
    <3> HIDE DEF k
    <3> QED  BY <1>2, <3>1 DEF Kvstxn
  <2> HIDE DEF st
  <2>2. ready' = WithHead(n, st)  BY <1>5 DEF st
  <2>3. Become("store")
    <3>1. stack # <<>> /\ stack \in Seq(Call) /\ Head(stack).ns = n
      BY SMTT(60), <1>1, CallFacts DEF Frame
    <3>2. stack = <<Frame("store", n)>> \o Tail(stack)
      <4>1. stack = <<Head(stack)>> \o Tail(stack)  BY SMTT(60), <3>1
      <4> QED  BY <4>1, <1>2
    <3> QED  BY <1>5, <3>1, <3>2 DEF Become
  <2>4. Frame("store", n) \in Call  BY DEF Frame, Call
  <2>5. CallOnly  BY <1>1, <1>5 DEF CallOnly, rpcVars
  <2> QED  BY <1>1, <2>1, <2>2, <2>3, <2>4, <2>5, GotoInv
<1>6. ASSUME NEW b \in k.tostore, b \notin valid,
             ready' = WithHead(n, [k EXCEPT !.tostore = @ \ {b},
                                            !.dlist = @ \cup {b}]),
             present' = present \cup {b}, valid' = valid \cup {b},
             dirty' = dirty \cup {b}, Wake(b)
      PROVE  IInv'
  <2> DEFINE st == [k EXCEPT !.tostore = @ \ {b}, !.dlist = @ \cup {b}]
  <2>0. b \in Blob  BY <1>2
  <2>1. /\ st \in Kvstxn /\ st.dlist = kt(n).dlist \cup {b} /\ st.missing = {}
        /\ st.blocked = kt(n).blocked
    <3>1. k.dlist = kt(n).dlist /\ k.missing = {} /\ k.blocked = kt(n).blocked
      BY <1>2, <1>3
    <3> DEFINE st2 == [k EXCEPT !.tostore = k.tostore \ {b}, !.dlist = k.dlist \cup {b}]
    <3>2. k.dlist \cup {b} \subseteq Blob /\ k.tostore \ {b} \subseteq Blob
      BY <1>2, <2>0
    <3> HIDE DEF k
    <3>3. st = st2  BY <1>2 DEF Kvstxn
    <3> HIDE DEF st
    <3> QED  BY <1>2, <3>1, <3>2, <3>3 DEF Kvstxn
  <2> HIDE DEF st
  <2>2. /\ ready' \in ReadyType /\ ready'[n] # <<>> /\ kt(n)' = st
        /\ \A i \in 2..Len(ready'[n]) : ready'[n][i] = ready[n][i]
        /\ Len(ready'[n]) = Len(ready[n])
        /\ \A m \in Namespace \ {n} : ready'[m] = ready[m] /\ kt(m)' = kt(m)
    BY SMTT(60), <1>2, <1>6, <2>1, WithHeadFacts DEF kt, st
  <2>3. Heads' = Heads  BY <1>2, <2>2 DEF Heads
  <2>4. \A m \in Heads : /\ kt(m)'.blocked = kt(m).blocked
                         /\ kt(m)'.missing = {}
                         /\ m \in Running \/ kt(m)'.dlist = kt(m).dlist
                         /\ \/ kt(m)'.dlist = kt(m).dlist
                            \/ m = n /\ kt(m)'.dlist = kt(m).dlist \cup {b}
    BY <1>2, <1>3, <2>1, <2>2 DEF Heads
  <2>5. dirty \subseteq valid /\ storing \subseteq dirty
    BY DEF IInv, TypeOK, CacheType, CacheInv
  <2>6. waits' \in [Namespace -> SUBSET Blob]
        /\ \A m \in Namespace : waits'[m] = waits[m] \ {b}
    BY <1>6, WakeFacts DEF IInv, TypeOK, QueueType
  <2>7. CacheType' /\ LogType'
    <3>1. CacheType'  BY <1>1, <1>6, <2>0 DEF IInv, TypeOK, CacheType
    <3>2. LogType'  BY <1>1 DEF IInv, TypeOK, LogType
    <3> QED  BY <3>1, <3>2
  <2>8. CacheInv'  BY <1>1, <1>6 DEF IInv, CacheInv
  <2>9. DirtyListPrivate'
    <3>1. \A m \in Heads : /\ kt(m).dlist \subseteq dirty \ storing
                           /\ b \notin kt(m).dlist
                           /\ \A l \in Namespace : kt(m).dlist \cap waits[l] = {}
      BY <1>6, <2>5 DEF IInv, DirtyListPrivate
    <3>2. ASSUME NEW m \in Heads
          PROVE  /\ kt(m)'.dlist \subseteq dirty' \ storing'
                 /\ \A l \in Namespace : kt(m)'.dlist \cap waits'[l] = {}
      BY SMTT(60), <3>1, <2>4, <2>5, <2>6, <1>1, <1>6
    <3>3. ASSUME NEW m \in Heads, NEW l \in Heads, l # m
          PROVE  kt(m)'.dlist \cap kt(l)'.dlist = {}
      <4>1. kt(m).dlist \cap kt(l).dlist = {}  BY <3>3 DEF IInv, DirtyListPrivate
      <4> QED  BY <4>1, <3>1, <3>3, <2>4
    <3> QED  BY <2>3, <3>2, <3>3 DEF DirtyListPrivate
  <2>10. \A m \in Namespace : Resumed(m)
    BY <1>2, <1>3, <2>2, <2>4 DEF Resumed, Heads
  <2>11. \A c \in Blob \ {b} : /\ c \in present \ valid => c \in present' \ valid'
                               /\ c \in storing => c \in storing'
    BY <1>1, <1>6
  <2> QED  BY <1>6, <2>0, <2>2, <2>7, <2>8, <2>9, <2>10, <2>11, WakeInv
<1>7. \/ /\ ready' = WithHead(n, [k EXCEPT !.state = "PRE_FINISHED"])
         /\ Become("flush") /\ UNCHANGED <<cacheVars, waits>>
      \/ \E b \in k.tostore :
            IF b \in valid
            THEN /\ ready' = WithHead(n, [k EXCEPT !.tostore = @ \ {b}])
                 /\ UNCHANGED <<cacheVars, waits, stack>>
            ELSE /\ ready' = WithHead(n, [k EXCEPT !.tostore = @ \ {b},
                                                   !.dlist = @ \cup {b}])
                 /\ present' = present \cup {b} /\ valid' = valid \cup {b}
                 /\ dirty' = dirty \cup {b} /\ Wake(b)
  BY DEF StoreObj
<1> QED  BY <1>4, <1>5, <1>6, <1>7

----------------------------------------------------------------------------
(* Requests *)

(* namespace_remove_request_cb() and start_root_remove(). *)
LEMMA NamespaceRemoveInv == ASSUME IInv, NEW n \in Namespace, NamespaceRemove(n)
                            PROVE  IInv'
<1>1. root' \in RootType
  BY DEF IInv, TypeOK, LogType, RootType, NamespaceRemove
<1>2. CacheType' /\ LogType'
  <2>1. CacheType'
    BY DEF IInv, TypeOK, CacheType, NamespaceRemove, cacheVars, rpcVars
  <2>2. LogType'  BY <1>1 DEF IInv, TypeOK, LogType, NamespaceRemove, rpcVars
  <2> QED  BY <2>1, <2>2
<1> QED  BY <1>2, QuietInv DEF NamespaceRemove, cacheVars, rpcVars, IInv, CacheInv

(* namespace_create_request_cb(). *)
LEMMA NamespaceCreateInv == ASSUME IInv, NEW n \in Namespace, NamespaceCreate(n)
                            PROVE  IInv'
<1>1. root' \in RootType
  BY LeafType DEF IInv, TypeOK, LogType, RootType, NamespaceCreate
<1>2. CacheType' /\ LogType'
  <2>1. CacheType'
    BY DEF IInv, TypeOK, CacheType, NamespaceCreate, cacheVars, rpcVars
  <2>2. LogType'  BY <1>1 DEF IInv, TypeOK, LogType, NamespaceCreate, rpcVars
  <2> QED  BY <2>1, <2>2
<1> QED  BY <1>2, QuietInv DEF NamespaceCreate, cacheVars, rpcVars, IInv, CacheInv

(* cache_expire_entries() takes clean entries only. *)
LEMMA ExpireInv == ASSUME IInv, NEW S, Expire(S), root' \in RootType
                   PROVE  IInv'
<1>1. CacheType' /\ LogType'
  <2>1. CacheType'  BY DEF IInv, TypeOK, CacheType, Expire, rpcVars
  <2>2. LogType'  BY DEF IInv, TypeOK, LogType, Expire, rpcVars
  <2> QED  BY <2>1, <2>2
<1>2. /\ UNCHANGED <<ready, stack, waits, dirty, storing, loading>>
      /\ S \subseteq valid \ dirty
      /\ present' = present \ S /\ valid' = valid \ S
  BY DEF Expire, rpcVars
<1>3. valid \subseteq present /\ present \ valid \subseteq loading
  BY DEF IInv, TypeOK, CacheType, CacheInv
<1> QED  BY <1>1, <1>2, <1>3, QuietInv

(* heartbeat_cb() and dropcache_request_cb(). *)
LEMMA HeartbeatInv == ASSUME IInv, Heartbeat \/ DropCache PROVE IInv'
<1>1. CASE DropCache
  BY <1>1, ExpireInv DEF DropCache, IInv, TypeOK, LogType
<1>2. CASE Heartbeat
  <2>1. PICK C \in SUBSET Namespace :
          root' = [n \in Namespace |-> IF n \in C
                     THEN [root[n] EXCEPT !.life = "gone"] ELSE root[n]]
    BY <1>2 DEF Heartbeat
  <2>2. root' \in RootType
    BY <2>1 DEF IInv, TypeOK, LogType, RootType
  <2>3. PICK S : Expire(S)  BY <1>2 DEF Heartbeat
  <2> QED  BY <2>2, <2>3, ExpireInv
<1> QED  BY <1>1, <1>2

(* A lookup faults an object of a published root in. *)
LEMMA LookupLoadInv == ASSUME IInv, NEW n \in Namespace, LookupLoad(n)
                       PROVE  IInv'
<1>1. PICK b \in Reach(root[n].ref) \ present :
             present' = present \cup {b} /\ loading' = loading \cup {b}
  BY DEF LookupLoad
<1>2. b \in Blob
  <2>1. root[n].ref \in Dir  BY DEF IInv, TypeOK, LogType, RootType
  <2> QED  BY <2>1, ReachType
<1>3. faults' \in 0..MaxFault
  <2>1. faults \in 0..MaxFault  BY DEF IInv, TypeOK, LogType
  <2>2. faults < MaxFault /\ faults' = faults + 1  BY DEF LookupLoad
  <2>3. MaxFault \in Nat  BY BoundAssumption
  <2> QED  BY <2>1, <2>2, <2>3, CountFacts
<1>4. UNCHANGED <<root, ready, valid, dirty, waits, storing, stored, fails,
                  stack, sent, events, aborted>>
  BY DEF LookupLoad
<1>5. CacheType' /\ LogType'
  <2>1. CacheType'  BY <1>1, <1>2, <1>4 DEF IInv, TypeOK, CacheType
  <2>2. LogType'  BY <1>3, <1>4 DEF IInv, TypeOK, LogType
  <2> QED  BY <2>1, <2>2
<1> QED  BY <1>1, <1>4, <1>5, QuietInv
         DEF IInv, TypeOK, CacheType, CacheInv

(* Between callbacks no transaction knows of missing objects. *)
LEMMA IdleFacts ==
    ASSUME IInv, Idle
    PROVE  \A m \in Heads : kt(m).missing = {}
BY DEF IInv, HeadInv, Heads, Idle

(* A commit or a completed fence joins the queue of its namespace. *)
LEMMA SubmitInv == ASSUME IInv, NEW t \in Txn, Submit(t) PROVE IInv'
<1> DEFINE n == NsOf[t]
           new == Create(<<t>>, OpsOf[t], t \in NoMerge, FALSE)
<1>1. n \in Namespace /\ OpsOf[t] \in Seq(Op)  BY TxnAssumption
<1>2. new \in Kvstxn /\ Fresh(new)
  <2>1. <<t>> \in Seq(Txn) /\ (t \in NoMerge) \in BOOLEAN  BY SMTT(60)
  <2> QED  BY <1>1, <2>1, CreateType
<1>3. /\ UNCHANGED <<root, present, valid, dirty, waits, loading, storing,
                     stored, fails, faults, stack, aborted>>
      /\ stack = <<>>
  BY DEF Submit, cacheVars, rpcVars, Idle
<1>4. sent' \in Seq(Txn)
  <2>1. sent \in Seq(Txn)  BY DEF IInv, TypeOK, LogType
  <2>2. sent' = Append(sent, t)  BY DEF Submit
  <2> QED  BY <2>1, <2>2, AppendFacts
<1>5. CASE root[n].life # "live"
  <2>1. ready' = ready /\ events' = Append(events, [ns |-> n, names |-> <<t>>,
          err |-> "ENOTSUP", seq |-> root[n].seq, ref |-> root[n].ref])
    BY <1>5 DEF Submit
  <2>2. [ns |-> n, names |-> <<t>>, err |-> "ENOTSUP", seq |-> root[n].seq,
         ref |-> root[n].ref] \in Event
    <3>1. root[n].seq \in Nat /\ root[n].ref \in Dir
      BY <1>1 DEF IInv, TypeOK, LogType, RootType
    <3>2. sent \in Seq(Txn)  BY DEF IInv, TypeOK, LogType
    <3>3. <<t>> \in Seq(Txn)  BY <3>2, AppendFacts
    <3>4. "ENOTSUP" \in Errnum  BY DEF Errnum
    <3> QED  BY <1>1, <3>1, <3>3, <3>4 DEF Event
  <2>3. events' \in Seq(Event)
    <3>1. events \in Seq(Event)  BY DEF IInv, TypeOK, LogType
    <3> QED  BY <2>1, <2>2, <3>1, AppendFacts
  <2>4. CacheType' /\ LogType'
    <3>1. CacheType'  BY <1>3 DEF IInv, TypeOK, CacheType
    <3>2. LogType'  BY <1>3, <1>4, <2>3 DEF IInv, TypeOK, LogType
    <3> QED  BY <3>1, <3>2
  <2> QED  BY <1>3, <2>1, <2>4, QuietInv DEF IInv, CacheInv
<1>6. CASE root[n].life = "live"
  <2>1. ready' = [ready EXCEPT ![n] = Append(@, new)] /\ events' = events
    BY <1>6 DEF Submit
  <2> HIDE DEF new, n
  <2>2. ready \in ReadyType  BY DEF IInv, TypeOK, QueueType
  <2>3. ready[n] \in Seq(Kvstxn)  BY <1>1, <2>2 DEF ReadyType
  <2>4. /\ Append(ready[n], new) \in Seq(Kvstxn)
        /\ Len(Append(ready[n], new)) = Len(ready[n]) + 1
        /\ Append(ready[n], new) # <<>>
        /\ \A i \in 1..Len(ready[n]) : Append(ready[n], new)[i] = ready[n][i]
        /\ Append(ready[n], new)[Len(ready[n]) + 1] = new
        /\ Len(ready[n]) \in Nat
    BY SMTT(60), <1>2, <2>3
  <2>5. /\ ready' \in ReadyType /\ ready'[n] = Append(ready[n], new)
        /\ \A m \in Namespace \ {n} : ready'[m] = ready[m]
    BY <1>1, <2>1, <2>2, <2>4 DEF ReadyType
  <2>6. TypeOK' /\ CacheInv'
    <3>1. QueueType'  BY <1>3, <2>5 DEF IInv, TypeOK, QueueType
    <3>2. CacheType'  BY <1>3 DEF IInv, TypeOK, CacheType
    <3>3. LogType'  BY <1>3, <1>4, <2>1 DEF IInv, TypeOK, LogType
    <3>4. CacheInv'  BY <1>3 DEF IInv, CacheInv
    <3> QED  BY <3>1, <3>2, <3>3, <3>4 DEF TypeOK
  <2>7. StackOrder' /\ Running = {} /\ Running' = {}
    BY <1>3, SameStack, IdleRunning DEF IInv
  <2>8. /\ ready'[n] # <<>>
        /\ ready[n] # <<>> => kt(n)' = kt(n)
        /\ ready[n] = <<>> => kt(n)' = new
    BY SMTT(60), <2>3, <2>4, <2>5 DEF kt
  <2>9. \A i \in 2..Len(ready'[n]) : Fresh(ready'[n][i])
    <3> SUFFICES ASSUME NEW i \in 2..Len(ready'[n]) PROVE Fresh(ready'[n][i])
      OBVIOUS
    <3>1. CASE i = Len(ready[n]) + 1  BY <3>1, <1>2, <2>4, <2>5
    <3>2. CASE i # Len(ready[n]) + 1
      <4>1. i \in 2..Len(ready[n]) /\ ready'[n][i] = ready[n][i] /\ ready[n] # <<>>
        BY SMTT(60), <3>2, <2>3, <2>4, <2>5
      <4> QED  BY <4>1, <1>1 DEF IInv, HeadInv
    <3> QED  BY <3>1, <3>2
  <2>10. RunInv(n) /\ WaitInv(n) /\ HeadInv(n)  BY <1>1 DEF IInv
  <2>11. RunInv(n)' /\ WaitInv(n)' /\ HeadInv(n)'
    <3>1. RunInv(n)'  BY <2>7 DEF RunInv
    <3>2. WaitInv(n)'  BY <1>3, <2>8, <2>10 DEF WaitInv
    <3>3. CASE ready[n] # <<>>
      <4>1. HeadInv(n)'  BY <3>3, <1>3, <2>7, <2>8, <2>9, <2>10 DEF HeadInv
      <4> QED  BY <3>1, <3>2, <4>1
    <3>4. CASE ready[n] = <<>>
      <4>1. HeadInv(n)'  BY <3>4, <1>2, <2>8, <2>9 DEF HeadInv, Fresh
      <4> QED  BY <3>1, <3>2, <4>1
    <3> QED  BY <3>3, <3>4
  <2>12. \A m \in Namespace \ {n} : Untouched(m)
    BY <1>3, <2>5, <2>7 DEF Untouched
  <2>13. DirtyKept(n)  BY <1>1, <1>3 DEF DirtyKept, IInv, DirtyListPrivate
  <2>14. Own(n)'
    <3>1. \A m \in Heads' \ {n} : m \in Heads /\ kt(m)' = kt(m)
      BY <2>5 DEF Heads, kt
    <3>2. n \in Heads => /\ kt(n).dlist \subseteq dirty' \ storing'
                         /\ \A m \in Namespace : kt(n).dlist \cap waits'[m] = {}
                         /\ \A m \in Heads \ {n} : kt(n).dlist \cap kt(m).dlist = {}
      BY <1>3 DEF IInv, DirtyListPrivate
    <3>3. kt(n)'.dlist = {} \/ (n \in Heads /\ kt(n)' = kt(n))
      BY <1>1, <1>2, <2>8 DEF Fresh, Heads
    <3> QED  BY <2>11, <3>1, <3>2, <3>3 DEF Own
  <2>15. \A m \in Heads \ {n} : kt(m).missing = {}  BY IdleFacts DEF Submit
  <2> QED  BY <1>1, <2>6, <2>7, <2>12, <2>13, <2>14, <2>15, OneInv
<1> QED  BY <1>5, <1>6

----------------------------------------------------------------------------
(* Answers of the content service *)

(* kvstxn_wait_error_cb() marks the transactions that wait, no others.      *)
LEMMA SetAuxFacts ==
    ASSUME IInv, NEW b, NEW e \in Errnum, ready' = SetAux(b, e), Idle
    PROVE  /\ ready' \in ReadyType /\ \A m \in Namespace : Resumed(m)
           /\ Heads' = Heads /\ \A m \in Heads : kt(m)'.dlist = kt(m).dlist
<1> DEFINE new(m) == IF b \in waits[m]
                     THEN <<[kt(m) EXCEPT !.aux = e]>> \o Tail(ready[m]) ELSE ready[m]
<1>1. ready' = [m \in Namespace |-> new(m)]  BY DEF SetAux
<1>2. ready \in ReadyType  BY DEF IInv, TypeOK, QueueType
<1>3. ASSUME NEW m \in Namespace
      PROVE  /\ new(m) \in Seq(Kvstxn) /\ Len(new(m)) = Len(ready[m])
             /\ new(m) = <<>> <=> ready[m] = <<>>
             /\ \A i \in 2..Len(ready[m]) : new(m)[i] = ready[m][i]
             /\ ready[m] # <<>> => /\ Head(new(m)).blocked = kt(m).blocked
                                   /\ Head(new(m)).missing = kt(m).missing
                                   /\ Head(new(m)).dlist = kt(m).dlist
  <2>1. CASE b \notin waits[m]
    BY <2>1, <1>2 DEF ReadyType, kt
  <2>2. CASE b \in waits[m]
    <3>1. ready[m] # <<>>  BY <2>2 DEF IInv, WaitInv
    <3>2. kt(m) \in Kvstxn  BY <3>1, <1>2, HeadType
    <3> DEFINE k == [kt(m) EXCEPT !.aux = e]
    <3>3. /\ k \in Kvstxn /\ k.blocked = kt(m).blocked
          /\ k.missing = kt(m).missing /\ k.dlist = kt(m).dlist
      BY <3>2 DEF Kvstxn
    <3> HIDE DEF k
    <3>4. WithHead(m, k)[m] = <<k>> \o Tail(ready[m])
      BY <1>2 DEF WithHead, ReadyType
    <3>5. new(m) = WithHead(m, k)[m]  BY <2>2, <3>4 DEF k
    <3>6. /\ WithHead(m, k) \in ReadyType
          /\ WithHead(m, k)[m] # <<>> /\ Head(WithHead(m, k)[m]) = k
          /\ Len(WithHead(m, k)[m]) = Len(ready[m])
          /\ \A i \in 2..Len(ready[m]) : WithHead(m, k)[m][i] = ready[m][i]
      BY <1>2, <3>1, <3>3, WithHeadFacts
    <3>7. WithHead(m, k)[m] \in Seq(Kvstxn)  BY <3>6 DEF ReadyType
    <3> HIDE DEF new
    <3> QED  BY <3>1, <3>3, <3>5, <3>6, <3>7
  <2> QED  BY <2>1, <2>2
<1> HIDE DEF new
<1>4. \A m \in Namespace : ready'[m] = new(m)  BY <1>1
<1>5. \A m \in Namespace : Resumed(m)
  BY SMTT(60), <1>3, <1>4, IdleFacts DEF Resumed, Heads, kt
<1>6. Heads' = Heads /\ \A m \in Heads : kt(m)'.dlist = kt(m).dlist
  BY <1>3, <1>4 DEF Heads, kt
<1> QED  BY <1>1, <1>3, <1>5, <1>6 DEF ReadyType

(* A callback that leaves the queues alone. *)
LEMMA SameQueues ==
    ASSUME IInv, Idle, ready' = ready
    PROVE  \A m \in Namespace : Resumed(m)
BY IdleFacts DEF Resumed, Heads, kt

(* content_load_completion(). *)
LEMMA LoadOkInv == ASSUME IInv, NEW b \in loading, LoadOk(b) PROVE IInv'
<1>1. /\ UNCHANGED <<root, ready, present, dirty, storing, stored, fails, faults,
                     sent, events, aborted>>
      /\ loading' = loading \ {b} /\ Idle
  BY DEF LoadOk
<1>2. b \in Blob /\ ready' \in ReadyType  BY <1>1 DEF IInv, TypeOK, QueueType, CacheType
<1>3. CASE b \in present \ valid
  <2>1. valid' = valid \cup {b} /\ Wake(b)  BY <1>3 DEF LoadOk
  <2>2. /\ waits' \in [Namespace -> SUBSET Blob]
        /\ \A m \in Namespace : waits'[m] = waits[m] \ {b}
    BY <2>1, WakeFacts DEF IInv, TypeOK, QueueType
  <2>3. CacheType' /\ LogType'
    <3>1. CacheType'  BY <1>1, <1>3, <2>1 DEF IInv, TypeOK, CacheType
    <3>2. LogType'  BY <1>1 DEF IInv, TypeOK, LogType
    <3> QED  BY <3>1, <3>2
  <2>4. CacheInv'
    <3>1. CacheInv  BY DEF IInv
    <3> QED  BY <1>1, <2>1, <3>1 DEF CacheInv
  <2>5. DirtyListPrivate'
    BY <1>1, <2>2 DEF IInv, DirtyListPrivate, Heads, kt
  <2>6. \A m \in Namespace : Resumed(m)  BY <1>1, SameQueues
  <2>7. \A c \in Blob \ {b} : /\ c \in present \ valid => c \in present' \ valid'
                              /\ c \in storing => c \in storing'
    BY <1>1, <2>1
  <2> QED  BY <1>2, <2>1, <2>3, <2>4, <2>5, <2>6, <2>7, WakeInv
<1>4. CASE b \notin present \ valid
  <2>1. UNCHANGED <<valid, waits, stack>>  BY <1>4 DEF LoadOk
  <2>2. CacheType' /\ LogType'
    <3>1. CacheType'  BY SMTT(60), <1>1, <2>1 DEF IInv, TypeOK, CacheType
    <3>2. LogType'  BY <1>1 DEF IInv, TypeOK, LogType
    <3> QED  BY <3>1, <3>2
  <2> QED  BY <1>1, <1>4, <2>1, <2>2, QuietInv DEF IInv, CacheInv
<1> QED  BY <1>3, <1>4

(* The same with an error. *)
LEMMA LoadErrorInv == ASSUME IInv, NEW b \in loading, LoadError(b) PROVE IInv'
<1>1. /\ UNCHANGED <<root, dirty, storing, stored, faults, sent, events, aborted>>
      /\ loading' = loading \ {b} /\ Idle /\ fails' \in 0..MaxFail
      /\ b \in Blob /\ ready \in ReadyType
  BY SMTT(60), BoundAssumption
  DEF LoadError, IInv, TypeOK, QueueType, CacheType, LogType
<1>2. \/ b \notin dirty /\ present' = present \ {b} /\ valid' = valid \ {b}
      \/ b \in dirty /\ UNCHANGED <<present, valid>>
  BY DEF LoadError
<1>3. /\ present' \subseteq Blob /\ valid' \subseteq present' /\ dirty' \subseteq valid'
      /\ dirty \subseteq valid
  BY <1>1, <1>2 DEF IInv, TypeOK, CacheType
<1>4. CacheInv'  BY <1>1, <1>2, <1>3 DEF IInv, CacheInv
<1>5. CASE b \in present \ valid
  <2>1. ready' = SetAux(b, "EIO") /\ Wake(b) /\ "EIO" \in Errnum
    BY <1>5 DEF LoadError, Errnum
  <2>2. /\ waits' \in [Namespace -> SUBSET Blob]
        /\ \A m \in Namespace : waits'[m] = waits[m] \ {b}
    BY <2>1, WakeFacts DEF IInv, TypeOK, QueueType
  <2>3. /\ ready' \in ReadyType /\ \A m \in Namespace : Resumed(m)
        /\ Heads' = Heads /\ \A m \in Heads : kt(m)'.dlist = kt(m).dlist
    BY <1>1, <2>1, SetAuxFacts
  <2>4. CacheType' /\ LogType'
    <3>1. CacheType'  BY <1>1, <1>3 DEF IInv, TypeOK, CacheType
    <3>2. LogType'  BY <1>1 DEF IInv, TypeOK, LogType
    <3> QED  BY <3>1, <3>2
  <2>5. DirtyListPrivate'
    BY SMTT(60), <1>1, <2>2, <2>3 DEF IInv, DirtyListPrivate
  <2>6. \A c \in Blob \ {b} : /\ c \in present \ valid => c \in present' \ valid'
                              /\ c \in storing => c \in storing'
    BY <1>1, <1>2
  <2> QED  BY <1>1, <1>4, <2>1, <2>3, <2>4, <2>5, <2>6, WakeInv
<1>6. CASE b \notin present \ valid
  <2>1. UNCHANGED <<ready, waits, stack>>  BY SMTT(60), <1>6 DEF LoadError
  <2>2. CacheType' /\ LogType'
    <3>1. CacheType'  BY <1>1, <1>3 DEF IInv, TypeOK, CacheType
    <3>2. LogType'  BY <1>1 DEF IInv, TypeOK, LogType
    <3> QED  BY <3>1, <3>2
  <2>3. /\ valid' \subseteq valid /\ present \ valid \subseteq present' \ valid'
        /\ present' \ valid' \subseteq loading'
    BY <1>2, <1>4, <1>6 DEF CacheInv
  <2> QED  BY <1>1, <2>1, <2>2, <2>3, QuietInv
<1> QED  BY <1>5, <1>6

(* content_store_completion(): no entry becomes dirty or loses its data. *)
LEMMA StoredCache ==
    ASSUME NEW b, CacheInv, loading' = loading,
           storing' = storing \ {b}, dirty' = dirty \ {b},
           present' \ valid' \subseteq present \ valid
    PROVE  CacheInv'
BY DEF CacheInv

(* content_store_completion() with success. *)
LEMMA StoreOkInv == ASSUME IInv, NEW b \in storing, StoreOk(b) PROVE IInv'
<1>1. /\ UNCHANGED <<root, ready, present, valid, loading, fails, faults, sent,
                     events, aborted>>
      /\ storing' = storing \ {b} /\ stored' = stored \cup {b} /\ Idle
  BY DEF StoreOk
<1>2. b \in Blob /\ ready' \in ReadyType /\ b \in present
  BY <1>1 DEF IInv, TypeOK, QueueType, CacheType, CacheInv
<1>3. dirty' = dirty \ {b} /\ Wake(b)  BY <1>2 DEF StoreOk
<1>4. /\ waits' \in [Namespace -> SUBSET Blob]
      /\ \A m \in Namespace : waits'[m] = waits[m] \ {b}
  BY <1>3, WakeFacts DEF IInv, TypeOK, QueueType
<1>5. CacheType' /\ LogType'
  <2>1. CacheType'  BY <1>1, <1>2, <1>3 DEF IInv, TypeOK, CacheType
  <2>2. LogType'  BY <1>1 DEF IInv, TypeOK, LogType
  <2> QED  BY <2>1, <2>2
<1>6. CacheInv'
  <2>1. CacheInv  BY DEF IInv
  <2>2. present' \ valid' \subseteq present \ valid  BY <1>1
  <2>3. loading' = loading /\ storing' = storing \ {b}  BY <1>1
  <2> QED  BY <1>3, <2>1, <2>2, <2>3, StoredCache
<1>7. DirtyListPrivate'
  BY <1>1, <1>3, <1>4 DEF IInv, DirtyListPrivate, Heads, kt
<1>8. \A m \in Namespace : Resumed(m)  BY <1>1, SameQueues
<1>9. \A c \in Blob \ {b} : /\ c \in present \ valid => c \in present' \ valid'
                            /\ c \in storing => c \in storing'
  BY <1>1
<1> QED  BY <1>2, <1>3, <1>5, <1>6, <1>7, <1>8, <1>9, WakeInv

(* The same with an error: the entries that wait for it get the error. *)
LEMMA StoreErrorInv == ASSUME IInv, NEW b \in storing, StoreError(b) PROVE IInv'
<1>1. /\ UNCHANGED <<root, loading, stored, faults, sent, events, aborted>>
      /\ storing' = storing \ {b} /\ Idle /\ fails' \in 0..MaxFail
  <2>1. fails \in 0..MaxFail  BY DEF IInv, TypeOK, LogType
  <2>2. /\ fails < MaxFail /\ fails' = fails + 1
        /\ UNCHANGED <<root, loading, stored, faults, sent, events, aborted>>
        /\ storing' = storing \ {b} /\ Idle
    BY DEF StoreError
  <2>3. MaxFail \in Nat  BY BoundAssumption
  <2>4. fails' \in 0..MaxFail  BY <2>1, <2>2, <2>3, CountFacts
  <2> QED  BY <2>2, <2>4
<1>2. b \in Blob /\ b \in present /\ b \in valid
  BY DEF IInv, TypeOK, CacheType, CacheInv
<1>3. /\ ready' = SetAux(b, "EIO") /\ Wake(b) /\ "EIO" \in Errnum
      /\ present' = present \ {b} /\ valid' = valid \ {b} /\ dirty' = dirty \ {b}
  BY <1>2 DEF StoreError, Errnum
<1>4. /\ waits' \in [Namespace -> SUBSET Blob]
      /\ \A m \in Namespace : waits'[m] = waits[m] \ {b}
  BY <1>3, WakeFacts DEF IInv, TypeOK, QueueType
<1>5. /\ ready' \in ReadyType /\ \A m \in Namespace : Resumed(m)
      /\ Heads' = Heads /\ \A m \in Heads : kt(m)'.dlist = kt(m).dlist
  BY <1>1, <1>3, SetAuxFacts
<1>6. CacheType' /\ LogType'
  <2>1. CacheType'  BY <1>1, <1>3 DEF IInv, TypeOK, CacheType
  <2>2. LogType'  BY <1>1 DEF IInv, TypeOK, LogType
  <2> QED  BY <2>1, <2>2
<1>7. CacheInv'
  <2>1. CacheInv  BY DEF IInv
  <2>2. present' \ valid' \subseteq present \ valid  BY <1>3
  <2>3. loading' = loading /\ storing' = storing \ {b}  BY <1>1
  <2> QED  BY <1>3, <2>1, <2>2, <2>3, StoredCache
<1>8. DirtyListPrivate'
  BY SMTT(60), <1>1, <1>3, <1>4, <1>5 DEF IInv, DirtyListPrivate
<1>9. \A c \in Blob \ {b} : /\ c \in present \ valid => c \in present' \ valid'
                            /\ c \in storing => c \in storing'
  BY <1>1, <1>3
<1> QED  BY SMTT(60), <1>2, <1>3, <1>5, <1>6, <1>7, <1>8, <1>9, WakeInv

----------------------------------------------------------------------------
(* The theorems *)

(* The state mod_main() leaves satisfies the invariant. *)
LEMMA InitInv == Init => IInv
<1> SUFFICES ASSUME Init PROVE IInv  OBVIOUS
<1>1. InitDir \in Dir /\ EmptyDir \in Dir  BY InitDirAssumption, LeafType
<1>2. root \in RootType  BY <1>1 DEF Init, RootType
<1>3. stored \subseteq Blob
  <2>1. Reach(InitDir) \subseteq Blob  BY <1>1, ReachType
  <2>2. DirBlob(EmptyDir) \in Blob  BY <1>1 DEF DirBlob, Blob
  <2> QED  BY <2>1, <2>2 DEF Init
<1>4. TypeOK
  <2>1. ready \in [Namespace -> Seq(Kvstxn)]  BY SMTT(60) DEF Init
  <2>2. stack \in Seq(Call) /\ sent \in Seq(Txn) /\ events \in Seq(Event)
    BY SMTT(60) DEF Init
  <2>3. waits \in [Namespace -> SUBSET Blob]  BY DEF Init
  <2>4. fails \in 0..MaxFail /\ faults \in 0..MaxFault  BY SMTT(60), BoundAssumption DEF Init
  <2>5. /\ present = {} /\ valid = {} /\ dirty = {} /\ loading = {} /\ storing = {}
        /\ aborted = FALSE
    BY DEF Init
  <2> QED  BY <1>2, <1>3, <2>1, <2>2, <2>3, <2>4, <2>5
           DEF TypeOK, QueueType, CacheType, LogType, ReadyType
<1>5. Heads = {} /\ Running = {}  BY IdleRunning DEF Init, Heads
<1>6. StackOrder
  <2>1. stack = <<>>  BY DEF Init
  <2> QED  BY SMTT(60), <2>1 DEF StackOrder
<1>7. \A n \in Namespace : RunInv(n) /\ WaitInv(n) /\ HeadInv(n)
  BY <1>5 DEF Init, RunInv, WaitInv, HeadInv
<1>8. CacheInv /\ DirtyListPrivate
  BY <1>5 DEF Init, CacheInv, DirtyListPrivate
<1> QED  BY <1>4, <1>6, <1>7, <1>8 DEF IInv

(* Every step of the reactor preserves it. *)
LEMMA NextInv == IInv /\ [Next]_vars => IInv'
<1> SUFFICES ASSUME IInv, [Next]_vars PROVE IInv'  OBVIOUS
<1>1. CASE UNCHANGED vars
  <2>1. CacheType' /\ LogType'
    <3>1. CacheType'  BY <1>1 DEF IInv, TypeOK, CacheType, vars, cacheVars, rpcVars
    <3>2. LogType'  BY <1>1 DEF IInv, TypeOK, LogType, vars, cacheVars, rpcVars
    <3> QED  BY <3>1, <3>2
  <2> QED  BY <1>1, <2>1, QuietInv DEF vars, cacheVars, rpcVars, IInv, CacheInv
<1>2. ASSUME NEW t \in Txn, Submit(t) PROVE IInv'  BY <1>2, SubmitInv
<1>3. ASSUME NEW n \in Namespace, NamespaceRemove(n) PROVE IInv'
  BY <1>3, NamespaceRemoveInv
<1>4. ASSUME NEW n \in Namespace, NamespaceCreate(n) PROVE IInv'
  BY <1>4, NamespaceCreateInv
<1>5. ASSUME NEW n \in Namespace, LookupLoad(n) PROVE IInv'  BY <1>5, LookupLoadInv
<1>6. ASSUME NEW n \in Namespace, CheckRoot(n) PROVE IInv'  BY <1>6, CheckRootInv
<1>7. ASSUME NEW n \in Namespace, Merge(n) PROVE IInv'  BY <1>7, MergeInv
<1>8. ASSUME NEW n \in Namespace, Apply(n) PROVE IInv'  BY <1>8, ApplyInv
<1>9. ASSUME NEW n \in Namespace, ApplyOp(n) PROVE IInv'  BY <1>9, ApplyOpInv
<1>10. ASSUME NEW n \in Namespace, StoreObj(n) PROVE IInv'  BY <1>10, StoreObjInv
<1>11. ASSUME NEW n \in Namespace, Flush(n) PROVE IInv'  BY <1>11, FlushInv
<1>12. ASSUME NEW n \in Namespace, Finish(n) PROVE IInv'  BY <1>12, FinishInv
<1>13. CASE CheckCb  BY <1>13, CheckCbInv
<1>14. CASE Heartbeat \/ DropCache  BY <1>14, HeartbeatInv
<1>15. ASSUME NEW b \in loading, LoadOk(b) PROVE IInv'  BY <1>15, LoadOkInv
<1>16. ASSUME NEW b \in loading, LoadError(b) PROVE IInv'  BY <1>16, LoadErrorInv
<1>17. ASSUME NEW b \in storing, StoreOk(b) PROVE IInv'  BY <1>17, StoreOkInv
<1>18. ASSUME NEW b \in storing, StoreError(b) PROVE IInv'  BY <1>18, StoreErrorInv
<1> QED
  BY <1>1, <1>2, <1>3, <1>4, <1>5, <1>6, <1>7, <1>8, <1>9, <1>10, <1>11, <1>12,
     <1>13, <1>14, <1>15, <1>16, <1>17, <1>18 DEF Next

(* IInv holds of every state the commit pipeline reaches. *)
THEOREM Invariance == Spec => []IInv
BY InitInv, NextInv, PTL DEF Spec

(* The records of kvs.c, kvstxn.c and cache.c keep their types. *)
THEOREM TypeCorrect == Spec => []TypeOK
<1>1. IInv => TypeOK  BY DEF IInv
<1> QED  BY Invariance, <1>1, PTL

(* Every blocked transaction waits for an answer that is still to come, or   *)
(* is being called back: kvstxn_apply() never stalls for good.              *)
THEOREM Wakeup == Spec => []NoLostWakeup
<1>1. IInv => NoLostWakeup
  <2> SUFFICES ASSUME IInv, NEW n \in Namespace
               PROVE  /\ \A b \in waits[n] : \/ b \in loading \cap (present \ valid)
                                             \/ b \in storing \cap dirty
                      /\ waits[n] # {} => n \in Heads /\ kt(n).blocked
                      /\ n \in Heads /\ kt(n).blocked => waits[n] # {} \/ OnStack(n)
    BY DEF NoLostWakeup
  <2>1. n \in Running => OnStack(n)  BY DEF Running, OnStack
  <2>2. n \in Heads => (kt(n).blocked => waits[n] # {} \/ n \in Running)
    BY DEF IInv, HeadInv, Heads
  <2>3. \A b \in waits[n] : \/ b \in loading \cap (present \ valid)
                            \/ b \in storing \cap dirty
    BY DEF IInv, WaitInv, CacheInv
  <2>4. waits[n] # {} => n \in Heads /\ kt(n).blocked
    BY DEF IInv, WaitInv, Heads
  <2> QED  BY <2>1, <2>2, <2>3, <2>4
<1> QED  BY Invariance, <1>1, PTL

(* No two transactions flush the same entry, and the assertions of           *)
(* kvstxn_cache_cb() and kvstxn_cleanup_dirty_cache_entry() hold.           *)
THEOREM DirtyPrivate == Spec => []DirtyListPrivate
<1>1. IInv => DirtyListPrivate  BY DEF IInv
<1> QED  BY Invariance, <1>1, PTL

----------------------------------------------------------------------------
(* The proof that a namespace marked for removal keeps its root, for every  *)
(* set of namespaces and transactions.  kvstxn_apply() looks at the mark    *)
(* once, when it is called, and a transaction may publish many steps later: *)
(* what makes this safe is that requests to remove a namespace wait for the *)
(* end of the callback, however deep its calls are nested, and that a       *)
(* blocked transaction is tested again when it is called back.              *)

(* A call past the test for removal is of a namespace that is not removed. *)
Begun == {"op", "store", "flush", "finish"}
Tested == \A i \in DOMAIN stack :
            stack[i].f \in Begun => root[stack[i].ns].life # "remove"

(* What RemovedIsFrozen says of one step and one namespace. *)
Still(n) == /\ root'[n].ref = root[n].ref /\ root'[n].life # "live"
            /\ \A i \in DOMAIN events' \ DOMAIN events :
                 events'[i].ns = n => events'[i].err = "ENOTSUP"
StepSafe == Tested' /\ \A n \in Namespace : root[n].life = "remove" => Still(n)

SameLives == \A n \in Namespace : root'[n].life = root[n].life

----------------------------------------------------------------------------
(* The stack *)

(* Calls are of namespaces. *)
LEMMA CallNames ==
    ASSUME stack \in Seq(Call) PROVE \A i \in 1..Len(stack) : stack[i].ns \in Namespace
<1>1. \A i \in 1..Len(stack) : stack[i] \in Call  BY SMTT(60)
<1> QED  BY <1>1 DEF Call

(* A call returns. *)
LEMMA TestedReturn ==
    ASSUME stack \in Seq(Call), stack # <<>>, Tested, Return, SameLives
    PROVE  Tested'
<1>1. /\ Len(stack) \in Nat \ {0} /\ DOMAIN stack = 1..Len(stack)
      /\ DOMAIN stack' = 1..(Len(stack) - 1)
      /\ \A i \in 1..(Len(stack) - 1) :
           stack'[i] = stack[i + 1] /\ i + 1 \in 1..Len(stack)
  BY SMTT(60) DEF Return
<1>2. \A i \in 1..Len(stack) : stack[i].ns \in Namespace  BY CallNames
<1> QED  BY SMTT(60), <1>1, <1>2 DEF Tested, SameLives

(* A call goes on to its next stage. *)
LEMMA TestedBecome ==
    ASSUME stack \in Seq(Call), stack # <<>>, Tested, SameLives,
           NEW n \in Namespace, NEW g, NEW f, Head(stack) = Frame(g, n), Become(f),
           f \in Begun => root[n].life # "remove"
    PROVE  Tested'
<1>1. Head(stack).ns = n  BY SMTT(60) DEF Frame
<1>2. stack' = <<Frame(f, n)>> \o Tail(stack)  BY <1>1 DEF Become
<1>3. /\ Len(stack) \in Nat \ {0} /\ DOMAIN stack = 1..Len(stack)
      /\ DOMAIN stack' = 1..Len(stack) /\ stack'[1] = Frame(f, n)
      /\ \A i \in 2..Len(stack) : stack'[i] = stack[i]
  BY SMTT(60), <1>2
<1>4. \A i \in 1..Len(stack) : stack[i].ns \in Namespace  BY CallNames
<1>5. Frame(f, n).f = f /\ Frame(f, n).ns = n  BY DEF Frame
<1> QED  BY SMTT(60), <1>3, <1>4, <1>5 DEF Tested, SameLives

(* The waiters of an entry are called on top of the call in progress. *)
LEMMA TestedWake ==
    ASSUME stack \in Seq(Call), Tested, SameLives, NEW b, Wake(b)
    PROVE  Tested'
<1> DEFINE W == {n \in Namespace : waits[n] = {b}}
<1>1. PICK s \in Orders(W) :
        stack' = [i \in DOMAIN s |-> Frame("apply", s[i])] \o stack
  BY DEF Wake
<1>2. PICK c \in Nat : s \in [1..c -> W]
  <2> HIDE DEF W
  <2> QED  BY SMTT(60) DEF Orders
<1> DEFINE p == [i \in 1..c |-> Frame("apply", s[i])]
<1>3. \A i \in 1..c : p[i] \in Call /\ p[i].f = "apply"
  BY <1>2 DEF Call, Frame
<1>4. p \in Seq(Call) /\ Len(p) = c  BY SMTT(60), <1>3, SeqFacts
<1>5. stack' = p \o stack  BY <1>1, <1>2
<1> HIDE DEF p
<1> DEFINE t == p \o stack
<1>6. /\ DOMAIN stack' = 1..(c + Len(stack)) /\ Len(stack) \in Nat
      /\ \A i \in 1..c : stack'[i] = p[i]
      /\ \A i \in (c + 1)..(c + Len(stack)) :
           stack'[i] = stack[i - c] /\ i - c \in 1..Len(stack)
  <2>1. DOMAIN stack = 1..Len(stack)  BY SMTT(60)
  <2>2. /\ DOMAIN t = 1..(c + Len(stack)) /\ Len(stack) \in Nat
        /\ \A i \in 1..c : t[i] = p[i]
        /\ \A i \in (c + 1)..(c + Len(stack)) :
             t[i] = stack[i - c] /\ i - c \in 1..Len(stack)
    <3>1. /\ p \o stack \in Seq(Call) /\ Len(p \o stack) = Len(p) + Len(stack)
          /\ Len(p) \in Nat /\ Len(stack) \in Nat
          /\ DOMAIN (p \o stack) = 1..(Len(p) + Len(stack))
          /\ \A i \in 1..Len(p) : (p \o stack)[i] = p[i]
          /\ \A i \in (Len(p) + 1)..(Len(p) + Len(stack)) :
               (p \o stack)[i] = stack[i - Len(p)] /\ i - Len(p) \in 1..Len(stack)
      BY <1>4, ConcatFacts
    <3> QED  BY <1>4, <2>1, <3>1
  <2>3. stack' = t  BY <1>5
  <2> QED  BY <2>2, <2>3
<1>7. \A i \in 1..Len(stack) : stack[i].ns \in Namespace  BY CallNames
<1> QED  BY SMTT(60), <1>3, <1>6, <1>7 DEF Tested, SameLives, Begun

----------------------------------------------------------------------------
(* Steps *)

(* A step that neither publishes nor moves a root. *)
LEMMA QuietSafe ==
    ASSUME Tested', root' = root, events' = events PROVE StepSafe
BY DEF StepSafe, Still

(* A step that publishes one event. *)
LEMMA EventSafe ==
    ASSUME events \in Seq(Event), Tested', NEW e, events' = Append(events, e),
           \A n \in Namespace : root[n].life = "remove" =>
             /\ root'[n].ref = root[n].ref /\ root'[n].life # "live"
             /\ e.ns = n => e.err = "ENOTSUP"
    PROVE  StepSafe
<1>1. /\ Len(events) \in Nat /\ DOMAIN events = 1..Len(events)
      /\ DOMAIN events' = 1..(Len(events) + 1) /\ events'[Len(events) + 1] = e
  BY SMTT(60)
<1>2. \A i \in DOMAIN events' \ DOMAIN events : events'[i] = e  BY SMTT(60), <1>1
<1> QED  BY <1>2 DEF StepSafe, Still

(* A transaction fails: with ENOTSUP if its namespace is removed. *)
LEMMA FailSafe ==
    ASSUME IInv, Tested, NEW n \in Namespace, NEW g, NEW e, In(g, n), Fail(n, e),
           root' = root, Removed(n) => e = "ENOTSUP"
    PROVE  StepSafe
<1>1. stack \in Seq(Call) /\ stack # <<>> /\ events \in Seq(Event)
  BY DEF IInv, TypeOK, QueueType, LogType, In
<1>2. Tested'  BY <1>1, TestedReturn DEF Fail, SameLives
<1>3. CASE events' = events  BY <1>2, <1>3, QuietSafe
<1> DEFINE ev == [ns |-> n, names |-> kt(n).names, err |-> e,
                  seq |-> root[n].seq, ref |-> root[n].ref]
<1>4. CASE events' = Append(events, ev)
  <2>1. ev.ns = n /\ ev.err = e  OBVIOUS
  <2> HIDE DEF ev
  <2> QED  BY <1>1, <1>2, <1>4, <2>1, EventSafe DEF Removed
<1> QED  BY <1>3, <1>4 DEF Fail

(* A transaction stalls on missing objects, or the request fails. *)
LEMMA LoadMissingSafe ==
    ASSUME IInv, Tested, NEW n \in Namespace, NEW g, NEW k, In(g, n),
           LoadMissing(n, k), root' = root, ~Removed(n)
    PROVE  StepSafe
<1>1. stack \in Seq(Call) /\ stack # <<>>  BY DEF IInv, TypeOK, QueueType, In
<1>2. (Return /\ events' = events) \/ Fail(n, "EIO")
  BY DEF LoadMissing
<1>3. CASE Return /\ events' = events
  BY <1>1, <1>3, TestedReturn, QuietSafe DEF SameLives
<1>4. CASE Fail(n, "EIO")  BY <1>4, FailSafe
<1> QED  BY <1>2, <1>3, <1>4

(* A transaction goes on to stage f. *)
LEMMA GotoSafe ==
    ASSUME IInv, Tested, NEW n \in Namespace, NEW g, NEW f, In(g, n), Become(f),
           root' = root, events' = events, f \in Begun => ~Removed(n)
    PROVE  StepSafe
<1>1. stack \in Seq(Call) /\ stack # <<>> /\ Head(stack) = Frame(g, n)
  BY DEF IInv, TypeOK, QueueType, In
<1>2. Tested'  BY <1>1, TestedBecome DEF SameLives, Removed
<1> QED  BY <1>2, QuietSafe

(* A call past the test knows that its namespace is not removed. *)
LEMMA InTested ==
    ASSUME IInv, Tested, NEW n \in Namespace, NEW g \in Begun, In(g, n)
    PROVE  ~Removed(n)
<1>1. stack \in Seq(Call) /\ stack # <<>> /\ Head(stack) = Frame(g, n)
  BY DEF IInv, TypeOK, QueueType, In
<1>2. 1 \in DOMAIN stack /\ stack[1] = Frame(g, n)  BY SMTT(60), <1>1
<1>3. stack[1].f = g /\ stack[1].ns = n  BY SMTT(60), <1>2 DEF Frame
<1> QED  BY <1>2, <1>3 DEF Tested, Removed

(* A step that leaves the stack, the roots and the events alone. *)
LEMMA StutterSafe ==
    ASSUME Tested, stack' = stack, root' = root, events' = events PROVE StepSafe
<1>1. Tested'  BY DEF Tested
<1> QED  BY <1>1, QuietSafe

(* The waiters of an entry are called. *)
LEMMA WakeSafe ==
    ASSUME IInv, Tested, NEW b, Wake(b), root' = root, events' = events
    PROVE  StepSafe
<1>1. stack \in Seq(Call)  BY DEF IInv, TypeOK, QueueType
<1>2. Tested'  BY <1>1, TestedWake DEF SameLives
<1> QED  BY <1>2, QuietSafe

(* From a state without calls, to one. *)
LEMMA IdleTested == ASSUME stack' = <<>> PROVE Tested'
BY SMTT(60) DEF Tested

----------------------------------------------------------------------------
(* Requests and answers *)

(* commit_request_cb() refuses a transaction of a removed namespace. *)
LEMMA SubmitSafe ==
    ASSUME IInv, Tested, NEW t \in Txn, Submit(t) PROVE StepSafe
<1>1. stack' = <<>> /\ root' = root  BY DEF Submit, Idle
<1>2. Tested'  BY <1>1, IdleTested
<1>3. CASE root[NsOf[t]].life = "live"
  BY <1>1, <1>2, <1>3, QuietSafe DEF Submit
<1>4. CASE root[NsOf[t]].life # "live"
  <2> DEFINE e == [ns |-> NsOf[t], names |-> <<t>>, err |-> "ENOTSUP",
                   seq |-> root[NsOf[t]].seq, ref |-> root[NsOf[t]].ref]
  <2>1. events' = Append(events, e) /\ e.err = "ENOTSUP"  BY <1>4 DEF Submit
  <2>2. events \in Seq(Event)  BY DEF IInv, TypeOK, LogType
  <2> HIDE DEF e
  <2> QED  BY <1>1, <1>2, <2>1, <2>2, EventSafe
<1> QED  BY <1>3, <1>4

(* Namespaces are marked, deleted and created between callbacks. *)
LEMMA LifeSafe ==
    ASSUME IInv, Heartbeat \/ DropCache \/ \E n \in Namespace :
             NamespaceRemove(n) \/ NamespaceCreate(n) \/ LookupLoad(n)
    PROVE  StepSafe
<1>1. stack' = <<>> /\ events' = events
  BY DEF Heartbeat, DropCache, NamespaceRemove, NamespaceCreate, LookupLoad,
         Expire, Idle
<1>2. Tested'  BY <1>1, IdleTested
<1>3. root \in RootType  BY DEF IInv, TypeOK, LogType
<1>4. \A m \in Namespace : root[m].life = "remove" =>
        root'[m].ref = root[m].ref /\ root'[m].life # "live"
  <2>1. CASE Heartbeat
    <3>1. PICK C \in SUBSET {n \in Namespace : root[n].life = "remove"
                                                 /\ ready[n] = <<>>} :
            root' = [n \in Namespace |-> IF n \in C
                       THEN [root[n] EXCEPT !.life = "gone"] ELSE root[n]]
      BY <2>1 DEF Heartbeat
    <3> QED  BY <1>3, <3>1 DEF RootType
  <2>2. CASE DropCache  BY <2>2 DEF DropCache
  <2>3. ASSUME NEW n \in Namespace, NamespaceRemove(n)
        PROVE  \A m \in Namespace : root[m].life = "remove" =>
                 root'[m].ref = root[m].ref /\ root'[m].life # "live"
    BY <1>3, <2>3 DEF NamespaceRemove, RootType
  <2>4. ASSUME NEW n \in Namespace, NamespaceCreate(n)
        PROVE  \A m \in Namespace : root[m].life = "remove" =>
                 root'[m].ref = root[m].ref /\ root'[m].life # "live"
    BY <1>3, <2>4 DEF NamespaceCreate, RootType
  <2>5. ASSUME NEW n \in Namespace, LookupLoad(n) PROVE root' = root
    BY <2>5 DEF LookupLoad
  <2> QED  BY <2>1, <2>2, <2>3, <2>4, <2>5
<1> QED  BY <1>1, <1>2, <1>4 DEF StepSafe, Still

(* The check callback begins with the calls of kvstxn_check_root_cb(). *)
LEMMA CheckCbSafe == ASSUME IInv, CheckCb PROVE StepSafe
<1>1. PICK s \in Orders({n \in Namespace : root[n].life # "gone"}) :
        stack' = [i \in DOMAIN s |-> Frame("check", s[i])]
  BY DEF CheckCb
<1>2. \A i \in DOMAIN stack' : stack'[i].f = "check"  BY <1>1 DEF Frame
<1>3. Tested'  BY <1>2 DEF Tested, Begun
<1> QED  BY <1>3, QuietSafe DEF CheckCb

(* An answer of the content service runs waiters, or does nothing. *)
LEMMA AnswerSafe ==
    ASSUME IInv, Tested, NEW b, LoadOk(b) \/ LoadError(b) \/ StoreOk(b) \/ StoreError(b)
    PROVE  StepSafe
<1>1. root' = root /\ events' = events
  BY DEF LoadOk, LoadError, StoreOk, StoreError
<1>2. Wake(b) \/ stack' = stack
  BY DEF LoadOk, LoadError, StoreOk, StoreError
<1> QED  BY <1>1, <1>2, WakeSafe, StutterSafe

----------------------------------------------------------------------------
(* The calls of a callback *)

(* kvstxn_check_root_cb() and the merge. *)
LEMMA MergeSafe ==
    ASSUME IInv, Tested, NEW n \in Namespace, CheckRoot(n) \/ Merge(n) PROVE StepSafe
<1>1. root' = root /\ events' = events  BY DEF CheckRoot, Merge
<1>2. PICK g : In(g, n)  BY DEF CheckRoot, Merge
<1>3. Return \/ Become("merge") \/ Become("apply") \/ stack' = stack
  BY DEF CheckRoot, Merge
<1>4. CASE Return
  <2>1. stack \in Seq(Call) /\ stack # <<>>
    BY <1>2 DEF IInv, TypeOK, QueueType, In
  <2> QED  BY SMTT(60), <1>1, <1>4, <2>1, TestedReturn, QuietSafe DEF SameLives
<1>5. "merge" \notin Begun /\ "apply" \notin Begun  BY DEF Begun
<1>6. CASE Become("merge")  BY <1>1, <1>2, <1>5, <1>6, GotoSafe
<1>7. CASE Become("apply")  BY <1>1, <1>2, <1>5, <1>7, GotoSafe
<1>8. CASE stack' = stack  BY <1>1, <1>8, StutterSafe
<1> QED  BY <1>3, <1>4, <1>6, <1>7, <1>8

(* The head of kvstxn_apply(): the test, and what follows it. *)
LEMMA ApplySafe ==
    ASSUME IInv, Tested, NEW n \in Namespace, Apply(n) PROVE StepSafe
<1>1. root' = root /\ In("apply", n)  BY DEF Apply
<1>2. CASE Removed(n)
  <2>1. Fail(n, "ENOTSUP")  BY <1>2 DEF Apply
  <2> QED  BY <1>1, <2>1, FailSafe
<1>3. CASE ~Removed(n)
  <2>1. \/ \E e : Fail(n, e)
        \/ \E k : LoadMissing(n, k)
        \/ Become("op") /\ events' = events
        \/ Become("flush") /\ events' = events
    BY <1>3 DEF Apply
  <2>2. ASSUME NEW e, Fail(n, e) PROVE StepSafe  BY <1>1, <1>3, <2>2, FailSafe
  <2>3. ASSUME NEW k, LoadMissing(n, k) PROVE StepSafe
    BY <1>1, <1>3, <2>3, LoadMissingSafe
  <2>4. CASE Become("op") /\ events' = events  BY <1>1, <1>3, <2>4, GotoSafe
  <2>5. CASE Become("flush") /\ events' = events  BY <1>1, <1>3, <2>5, GotoSafe
  <2> QED  BY <2>1, <2>2, <2>3, <2>4, <2>5
<1> QED  BY <1>2, <1>3

(* APPLY_OPS. *)
LEMMA ApplyOpSafe ==
    ASSUME IInv, Tested, NEW n \in Namespace, ApplyOp(n) PROVE StepSafe
<1>1. root' = root /\ In("op", n)  BY DEF ApplyOp
<1>2. ~Removed(n)
  <2>1. "op" \in Begun  BY DEF Begun
  <2> QED  BY <1>1, <2>1, InTested
<1>3. \/ \E e : Fail(n, e)
      \/ LoadMissing(n, kt(n))
      \/ Become("store") /\ events' = events
      \/ stack' = stack /\ events' = events
  BY DEF ApplyOp
<1>4. ASSUME NEW e, Fail(n, e) PROVE StepSafe  BY <1>1, <1>2, <1>4, FailSafe
<1>5. CASE LoadMissing(n, kt(n))  BY <1>1, <1>2, <1>5, LoadMissingSafe
<1>6. CASE Become("store") /\ events' = events  BY <1>1, <1>2, <1>6, GotoSafe
<1>7. CASE stack' = stack /\ events' = events  BY <1>1, <1>7, StutterSafe
<1> QED  BY <1>3, <1>4, <1>5, <1>6, <1>7

(* STORE, which may run the transactions of other namespaces. *)
LEMMA StoreObjSafe ==
    ASSUME IInv, Tested, NEW n \in Namespace, StoreObj(n) PROVE StepSafe
<1>1. root' = root /\ events' = events /\ In("store", n)
  BY DEF StoreObj
<1>2. ~Removed(n)
  <2>1. "store" \in Begun  BY DEF Begun
  <2> QED  BY <1>1, <2>1, InTested
<1>3. Become("flush") \/ stack' = stack \/ \E b : Wake(b)
  BY DEF StoreObj
<1>4. CASE Become("flush")  BY <1>1, <1>2, <1>4, GotoSafe
<1>5. CASE stack' = stack  BY <1>1, <1>5, StutterSafe
<1>6. ASSUME NEW b, Wake(b) PROVE StepSafe  BY <1>1, <1>6, WakeSafe
<1> QED  BY <1>3, <1>4, <1>5, <1>6

(* PRE_FINISHED. *)
LEMMA FlushSafe ==
    ASSUME IInv, Tested, NEW n \in Namespace, Flush(n) PROVE StepSafe
<1>1. root' = root /\ In("flush", n)  BY DEF Flush
<1>2. ~Removed(n)
  <2>1. "flush" \in Begun  BY DEF Begun
  <2> QED  BY <1>1, <2>1, InTested
<1>3. \/ Fail(n, "EIO")
      \/ Become("finish") /\ events' = events
      \/ Return /\ events' = events
  BY DEF Flush
<1>4. CASE Fail(n, "EIO")  BY <1>1, <1>2, <1>4, FailSafe
<1>5. CASE Become("finish") /\ events' = events  BY <1>1, <1>2, <1>5, GotoSafe
<1>6. CASE Return /\ events' = events
  <2>1. stack \in Seq(Call) /\ stack # <<>>
    BY <1>1 DEF IInv, TypeOK, QueueType, In
  <2> QED  BY SMTT(60), <1>1, <1>6, <2>1, TestedReturn, QuietSafe DEF SameLives
<1> QED  BY <1>3, <1>4, <1>5, <1>6

(* setroot(): the namespace is not the removed one. *)
LEMMA FinishSafe ==
    ASSUME IInv, Tested, NEW n \in Namespace, Finish(n) PROVE StepSafe
<1>1. In("finish", n)  BY DEF Finish
<1>2. ~Removed(n)
  <2>1. "finish" \in Begun  BY DEF Begun
  <2> QED  BY <1>1, <2>1, InTested
<1>3. CASE stack' = stack /\ root' = root /\ events' = events
  BY <1>3, StutterSafe
<1> DEFINE new == Unroll(kt(n).cpy)
           e == [ns |-> n, names |-> kt(n).names, err |-> "ok",
                 seq |-> root[n].seq + 1, ref |-> new]
<1>4. CASE /\ root' = [root EXCEPT ![n] = [@ EXCEPT !.ref = new, !.seq = root[n].seq + 1]]
           /\ events' = Append(events, e) /\ Return
  <2>1. e.ns = n  OBVIOUS
  <2>2. /\ stack \in Seq(Call) /\ stack # <<>> /\ root \in RootType
        /\ events \in Seq(Event)
    BY <1>1 DEF IInv, TypeOK, QueueType, LogType, In
  <2> HIDE DEF new
  <2>3. SameLives /\ \A m \in Namespace \ {n} : root'[m] = root[m]
    BY <1>4, <2>2 DEF SameLives, RootType
  <2> HIDE DEF e
  <2>4. Tested'  BY <1>4, <2>2, <2>3, TestedReturn
  <2> QED  BY SMTT(60), <1>2, <1>4, <2>1, <2>2, <2>3, <2>4, EventSafe DEF Removed
<1> QED  BY <1>3, <1>4 DEF Finish

----------------------------------------------------------------------------
(* The theorem *)

(* Every step leaves a removed namespace as it is. *)
LEMMA NextSafe == IInv /\ Tested /\ [Next]_vars => StepSafe
<1> SUFFICES ASSUME IInv, Tested, [Next]_vars PROVE StepSafe  OBVIOUS
<1>1. CASE UNCHANGED vars  BY <1>1, StutterSafe DEF vars
<1>2. ASSUME NEW t \in Txn, Submit(t) PROVE StepSafe  BY <1>2, SubmitSafe
<1>3. ASSUME NEW n \in Namespace,
             NamespaceRemove(n) \/ NamespaceCreate(n) \/ LookupLoad(n)
      PROVE  StepSafe
  BY <1>3, LifeSafe
<1>4. ASSUME NEW n \in Namespace, CheckRoot(n) \/ Merge(n) PROVE StepSafe
  BY SMTT(60), <1>4, MergeSafe
<1>5. ASSUME NEW n \in Namespace, Apply(n) PROVE StepSafe  BY <1>5, ApplySafe
<1>6. ASSUME NEW n \in Namespace, ApplyOp(n) PROVE StepSafe  BY <1>6, ApplyOpSafe
<1>7. ASSUME NEW n \in Namespace, StoreObj(n) PROVE StepSafe  BY <1>7, StoreObjSafe
<1>8. ASSUME NEW n \in Namespace, Flush(n) PROVE StepSafe  BY <1>8, FlushSafe
<1>9. ASSUME NEW n \in Namespace, Finish(n) PROVE StepSafe  BY <1>9, FinishSafe
<1>10. CASE CheckCb  BY <1>10, CheckCbSafe
<1>11. CASE Heartbeat \/ DropCache  BY <1>11, LifeSafe
<1>12. ASSUME NEW b, LoadOk(b) \/ LoadError(b) \/ StoreOk(b) \/ StoreError(b)
       PROVE  StepSafe
  BY <1>12, AnswerSafe
<1> QED
  BY SMTT(60), <1>1, <1>2, <1>3, <1>4, <1>5, <1>6, <1>7, <1>8, <1>9, <1>10, <1>11, <1>12
  DEF Next

(* Once start_root_remove() has marked a namespace its root never changes    *)
(* again, and what is still queued for it is answered with ENOTSUP.         *)
THEOREM Frozen == Spec => RemovedIsFrozen
<1> DEFINE Step == \A n \in Namespace : root[n].life = "remove" =>
                     /\ root'[n].ref = root[n].ref /\ root'[n].life # "live"
                     /\ \A i \in DOMAIN events' \ DOMAIN events :
                          events'[i].ns = n => events'[i].err = "ENOTSUP"
<1>1. Init => Tested
  <2> SUFFICES ASSUME Init PROVE Tested  OBVIOUS
  <2>1. stack = <<>>  BY DEF Init
  <2> QED  BY SMTT(60), <2>1 DEF Tested
<1>2. IInv /\ Tested /\ [Next]_vars => Tested' /\ [Step]_vars
  BY NextSafe DEF StepSafe, Still
<1> HIDE DEF Step
<1>3. Spec => [][Step]_vars  BY <1>1, <1>2, Invariance, PTL DEF Spec
<1> QED  BY <1>3 DEF RemovedIsFrozen, Step

=============================================================================
