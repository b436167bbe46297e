------------------------------ MODULE KvsTree -------------------------------
(***************************************************************************)
(* The tree objects of the KVS (RFC 11) and what a transaction does to     *)
(* them: kvstxn_link_dirent(), kvstxn_append() and kvstxn_unroll() of       *)
(* src/modules/kvs/kvstxn.c as operators.                                   *)
(*                                                                         *)
(* Objects are content addressed.  A blobref is represented by the object  *)
(* it is the hash of, so that equal objects have equal references.         *)
(* Directories are two levels deep and hold no symlinks.                   *)
(***************************************************************************)
EXTENDS Naturals, Sequences

CONSTANTS
    Name,           \* path components
    Data,           \* values
    Large           \* the values too long to be kept inline in a directory

ASSUME NameAssumption == "." \notin Name
ASSUME LargeAssumption == Large \subseteq Data

----------------------------------------------------------------------------
(* Tree objects *)

None == [t |-> "none"]
Val(x) == [t |-> "val", data |-> x]
ValRef(s) == [t |-> "valref", refs |-> s]
DirRef(f) == [t |-> "dirref", sub |-> f]
InDir(f) == [t |-> "dir", sub |-> f]

Leaf == {None} \cup [t : {"val"}, data : Data]
               \cup [t : {"valref"}, refs : Seq(Data)]
SubDir == [Name -> Leaf]
(* A directory as it is stored: its subdirectories are references. *)
Dir == [Name -> Leaf \cup [t : {"dirref"}, sub : SubDir]]
(* A working copy: a walk replaces a reference by the directory itself. *)
WorkDir == [Name -> Leaf \cup [t : {"dirref", "dir"}, sub : SubDir]]

EmptyDir == [n \in Name |-> None]

Raw(x) == [k |-> "raw", data |-> x]
DirBlob(f) == [k |-> "dir", ents |-> f]
Blob == [k : {"raw"}, data : Data] \cup [k : {"dir"}, ents : Dir]

(* An operation on key "name" (dir = ".") or "dir.name".  A "bad" one names  *)
(* another namespace or the root, and is refused when it is applied.        *)
Op == [act : {"put", "append", "unlink", "bad"}, dir : Name \cup {"."},
       name : Name, data : Data]

(* The objects a directory refers to, and those a root gives access to. *)
RawsOf(f) ==
    {Raw(x) : x \in {y \in Data : \E n \in Name :
        f[n].t = "valref" /\ \E i \in DOMAIN f[n].refs : f[n].refs[i] = y}}
SubsOf(f) == {n \in Name : f[n].t = "dirref"}
Children(f) == RawsOf(f) \cup {DirBlob(f[n].sub) : n \in SubsOf(f)}
Reach(f) == {DirBlob(f)} \cup Children(f)
                         \cup UNION {Children(f[n].sub) : n \in SubsOf(f)}

----------------------------------------------------------------------------
(* Applying one operation: kvstxn_link_dirent(), kvstxn_append() *)

(* The last path component: the entry of directory f that o leaves behind,  *)
(* the values appending saves in the cache, and the error.                  *)
Link(f, o) ==
    LET e == f[o.name]
        ok(new, raws) == [dir |-> [f EXCEPT ![o.name] = new],
                          raws |-> raws, err |-> "ok"]
    IN CASE o.act = "put"    -> ok(Val(o.data), {})
         [] o.act = "unlink" -> ok(None, {})
         [] o.act = "append" /\ e.t = "none" -> ok(Val(o.data), {})
         [] o.act = "append" /\ e.t = "valref" ->
                ok(ValRef(Append(e.refs, o.data)), {o.data})
         [] o.act = "append" /\ e.t = "val" ->
                ok(ValRef(<<e.data, o.data>>), {e.data, o.data})
         [] OTHER -> [dir |-> f, raws |-> {}, err |-> "EISDIR"]

(* The same below a subdirectory whose content is sub: walking into a        *)
(* subdirectory leaves it expanded in the working copy.                     *)
LinkIn(f, o, sub) ==
    LET r == Link(sub, o)
    IN [r EXCEPT !.dir = [f EXCEPT ![o.dir] = InDir(r.dir)]]

(* kvstxn_link_dirent(): apply o to the working copy f.  "ok", an error, or   *)
(* "missing" when the walk needs a directory the cache does not hold.       *)
LinkDirent(f, o, valid) ==
    LET stay(res) == [dir |-> f, raws |-> {}, err |-> res]
        e == f[o.dir]
    IN IF o.act = "bad" THEN stay("EINVAL")
       ELSE IF o.dir = "." THEN Link(f, o)
       ELSE CASE e.t = "dir" -> LinkIn(f, o, e.sub)
              [] e.t = "dirref" -> IF DirBlob(e.sub) \in valid
                                   THEN LinkIn(f, o, e.sub)
                                   ELSE stay("missing")
              [] OTHER -> IF o.act = "unlink" THEN stay("ok")
                          ELSE LinkIn(f, o, EmptyDir)

(* kvstxn_unroll(): long values become references to raw objects, expanded  *)
(* subdirectories become references to directory objects.                   *)
UnrollVals(f) ==
    [n \in Name |-> IF f[n].t = "val" /\ f[n].data \in Large
                    THEN ValRef(<<f[n].data>>) ELSE f[n]]
Unroll(f) ==
    [n \in Name |-> IF f[n].t = "dir" THEN DirRef(UnrollVals(f[n].sub))
                    ELSE UnrollVals(f)[n]]
LargeIn(f) == {Raw(x) : x \in {y \in Large : \E n \in Name : f[n] = Val(y)}}
(* The objects kvstxn_process() stores for working copy f. *)
Unrolled(f) ==
    LET subs == {n \in Name : f[n].t = "dir"}
    IN {DirBlob(Unroll(f))} \cup LargeIn(f)
         \cup {DirBlob(UnrollVals(f[n].sub)) : n \in subs}
         \cup UNION {LargeIn(f[n].sub) : n \in subs}
=============================================================================
