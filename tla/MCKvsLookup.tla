---------------------------- MODULE MCKvsLookup ----------------------------
(* Small instances of KvsLookup: two namespaces, p and q, of two versions    *)
(* each, with every kind of directory entry and of link.                     *)
EXTENDS KvsLookup

Val(v) == [t |-> "val", v |-> v]
ValRef(refs) == [t |-> "valref", refs |-> refs]
Link(path) == [t |-> "symlink", ns |-> "", path |-> path]
LinkTo(n, path) == [t |-> "symlink", ns |-> n, path |-> path]
Dir(e) == [t |-> "dir", e |-> e]
Raw(v) == [t |-> "raw", v |-> v]

(* l leads to d and k to l; t leads to the root and o to t; c leads to       *)
(* itself; x leads into q.                                                   *)
MCObject ==
    [p1 |-> Dir([a |-> Val(<<"1">>), d |-> DirRef("d1"), l |-> Link(<<"d">>),
                 k |-> Link(<<"l">>), t |-> Link(<<>>), o |-> Link(<<"t">>),
                 c |-> Link(<<"c">>), x |-> LinkTo("q", <<"d">>), v |-> ValRef(<<"b1", "b2">>)]),
     p2 |-> Dir([a |-> Val(<<"2">>), d |-> DirRef("d2")]),
     d1 |-> Dir([a |-> ValRef(<<"b1">>), l |-> Link(<<"d", "a">>)]),
     d2 |-> Dir([a |-> ValRef(<<"b2">>)]),
     q1 |-> Dir([d |-> DirRef("d1")]),
     q2 |-> Dir([d |-> DirRef("d2")]),
     b1 |-> Raw("1"), b2 |-> Raw("2")]
MCRoots == [p |-> <<"p1", "p2">>, q |-> <<"q1", "q2">>]

Ask(paths, flags, roots) ==
    [ns : {"p"}, path : paths, flags : flags, root : roots]
Names == {"a", "d", "l", "t", "x", "v"}
Paths == {<<>>} \cup {<<n>> : n \in Names} \cup {<<n, m>> : n \in Names, m \in {"a", "l"}}
AllFlags == {{}, {"READDIR"}, {"READLINK"}, {"TREEOBJ"}}
Chains == {<<"k">>, <<"k", "a">>, <<"k", "l">>, <<"c">>, <<"c", "a">>}
MCRequests == Ask(Paths, AllFlags, {""}) \cup Ask(Chains, {{}, {"READDIR"}}, {""})
                \cup Ask({<<>>, <<"x", "a">>}, {{}, {"READDIR"}}, {"p1", "b1"})
ChainRequests == Ask(Chains, {{"READLINK"}, {"TREEOBJ"}}, {""})
RootRequests == Ask({<<"o", "a">>}, {{}}, {""})
LinkRequests == Ask({<<"x">>, <<"x", "a">>}, {{}}, {""})
=============================================================================
