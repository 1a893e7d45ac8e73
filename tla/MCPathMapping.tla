---------------------------- MODULE MCPathMapping ----------------------------
(***************************************************************************)
(* Two machines with different layouts; names of which one is the          *)
(* beginning of another, a hidden one, and lists of one and two paths in   *)
(* every form and of three in the shortest one.                            *)
(***************************************************************************)
EXTENDS PathMapping

MCNames == {"go", "go.sum", ".cache", "h", "w", "r"}

MCExtends ==
    {<<n, n>> : n \in MCNames \cup Blank}
        \cup {<<"", n>> : n \in MCNames}
        \cup {<<"go", "go.sum">>, <<".", ".cache">>}

MCSaver == [home |-> <<"h">>, cwd |-> <<"h", "w">>]
MCRestorer == [home |-> <<"r">>, cwd |-> <<"r", "go">>]

\* The shortest form of a path, and what else may be written.
Shortest == {<<"go">>, <<"go.sum">>, <<".cache">>}
Written == Shortest \cup {<<".", "go">>, <<"go", "">>, <<".">>}

MCPaths ==
    [form : {"home", "rel"}, segs : Written]
        \cup [form : {"home"}, segs : {<<"">>, <<"w", "go">>}]
        \cup [form : {"abs"}, segs : {<<"h", "go">>, <<"w", "go">>}]

MCPathLists ==
    UNION {[1 .. n -> MCPaths] : n \in 1 .. 2}
        \cup [1 .. 3 -> [form : {"home", "rel"}, segs : Shortest]]

\* Files and directories below a root, and a file next to them that no path names.
Tree(root) ==
    {root \o t : t \in {<<"go", "h">>, <<"go", "w">>, <<"go.sum">>, <<".cache", "h">>, <<"r">>}}

MCFiles == Tree(<<"h">>) \cup Tree(<<"h", "w">>) \cup {<<"w", "go">>}

MCPresent ==
    {root \o t : root \in {<<"r">>, <<"r", "go">>}, t \in {<<"go", "r">>, <<".cache", "r">>, <<"r">>}}

=============================================================================
