----------------------------- MODULE MCClient -----------------------------
(***************************************************************************)
(* Instances of Client for TLC: two clients, and what each may be told.    *)
(***************************************************************************)
EXTENDS Client

CONSTANTS c1, c2, p, q, top, sub, dot

\* Files and directories, one of them hidden, below "top".
Tree == (top :> <<dot, sub, p>>) @@ (sub :> <<q>>) @@ (dot :> <<p>>)
HiddenDirs == {dot}

Does(o, args) == [opt |-> o, args |-> args, dir |-> NONE, n |-> 0]
Walk(d, n) == [opt |-> "w", args |-> <<>>, dir |-> d, n |-> n]
Random(n) == [opt |-> "R", args |-> <<>>, dir |-> NONE, n |-> n]
Line(d, D, opts) == [p |-> TRUE, d |-> d, D |-> D, opts |-> opts]

Told(m1, m2) == (c1 :> m1) @@ (c2 :> m2)

\* Reading and saving beside a write; writing, locking and removing beside a
\* download; walking beside a download in a bad folder, and beside a read; two
\* writers, one of which appends; lists that are too long or too short.
CommandLines ==
    {Told(Line("dir", "none", <<Does("r", <<p, q>>)>>),
          Line("none", "none", <<Does("W", <<p>>)>>)),
     Told(Line("none", "bad", <<Does("W", <<p>>), Does("l", <<p>>), Does("c", <<p>>)>>),
          Line("none", "none", <<Random(0)>>)),
     Told([Line("none", "dir", <<Walk(top, 1)>>) EXCEPT !.p = FALSE],
          Line("bad", "none", <<Random(1)>>)),
     Told(Line("none", "none", <<Walk(top, 0)>>),
          Line("file", "none", <<Does("r", <<q>>)>>)),
     Told(Line("none", "none", <<Does("W", <<p>>), Does("a", <<p, q>>)>>),
          Line("none", "none", <<Does("u", <<p>>), Walk(NONE, 0)>>)),
     Told(Line("none", "none", <<Does("a", <<q>>)>>),
          Line("none", "none", <<Does("W", <<q>>), Does("r", <<q, q, q>>)>>))}
=============================================================================
