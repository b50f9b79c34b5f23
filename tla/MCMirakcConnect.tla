-------------------------- MODULE MCMirakcConnect --------------------------
(***************************************************************************)
(* MirakcConnect on a small instance: which byte streams a server sends.   *)
(***************************************************************************)
EXTENDS MirakcConnect, TLC

CONSTANTS i, f, t, e   \* an interim status, a final one, other text, "\r\n"

UpTo(n, S) == UNION {[1..k -> S] : k \in 0..n}

\* Everything short, well-formed or not, cut off or not.
ShortStreams == UpTo(4, {i, f, t, e})

\* No, one or two interim responses, then an answer with a header of one or two
\* lines and a body that may itself hold empty lines.
Answers ==
  {p \o h \o b : p \in {<< >>, <<i, e, e>>, <<i, e, e, i, e, e>>},
                 h \in {<<f, e, e>>, <<f, e, t, e, e>>},
                 b \in UpTo(4, {t, e}) \cup {<<t, e, e, t, t, e, t>>}}

\* A header without an end, of any kind of text.
Endless == {<<f, e, t, e, t, e, t, e, t>>, <<i, e, e, f, e, t, e, t, e, t>>}

MCStreams == ShortStreams \cup Answers \cup Endless

=============================================================================
