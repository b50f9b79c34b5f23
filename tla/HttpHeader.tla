----------------------------- MODULE HttpHeader -----------------------------
(***************************************************************************)
(* What a response header is to recvHeader (src/src/http_proc.hpp): the    *)
(* bytes up to and including the first empty line, "\r\n\r\n".  A stream   *)
(* of bytes is a sequence of tokens: the text of a status line, a line     *)
(* end, or other text.  An empty line is thus two line ends in a row, and  *)
(* it can be cut in two by recv.  A body may hold any tokens at all.       *)
(***************************************************************************)
EXTENDS Integers, Sequences

CONSTANTS
  Interims,  \* texts of status lines with a code from 100 to 199
  Finals,    \* texts of the other status lines
  Eol,       \* "\r\n"
  Texts      \* everything else

ASSUME TokensDiffer ==
  /\ Interims \cap Finals = {}
  /\ Eol \notin Interims \cup Finals \cup Texts
  /\ Texts \cap (Interims \cup Finals) = {}

Tokens == Interims \cup Finals \cup Texts \cup {Eol}

\* An empty line ends at position q of str.
EmptyLine(str, q) == str[q - 1] = Eol /\ str[q] = Eol

\* The header that starts after position p of str ends at position q.
HeaderEnd(str, p, q) ==
  /\ q \in (p + 2)..Len(str) /\ EmptyLine(str, q)
  /\ \A r \in (p + 2)..(q - 1) : ~EmptyLine(str, r)

=============================================================================
