------------------------------- MODULE Config -------------------------------
(***************************************************************************)
(* The settings of the driver: the INI loader (src/src/config.cpp with the *)
(* trimming of src/src/util.cpp) and Init of                               *)
(* src/src/BonDriver_LinuxMirakc.cpp, which loads the file again for every *)
(* new instance and fills the g_ variables from its [GLOBAL] section.      *)
(*                                                                         *)
(* A line is a sequence of characters, of which the loader tells a few     *)
(* kinds apart.  One turn of Load's loop is one action.                    *)
(***************************************************************************)
EXTENDS Integers, SequencesExt

CONSTANTS
  Blank,     \* ' ' and '\t'
  CR,        \* '\r'
  Eq,        \* '='
  Open,      \* '['
  Close,     \* ']'
  Remarks,   \* ';' and '#'
  Quotes,    \* '"' and '\''
  Plus, Minus, X,
  Words,     \* every other character that is no digit
  GLOBAL,    \* the section that is read
  Texts,     \* the keys of the settings kept as text
  Numbers,   \* the keys of the settings kept as numbers
  PORT,      \* the one of them that is a uint32_t
  Default,   \* the value of a setting whose key is missing
  Size,      \* the most characters of a text
  IntMax,    \* INT_MAX
  NoSection, \* the loader's sct is nullptr
  Unread,    \* no file
  Files      \* bound: the files a call can find

\* The digits of base 16: those of base 10 are 0..9.
Digits == 0..15
Chars  == {Blank, CR, Eq, Open, Close, Plus, Minus, X}
            \cup Remarks \cup Quotes \cup Words \cup Digits
Text   == Seq(Chars)
Keys   == Texts \cup Numbers

ASSUME Characters ==
  /\ Remarks \cap Quotes = {}
  /\ \A c \in {Blank, CR, Eq, Open, Close} : c \notin Remarks \cup Quotes
  /\ Blank \notin {CR, Eq, Open, Close} /\ Open # Close
  /\ \A c \in {Blank, CR, Plus, Minus, X} : c \notin Digits

ASSUME Settings ==
  /\ GLOBAL \in Text \ {<<>>} /\ Texts \cap Numbers = {}
  /\ Texts \cup Numbers \subseteq Text /\ IntMax \in Nat
  /\ \A k \in Texts   : 
       Default[k] \in Text /\ Size[k] \in Nat /\ Len(Default[k]) <= Size[k]
  /\ \A k \in Numbers : Default[k] \in 0..IntMax

ASSUME Loadable ==
  /\ Files \subseteq Seq(Text) /\ Unread \notin Files /\ NoSection \notin Text

VARIABLES
  ini,       \* the file's lines
  line,      \* the next one
  sct,       \* the name of the section pairs go to, or NoSection
  sections,  \* sections_: for every name its keys and their values
  pc,        \* "start", "load" in the loop, or "ready": Init returned 0
  settings   \* the g_ variables

vars == <<ini, line, sct, sections, pc, settings>>

----------------------------------------------------------------------------
(* Reading one line.                                                       *)

\* strchr: the first place of a character of C, from a given place on.
Find(s, C, from) == Min({i \in from..Len(s) : s[i] \in C} \cup {Len(s) + 1})

\* The part of s up to its last character that is no c.
Without(s, c) == SubSeq(s, 1, Max({i \in 1..Len(s) : s[i] # c} \cup {0}))

Trim(s)  == SubSeq(s, Find(s, Chars \ {Blank}, 1), Len(s))
RTrim(s) == Without(s, Blank)

\* Only the trailing '\r's go; one in front of a trailing blank stays.
Stripped(l) == Trim(Without(l, CR))

IsSkipped(l) == Stripped(l) # <<>> => Stripped(l)[1] \in Remarks
IsHeading(l) == ~IsSkipped(l) /\ Stripped(l)[1] = Open
IsPair(l)    == ~IsSkipped(l) /\ Stripped(l)[1] # Open

\* The search for ']' begins at the second character; without one the name
\* is the rest of the line.  An empty name is not valid.
NameOf(l) ==
  LET p == Trim(Tail(Stripped(l)))
  IN  RTrim(SubSeq(p, 1, Find(p, {Close}, 2) - 1))

\* A line without '=' is a key with an empty value.
KeyOf(l) ==
  LET p == Stripped(l) IN RTrim(SubSeq(p, 1, Find(p, {Eq}, 1) - 1))

\* Up to the second quote, what follows it is ignored; without a second
\* one, the first is part of the value.
Quoted(v) ==
  LET close == Find(v, {v[1]}, 2)
  IN  IF close <= Len(v) THEN SubSeq(v, 2, close - 1) ELSE RTrim(v)

\* A remark begins behind a blank, and not before the second character.
RemarkAt_First(v) ==
  Min({k \in 1..Len(v) : v[k] \in Remarks} \cup {Len(v) + 1})
RemarkAt(v) ==
  Min({k \in 2..Len(v) : v[k] \in Remarks /\ v[k - 1] = Blank}
        \cup {Len(v) + 1})

Unquoted(v) == RTrim(SubSeq(v, 1, RemarkAt(v) - 1))

\* The text behind a line's '='.
Written(l) ==
  LET p == Stripped(l) IN SubSeq(p, Find(p, {Eq}, 1) + 1, Len(p))

ValueOf(l) ==
  LET v == Trim(Written(l))
  IN  IF v # <<>> /\ v[1] \in Quotes THEN Quoted(v) ELSE Unquoted(v)

----------------------------------------------------------------------------
(* Reading a number: Section::Get(key, int), with std::stoi.               *)

Begins(t, from, p) ==
  Len(t) >= from + Len(p) /\ SubSeq(t, from + 1, from + Len(p)) = p

\* Only an explicit 0x makes a number hexadecimal.  stoi also skips a '\r',
\* which the test for 0x does not, so that base 10 reads the 0.
BaseOf_Octal(s, sign, t) ==
  IF Begins(t, sign, <<0, X>>) THEN 16
  ELSE IF Begins(t, sign, <<0>>) THEN 8 ELSE 10
BaseOf(s, sign, t) == IF Begins(t, sign, <<0, X>>) /\ s = t THEN 16 ELSE 10

\* A row of digits is read from the left.
Horner(base, digits) ==
  LET value[i \in 0..Len(digits)] ==
        IF i = 0 THEN 0 ELSE value[i - 1] * base + digits[i]
  IN  value[Len(digits)]

\* The default stands for what is no number and for what is out of range.
Number(v, default) ==
  LET t    == SubSeq(v, Find(v, Chars \ {Blank, CR}, 1), Len(v))
      sign == IF t # <<>> /\ t[1] \in {Plus, Minus} THEN 1 ELSE 0
      base == BaseOf(Trim(v), sign, t)
      from == sign + (IF base = 16 THEN 3 ELSE 1)
      to   == Find(t, Chars \ 0..(base - 1), from) - 1
      n    == Horner(base, SubSeq(t, from, to))
      m    == IF sign = 1 /\ t[1] = Minus THEN 0 - n ELSE n
  IN  IF (base # 16 /\ to < from) \/ m \notin (0 - IntMax - 1)..IntMax
      THEN default ELSE m

\* A g_ variable: a text is cut to its buffer, the port is unsigned.
TextSetting_Whole(k, values) ==
  IF k \in DOMAIN values THEN values[k] ELSE Default[k]
TextSetting(k, values) ==
  LET v == IF k \in DOMAIN values THEN values[k] ELSE Default[k]
  IN  SubSeq(v, 1, Min({Len(v), Size[k]}))

NumberSetting(k, values) ==
  LET n == IF k \in DOMAIN values THEN Number(values[k], Default[k])
           ELSE Default[k]
  IN  IF k = PORT THEN n % (2 * (IntMax + 1)) ELSE n

SettingsOf(values) ==
  [k \in Keys |-> IF k \in Texts THEN TextSetting(k, values)
                  ELSE NumberSetting(k, values)]

Nothing  == [k \in {} |-> <<>>]
Defaults == [k \in Keys |-> Default[k]]

----------------------------------------------------------------------------
(* Config::Load and Init.                                                  *)

\* The static variables before the first call.
Init ==
  /\ ini = Unread /\ line = 1 /\ sct = NoSection /\ sections = Nothing
  /\ pc = "start"
  /\ settings = [k \in Keys |-> IF k \in Texts THEN <<>> ELSE 0]

\* CreateBonDriver calls Init again when there is no instance.  Config and
\* sct are local variables of the call.
Begin(f) ==
  /\ pc \in {"start", "ready"}
  /\ ini' = f /\ line' = 1 /\ sct' = NoSection /\ sections' = Nothing

\* Load returns false: the file is not there, or its name is too long.
Init_NotFound_Keep == Begin(Unread) /\ UNCHANGED settings /\ pc' = "ready"
Init_NotFound == Begin(Unread) /\ settings' = Defaults /\ pc' = "ready"

Load(f) == Begin(f) /\ UNCHANGED settings /\ pc' = "load"

\* getline.
GetLine ==
  /\ pc = "load" /\ line <= Len(ini) /\ line' = line + 1
  /\ UNCHANGED <<ini, pc, settings>>

Load_Skip == GetLine /\ IsSkipped(ini[line]) /\ UNCHANGED <<sct, sections>>

\* A heading without a name, and one whose name was there before: the pairs
\* up to the next heading are not read.
NoSuchSection(n) == n = <<>> \/ n \in DOMAIN sections

Load_Heading_Continued ==
  /\ GetLine /\ IsHeading(ini[line])
  /\ NoSuchSection(NameOf(ini[line]))
  /\ UNCHANGED <<sct, sections>>
Load_Heading_Rejected ==
  /\ GetLine /\ IsHeading(ini[line])
  /\ NoSuchSection(NameOf(ini[line]))
  /\ sct' = NoSection
  /\ UNCHANGED sections

Load_Heading ==
  /\ GetLine /\ IsHeading(ini[line])
  /\ LET n == NameOf(ini[line]) IN
     /\ ~NoSuchSection(n)
     /\ sct' = n
     /\ sections' = [m \in DOMAIN sections \cup {n} |->
                       IF m = n THEN Nothing ELSE sections[m]]

Load_Pair_Ignored ==
  /\ GetLine /\ IsPair(ini[line]) /\ sct = NoSection
  /\ UNCHANGED <<sct, sections>>

\* Section::Set: emplace leaves a key that is there alone.
Emplace(values, k, v) ==
  [x \in DOMAIN values \cup {k} |->
     IF x \in DOMAIN values THEN values[x] ELSE v]

Load_Pair ==
  /\ GetLine /\ IsPair(ini[line]) /\ sct # NoSection
  /\ LET l == ini[line] IN
     sections' = [sections EXCEPT ![sct] = Emplace(@, KeyOf(l), ValueOf(l))]
  /\ UNCHANGED sct

\* The end of the file.
Init_Return(g) ==
  /\ pc = "load" /\ line > Len(ini)
  /\ settings' = g /\ pc' = "ready"
  /\ UNCHANGED <<ini, line, sct, sections>>

Init_NoGlobal == GLOBAL \notin DOMAIN sections /\ Init_Return(Defaults)
Init_Read     ==
  /\ GLOBAL \in DOMAIN sections
  /\ Init_Return(SettingsOf(sections[GLOBAL]))

Next ==
  \/ Init_NotFound
  \/ \E f \in Files : Load(f)
  \/ Load_Skip
  \/ Load_Heading_Rejected
  \/ Load_Heading
  \/ Load_Pair_Ignored
  \/ Load_Pair
  \/ Init_NoGlobal
  \/ Init_Read

Spec == Init /\ [][Next]_vars

----------------------------------------------------------------------------
(* What holds.                                                             *)

\* Line h of file f is the first heading with the name n; a later one is
\* another section, that is not read.
Opens(f, h, n) ==
  /\ IsHeading(f[h]) /\ NameOf(f[h]) = n /\ n # <<>>
  /\ \A g \in 1..(h - 1) : IsHeading(f[g]) => NameOf(f[g]) # n

\* Line i stands under it.
Under(f, i, n) ==
  \E h \in 1..(i - 1) :
    Opens(f, h, n) /\ \A g \in (h + 1)..(i - 1) : ~IsHeading(f[g])

\* The pairs of section n among the first lines.
PairsOf(f, n, last) == {i \in 1..last : IsPair(f[i]) /\ Under(f, i, n)}

\* What they say: for every key its first value.
ValuesOf(f, n, last) ==
  [k \in {KeyOf(f[i]) : i \in PairsOf(f, n, last)} |->
     ValueOf(f[Min({i \in PairsOf(f, n, last) : KeyOf(f[i]) = k})])]

\* Every variable keeps its type: a section's values are texts, sct is one
\* of the sections, and no text outgrows its buffer (strncpy of Init).
TypeOK ==
  /\ ini \in Files \cup {Unread} /\ line \in Nat \ {0}
  /\ pc \in {"start", "load", "ready"}
  /\ pc = "load" => ini \in Files /\ line \in 1..(Len(ini) + 1)
  /\ sct \in DOMAIN sections \cup {NoSection}
  /\ \A n \in DOMAIN sections :
       /\ n \in Text \ {<<>>}
       /\ \A k \in DOMAIN sections[n] : k \in Text /\ sections[n][k] \in Text
  /\ DOMAIN settings = Keys
  /\ \A k \in Texts : settings[k] \in Text /\ Len(settings[k]) <= Size[k]
  /\ \A k \in Numbers :
       settings[k] \in IF k = PORT THEN 0..(2 * IntMax + 1)
                       ELSE (0 - IntMax - 1)..IntMax

\* When Init returns, the settings are those of the file it found: for each
\* key the first value under the first [GLOBAL] heading, and the default for
\* every other key, whatever an earlier call left in the static variables.
SettingsAreTheFiles ==
  pc = "ready" =>
    settings = IF ini = Unread THEN Defaults
               ELSE SettingsOf(ValuesOf(ini, GLOBAL, Len(ini)))

Blanks(s) == \A x \in 1..Len(s) : s[x] = Blank

\* v is what the text r behind the '=' says: the quoted text, the text with
\* a quote that is never closed, or the text without blanks around it and
\* without the remark that follows a blank.
AsWritten(r, v) ==
  \E i \in 1..(Len(r) + 1) : \E j \in (i - 1)..Len(r) :
    LET rest == SubSeq(r, j + 1, Len(r)) IN
    /\ Blanks(SubSeq(r, 1, i - 1))
    /\ \/ /\ i < j /\ r[i] \in Quotes /\ r[j] = r[i]
          /\ \A m \in (i + 1)..(j - 1) : r[m] # r[i]
          /\ v = SubSeq(r, i + 1, j - 1)
       \/ /\ i <= j /\ r[i] \in Quotes
          /\ \A m \in (i + 1)..Len(r) : r[m] # r[i]
          /\ r[j] # Blank /\ Blanks(rest)
          /\ v = SubSeq(r, i, j)
       \/ /\ i <= j /\ r[i] \notin Quotes \cup {Blank} /\ r[j] # Blank
          /\ \A m \in (i + 1)..j : r[m] \in Remarks => r[m - 1] # Blank
          /\ \/ Blanks(rest)
             \/ \E m \in 2..Len(rest) :
                  rest[m] \in Remarks /\ Blanks(SubSeq(rest, 1, m - 1))
          /\ v = SubSeq(r, i, j)
       \/ Blanks(r) /\ v = <<>>

\* Every value that is kept is what one of the key's lines says.
ValuesAsWritten ==
  \A n \in DOMAIN sections : \A k \in DOMAIN sections[n] :
    \E i \in 1..(line - 1) :
      /\ IsPair(ini[i]) /\ KeyOf(ini[i]) = k
      /\ AsWritten(Written(ini[i]), sections[n][k])

\* A setting written with decimal digits has their decimal value, leading
\* zeros or not (config.cpp:46-48), or the default when no int has it.
IsDecimal(v) == v # <<>> /\ \A i \in 1..Len(v) : v[i] \in 0..9
PowerOf10(n) ==
  LET power[i \in 0..n] == IF i = 0 THEN 1 ELSE power[i - 1] * 10
  IN  power[n]
IsValueOf(n, v) ==
  /\ n \in 0..(PowerOf10(Len(v)) - 1)
  /\ \A i \in 1..Len(v) : v[i] = (n \div PowerOf10(Len(v) - i)) % 10

NumbersAsWritten ==
  pc = "ready" /\ ini # Unread =>
    LET values == ValuesOf(ini, GLOBAL, Len(ini)) IN
    \A k \in Numbers \cap DOMAIN values :
      IsDecimal(values[k]) =>
        \/ IsValueOf(settings[k], values[k])
        \/ /\ settings[k] = Default[k]
           /\ \A n \in 0..IntMax : ~IsValueOf(n, values[k])

\* Behind a blank, ';' and '#' begin a remark (config.cpp:175): a value
\* begins with one only if it is quoted or directly behind the '='.
RemarksIgnored ==
  \A n \in DOMAIN sections : \A k \in DOMAIN sections[n] :
    LET v == sections[n][k] IN
    v # <<>> /\ v[1] \in Remarks =>
      \E i \in 1..(line - 1) :
        /\ IsPair(ini[i]) /\ KeyOf(ini[i]) = k
        /\ LET r == Written(ini[i])
           IN  r[1] = v[1] \/ r[Find(r, Chars \ {Blank}, 1)] \in Quotes

=============================================================================
