------------------------------- MODULE FatName ------------------------------
(***************************************************************************)
(* Short file names of FatFs, code page 932 (ff.c): create_name turns one  *)
(* segment of a path into the padded name of a directory entry, byte by    *)
(* byte; get_fileinfo turns an entry's name back into what a listing       *)
(* shows.  A path is what the user types, one byte at a time; names are    *)
(* BodyLen and ExtLen bytes instead of 8 and 3.                            *)
(***************************************************************************)
EXTENDS Naturals, Sequences, SequencesExt

CONSTANTS BodyLen, ExtLen,  \* bytes of the name and of the extension
          PathBytes         \* the bytes that are typed

ASSUME NameLengths == BodyLen \in Nat \ {0, 1} /\ ExtLen \in Nat \ {0}
ASSUME PathBytesTyped == PathBytes \subseteq 0 .. 255

VARIABLES typed,   \* the bytes of the segment so far
          nm       \* create_name at work, see NameBegin

nameVars == <<typed, nm>>

\* _DF1S to _DS2E: the bytes that begin a double-byte character, and the bytes
\* that end one.
CP932 == [first |-> (129 .. 159) \cup (224 .. 252), second |-> (64 .. 126) \cup (128 .. 252)]

IsUpper(c) == c \in 65 .. 90
IsLower(c) == c \in 97 .. 122
IsDBCS1(c) == c \in CP932.first
IsDBCS2(c) == c \in CP932.second
IsSeparator(c) == c \in {47, 92}

\* Characters a short name must not hold, but for the separators and blanks.
chk_chr(c) == c \in {34, 42, 43, 44, 58, 59, 60, 61, 62, 63, 91, 93, 124, 127}

BLANK == 32
PERIOD == 46
DDE  == 229     \* mark of a deleted entry
NDDE == 5       \* stands for a first byte that is DDE

mem_set(c, n) == [i \in 1 .. n |-> c]
Width == BodyLen + ExtLen

\* i bytes are stored and ni may be; cases are those of the letters seen in the
\* part at hand, body those of the name once the extension has begun; lead is the
\* first byte of a double-byte character, 0 between characters.
NameBegin == [sfn |-> mem_set(BLANK, Width), i |-> 0, ni |-> BodyLen, cases |-> {}, body |-> {},
              lead |-> 0, st |-> "begin", flags |-> {}]

Invalid(n) == [n EXCEPT !.st = "INVALID_NAME"]
Put(n, c) == [n EXCEPT !.sfn[n.i + 1] = c, !.i = @ + 1]

\* "." and "..": a third byte ends the segment or the name is refused.
DotByte(n, c) ==
    CASE c = PERIOD /\ n.i < 2 -> Put(n, c)
      [] c # PERIOD /\ (IsSeparator(c) \/ c <= BLANK) ->
           [n EXCEPT !.st = "OK", !.flags = IF c <= BLANK THEN {"LAST", "DOT"} ELSE {"DOT"}]
      [] OTHER -> Invalid(n)

Escaped(s) == IF s[1] = DDE THEN [s EXCEPT ![1] = NDDE] ELSE s

\* The end of the segment.
NameEnd(n, c) ==
    LET body == IF n.ni = BodyLen THEN n.cases ELSE n.body
        ext  == IF n.ni = BodyLen THEN {} ELSE n.cases
    IN  IF n.i = 0 THEN Invalid(n)
        ELSE [n EXCEPT !.st = "OK", !.sfn = Escaped(@),
                       !.flags = (IF c <= BLANK THEN {"LAST"} ELSE {})
                                 \cup (IF ext = {"lower"} THEN {"EXT"} ELSE {})
                                 \cup (IF body = {"lower"} THEN {"BODY"} ELSE {})]

\* Mutant: letters are made upper case inside double-byte characters too.
Trail_upper(n, d) == Put([n EXCEPT !.lead = 0], IF IsLower(d) THEN d - 32 ELSE d)

\* The second byte of a double-byte character, as it is.
Trail(n, d) == Put([n EXCEPT !.lead = 0], d)

\* A byte that is stored: the first of two, or a character of its own.
Stored(n, c) ==
    LET m == IF c >= 128 THEN [n EXCEPT !.cases = {"lower", "upper"}] ELSE n
    IN  CASE IsDBCS1(c) -> IF m.i >= m.ni - 1 THEN Invalid(m) ELSE Put([m EXCEPT !.lead = c], c)
          [] chk_chr(c) -> Invalid(m)
          [] IsUpper(c) -> Put([m EXCEPT !.cases = @ \cup {"upper"}], c)
          [] IsLower(c) -> Put([m EXCEPT !.cases = @ \cup {"lower"}], c - 32)
          [] OTHER -> Put(m, c)

\* One byte of the loop.
NameByte(n, c) ==
    CASE n.lead # 0 -> IF IsDBCS2(c) THEN Trail(n, c) ELSE Invalid(n)
      [] n.lead = 0 /\ (c <= BLANK \/ IsSeparator(c)) -> NameEnd(n, c)
      [] n.lead = 0 /\ c = PERIOD ->
           IF n.ni # BodyLen THEN Invalid(n)
           ELSE [n EXCEPT !.i = BodyLen, !.ni = Width, !.body = n.cases, !.cases = {}]
      [] OTHER -> IF n.i >= n.ni THEN Invalid(n) ELSE Stored(n, c)

\* Separators in front of the segment are skipped; a period makes it a dot entry.
create_name(n, c) ==
    CASE n.st = "begin" /\ IsSeparator(c) -> n
      [] n.st = "begin" /\ c = PERIOD -> DotByte([n EXCEPT !.st = "dot"], c)
      [] n.st = "begin" /\ ~IsSeparator(c) /\ c # PERIOD -> NameByte([n EXCEPT !.st = "name"], c)
      [] n.st = "dot" -> DotByte(n, c)
      [] n.st = "name" -> NameByte(n, c)

\* The bytes of one part of an entry's name up to its first blank.
Part(s) == LET i == SelectInSeq(s, LAMBDA c : c = BLANK) IN IF i = 0 THEN s ELSE SubSeq(s, 1, i - 1)

\* What a listing shows.
get_fileinfo(sfn) ==
    LET body == Part(SubSeq(sfn, 1, BodyLen))  ext == Part(SubSeq(sfn, BodyLen + 1, Width))
    IN  [i \in 1 .. Len(body) |-> IF body[i] = NDDE THEN DDE ELSE body[i]]
          \o (IF ext = <<>> THEN <<>> ELSE <<PERIOD>> \o ext)

mem_cmp(a, b) == a = b

NameInit == typed = <<>> /\ nm = NameBegin

TypeByte(c) == /\ nm.st \in {"begin", "dot", "name"}
               /\ nm' = create_name(nm, c)
               /\ typed' = IF nm'.st = "OK" \/ nm'.st = "begin" THEN typed ELSE Append(typed, c)

NameNext == \E c \in PathBytes : TypeByte(c)

-----------------------------------------------------------------------------
\* Position p holds the first byte of a double-byte character.
LeadAt(s) == LET L[p \in 0 .. Len(s)] == IF p = 0 THEN FALSE ELSE IsDBCS1(s[p]) /\ ~L[p - 1]
             IN  L

\* What was typed, letters in upper case except inside double-byte characters,
\* without a period at the end.
Meant(s) ==
    LET up == [p \in 1 .. Len(s) |-> IF IsLower(s[p]) /\ ~LeadAt(s)[p - 1] THEN s[p] - 32 ELSE s[p]]
    IN  IF up[Len(up)] = PERIOD THEN Front(up) ELSE up

Named == nm.st = "OK" /\ "DOT" \notin nm.flags

\* A name that is accepted is shown in a listing as it was typed, in upper case:
\* no byte of it is lost, moved between name and extension, or folded inside a
\* double-byte character (create_name, get_fileinfo).
NameComesBack == Named => get_fileinfo(nm.sfn) = Meant(typed)

\* The name a listing shows opens the entry it was read from: typed again it
\* gives the same bytes.  What is stored is never taken for a free or deleted
\* entry (dir_find, dir_read and dir_register look at the first byte).
ListedNameOpens ==
    Named => /\ nm.sfn[1] \notin {0, BLANK, DDE}
             /\ LET again == FoldLeft(create_name, NameBegin, Append(get_fileinfo(nm.sfn), 0))
                IN  again.st = "OK" /\ mem_cmp(again.sfn, nm.sfn)
=============================================================================
