----------------------------- MODULE PathNames -----------------------------
(***************************************************************************)
(* How names are cut out of paths, stored in directory entries and         *)
(* compared (skipelem, dirlink's strncpy and namecmp of kernel/fs.c, and   *)
(* the functions of kernel/string.c they call).  A string is a function    *)
(* from positions to characters; NUL ends it, except in a name of DIRSIZ   *)
(* characters or more, which has no end.                                   *)
(***************************************************************************)
EXTENDS Integers, Sequences, SequencesExt

CONSTANTS DIRSIZ, Chars, MaxPath
VARIABLES path, entered,   \* the path looked up, and the one the entry was made with
          junk             \* what the buffer `name' holds before

NUL == "nul"
Slash == "/"
Buffers == [0..DIRSIZ - 1 -> {NUL} \cup Chars]
Paths == UNION {[1..n -> Chars \cup {Slash}] : n \in 0..MaxPath}

pathVars == <<path, entered, junk>>

PathsInit == path \in Paths /\ entered \in Paths /\ junk \in Buffers

at(s, i) == IF i \in DOMAIN s THEN s[i] ELSE NUL

\* *dst for dst[0..n-1] after a memmove of s[i..i+n-1] into it
memmove(buf, s, i, n) == [k \in DOMAIN buf |-> IF k < n THEN at(s, i + k) ELSE buf[k]]

\* The place of the first character of s from i on that is not, or is, a slash.
RECURSIVE Skip(_, _), Word(_, _)
Skip(s, i) == IF at(s, i) = Slash THEN Skip(s, i + 1) ELSE i
Word(s, i) == IF at(s, i) \in {Slash, NUL} THEN i ELSE Word(s, i + 1)

\* (mutant: the last character that fits is given up for a NUL)
skipelem_nul(s, from, name) ==
  LET i == Skip(s, from)
      j == Word(s, i)
      len == IF j - i >= DIRSIZ THEN DIRSIZ - 1 ELSE j - i
  IN  IF at(s, i) = NUL THEN [next |-> 0, name |-> name]
      ELSE [next |-> Skip(s, j), name |-> [memmove(name, s, i, len) EXCEPT ![len] = NUL]]

skipelem(s, from, name) ==
  LET i == Skip(s, from)
      j == Word(s, i)
      len == j - i
  IN  IF at(s, i) = NUL THEN [next |-> 0, name |-> name]
      ELSE [next |-> Skip(s, j),
            name |-> IF len >= DIRSIZ THEN memmove(name, s, i, DIRSIZ)
                     ELSE [memmove(name, s, i, len) EXCEPT ![len] = NUL]]

\* strncpy(de.name, name, DIRSIZ)
strncpy(t) ==
  [k \in 0..DIRSIZ - 1 |-> IF \E i \in 0..k : t[i] = NUL THEN NUL ELSE t[k]]

\* strncmp(p, q, DIRSIZ) = 0
RECURSIVE strncmp(_, _, _)
strncmp(p, q, i) == IF i < DIRSIZ /\ p[i] # NUL /\ p[i] = q[i] THEN strncmp(p, q, i + 1)
                    ELSE i = DIRSIZ \/ p[i] = q[i]

namecmp(p, q) == strncmp(p, q, 0)

\* The names namex goes through, with what is left in the buffer in between.
RECURSIVE Elements(_, _, _)
Elements(s, from, name) ==
  LET e == skipelem(s, from, name)
  IN  IF e.next = 0 THEN <<>> ELSE <<e.name>> \o Elements(s, e.next, e.name)

-----------------------------------------------------------------------------
Starts(s) == {i \in DOMAIN s : s[i] # Slash /\ (i = 1 \/ s[i - 1] = Slash)}
Cut(s, i) == LET last == CHOOSE j \in i..Len(s) :
                           /\ \A k \in i..j : s[k] # Slash
                           /\ j = Len(s) \/ s[j + 1] = Slash
             IN  SubSeq(s, i, IF last < i + DIRSIZ THEN last ELSE i + DIRSIZ - 1)
Split(s) == LET is == SetToSortSeq(Starts(s), <)
            IN  [k \in DOMAIN is |-> Cut(s, is[k])]

\* A path is looked up as the names between its slashes, each cut to DIRSIZ
\* characters, whatever an earlier name left in the buffer; and a name finds
\* an entry exactly when the two agree up to DIRSIZ (namex, skipelem, dirlink,
\* namecmp).
NamesFound ==
  LET es == Elements(path, 1, junk)
      fs == Elements(entered, 1, junk)
  IN  /\ Len(es) = Len(Split(path))
      /\ \A i \in DOMAIN es, j \in DOMAIN fs :
           namecmp(es[i], strncpy(fs[j])) <=> Split(path)[i] = Split(entered)[j]
=============================================================================
