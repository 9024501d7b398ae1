------------------------------ MODULE ByteFile ------------------------------
(***************************************************************************)
(* What files promise their readers and writers, with no blocks in sight:  *)
(* a file is a sequence of bytes, an open file a position in one.  A call  *)
(* of write puts a prefix of its bytes at the position, in pieces another  *)
(* writer may come between, and moves the position past what it put; read  *)
(* moves it by the bytes it returns.                                       *)
(*                                                                         *)
(* One thing spoils the picture, and the specification says how far: a     *)
(* piece whose source turns out to be unreadable may leave some of its     *)
(* bytes over the ones that follow the position.  Those positions are      *)
(* `loose' until the next change: they may go back to what they were.      *)
(***************************************************************************)
EXTENDS Integers, Sequences, FiniteSetsExt

CONSTANTS Files, Opens, Procs, MaxPiece

VARIABLES bytes,   \* [Files -> Seq(byte)]
          loose,   \* [Files -> SUBSET Nat], the positions not yet settled
          pos,     \* [Opens -> Nat]
          file     \* [Opens -> Files], fixed

vars == <<bytes, loose, pos, file>>

Init == /\ bytes = [f \in Files |-> <<>>] /\ loose = [f \in Files |-> {}]
        /\ pos = [o \in Opens |-> 0] /\ file \in [Opens -> Files]

\* k bytes of p's go in at the position, and up to the end of the piece some
\* of the bytes that are there already may become p's as well.
Write(p, o, k) ==
  LET f == file[o]
      s == bytes[f]
      at == pos[o]
  IN  /\ pos' = [pos EXCEPT ![o] = at + k]
      /\ at <= Len(s)
      /\ Len(bytes'[f]) = Max({Len(s), at + k})
      /\ \A i \in DOMAIN bytes'[f] :
            CASE i \in at + 1..at + k -> bytes'[f][i] = p
              [] i \in at + k + 1..at + MaxPiece -> bytes'[f][i] \in {s[i], p}
              [] OTHER -> bytes'[f][i] = s[i]
      /\ \A g \in Files \ {f} : bytes'[g] = bytes[g]
      /\ \A g \in Files : loose'[g] \subseteq
           loose[g] \cup (IF g = f THEN at + k + 1..at + MaxPiece ELSE {})
      /\ UNCHANGED file

Read(o) == /\ \A x \in Opens \ {o} : pos'[x] = pos[x]
           /\ pos[o] <= pos'[o] /\ pos'[o] <= Len(bytes[file[o]])
           /\ UNCHANGED <<bytes, loose, file>>

Truncate(f) == /\ bytes' = [bytes EXCEPT ![f] = <<>>]
               /\ loose' = [loose EXCEPT ![f] = {}]
               /\ UNCHANGED <<pos, file>>

Settle == /\ \A f \in Files :
               /\ Len(bytes'[f]) = Len(bytes[f])
               /\ \A i \in DOMAIN bytes[f] \ loose[f] : bytes'[f][i] = bytes[f][i]
               /\ loose'[f] \subseteq loose[f]
          /\ UNCHANGED <<pos, file>>

Next == \/ \E o \in Opens, p \in Procs, k \in 0..MaxPiece : Write(p, o, k)
        \/ \E o \in Opens : Read(o)
        \/ \E f \in Files : Truncate(f)
        \/ Settle

Spec == Init /\ [][Next]_vars
=============================================================================
