------------------------------ MODULE UserCopy ------------------------------
(***************************************************************************)
(* Copies between the kernel and a process's memory (copyout, copyin,      *)
(* copyinstr and walkaddr of kernel/vm.c), which go page by page and stop  *)
(* at the first page the process may not use.                              *)
(***************************************************************************)
EXTENDS Integers, FiniteSets

CONSTANTS PGSIZE, CopyPages
VARIABLES access,      \* [page numbers -> "none", "kernel", "ro" or "rw"]
          nuls,        \* the addresses that hold a NUL
          va, len      \* where the copy begins, and its length or bound

Pages_ == 0..CopyPages - 1
MAXVA == CopyPages * PGSIZE
copyVars == <<access, nuls, va, len>>

CopyInit == /\ access \in [Pages_ -> {"none", "kernel", "ro", "rw"}]
            /\ nuls \in {S \in SUBSET (0..MAXVA - 1) : Cardinality(S) <= 1}
            /\ va \in 0..MAXVA /\ len \in 0..2 * PGSIZE + 1

PGROUNDDOWN(a) == a - (a % PGSIZE)
\* The addresses walkaddr() finds a page for, and those copyout() may write.
walkaddr == {a \in 0..MAXVA - 1 : access[a \div PGSIZE] \in {"ro", "rw"}}
Writable == {a \in 0..MAXVA - 1 : access[a \div PGSIZE] = "rw"}

\* (mutant: every turn copies a whole page)
Span_page(a, left) == IF PGSIZE > left THEN left ELSE PGSIZE

Span(a, left) == LET n == PGSIZE - (a - PGROUNDDOWN(a)) IN IF n > left THEN left ELSE n

\* The loop of copyin and of copyout: the result, and the addresses copied.
RECURSIVE Copy(_, _, _, _)
Copy(usable, a, left, done) ==
  CASE left = 0 -> [r |-> 0, done |-> done]
    [] PGROUNDDOWN(a) \notin usable -> [r |-> -1, done |-> done]
    [] OTHER -> LET n == Span(a, left)
                IN  Copy(usable, PGROUNDDOWN(a) + PGSIZE, left - n, done \cup a..a + n - 1)

copyin(a, n) == Copy(walkaddr, a, n, {})
copyout(a, n) == Copy(Writable, a, n, {})

\* copyinstr: the inner loop stops at the first NUL of the page.
RECURSIVE CopyStr(_, _, _)
CopyStr(a, max, done) ==
  LET n == Span(a, max)
      found == {k \in a..a + n - 1 : k \in nuls}
      first == CHOOSE k \in found : \A j \in found : k <= j
  IN  CASE max = 0 \/ PGROUNDDOWN(a) \notin walkaddr -> [r |-> -1, done |-> done]
        [] max > 0 /\ PGROUNDDOWN(a) \in walkaddr /\ found # {} ->
             [r |-> 0, done |-> done \cup a..first]
        [] OTHER -> CopyStr(PGROUNDDOWN(a) + PGSIZE, max - n, done \cup a..a + n - 1)

copyinstr(a, max) == CopyStr(a, max, {})

-----------------------------------------------------------------------------
Upto(usable, n) == {a \in va..va + n - 1 : va..a \subseteq usable}
Exact(result, usable) ==
  /\ result.done = Upto(usable, len)
  /\ result.r = 0 <=> va..va + len - 1 \subseteq usable

\* A copy succeeds exactly when the process may use every byte of its range,
\* and when it does not it has copied the bytes before the first such page and
\* no others; a string is copied to its NUL, if that comes within the bound
\* and before such a page (copyin, copyout, copyinstr, walkaddr).
CopiesExactly ==
  /\ Exact(copyin(va, len), walkaddr)
  /\ Exact(copyout(va, len), Writable)
  /\ LET s == copyinstr(va, len)
         ends == {a \in Upto(walkaddr, len) : a \in nuls}
     IN  /\ s.r = 0 <=> ends # {}
         /\ s.done = {a \in Upto(walkaddr, len) : \A e \in ends : a <= e}
=============================================================================
