------------------------------- MODULE RunCmd -------------------------------
(***************************************************************************)
(* How the shell runs a parsed command (user/sh.c, runcmd and main): the   *)
(* processes it forks, the pipes between them and the ends of the pipes    *)
(* each of them still has open.  Programs read their standard input to its *)
(* end, which comes when nobody has the other end of the pipe open, and    *)
(* exit.  The processes' scheduling is arbitrary, and so is which forks    *)
(* and pipes fail.                                                         *)
(***************************************************************************)
EXTENDS Integers, Sequences, FiniteSets

CONSTANTS MaxProcs,   \* bound: processes forked for one command
          Commands    \* the commands typed, as trees

VARIABLES tree,    \* [Jobs -> the command a process runs, or what it runs of it]
          at,      \* [Jobs -> where in runcmd]
          std,     \* [Jobs -> [0..1 -> console or the end of a pipe]]
          other,   \* [Jobs -> the pipe ends open besides]
          sire,    \* [Jobs -> the process that forked it]
          born,    \* processes forked so far
          pipes    \* pipes made so far

runVars == <<tree, at, std, other, sire, born, pipes>>

Jobs == 0..MaxProcs
Shell == 0
Console == [pipe |-> 0, end |-> "c"]
End(k, e) == [pipe |-> k, end |-> e]
None == <<"NONE">>

RunInit == /\ tree \in {[j \in Jobs |-> IF j = Shell THEN c ELSE None] : c \in Commands}
           /\ at = [j \in Jobs |-> IF j = Shell THEN "main" ELSE "unborn"]
           /\ std = [j \in Jobs |-> [fd \in 0..1 |-> Console]]
           /\ other = [j \in Jobs |-> {}] /\ sire = [j \in Jobs |-> Shell]
           /\ born = 0 /\ pipes = 0

Kids(p) == {j \in Jobs \ {Shell} : sire[j] = p /\ at[j] # "unborn" /\ at[j] # "reaped"}

Open(p) == IF at[p] \in {"unborn", "zombie", "reaped"} THEN {}
           ELSE other[p] \cup {std[p][0], std[p][1]}

\* fork1, and the child's first steps up to runcmd(cmd): its copies of the
\* descriptors, with fd replaced by the end of a pipe.
Fork(p, cmd, in, out, keep, next) ==
  /\ born < MaxProcs
  /\ born' = born + 1
  /\ LET c == born + 1
     IN  /\ tree' = [tree EXCEPT ![c] = cmd]
         /\ at' = [at EXCEPT ![c] = "runcmd", ![p] = next]
         /\ std' = [std EXCEPT ![c] = [fd \in 0..1 |-> IF fd = 0 THEN in ELSE out]]
         /\ other' = [other EXCEPT ![c] = keep]
         /\ sire' = [sire EXCEPT ![c] = p]

Become(p, cmd, label) == /\ tree' = [tree EXCEPT ![p] = cmd]
                         /\ at' = [at EXCEPT ![p] = label]

\* main: fork, run the command in the child, wait.
main == /\ at[Shell] = "main"
        /\ Fork(Shell, tree[Shell], Console, Console, {}, "wait1")
        /\ UNCHANGED pipes

runcmd(p) ==
  /\ at[p] = "runcmd" /\ p # Shell
  /\ CASE tree[p][1] = "EXEC" ->   \* exec, or its failure
            /\ \E next \in {"program", "exit"} : at' = [at EXCEPT ![p] = next]
            /\ UNCHANGED <<tree, std, other, sire, born, pipes>>
       [] tree[p][1] = "REDIR" ->  \* close(fd); open(file)
            /\ std' = [std EXCEPT ![p][tree[p][2]] = Console]
            /\ Become(p, tree[p][3], "runcmd") /\ UNCHANGED <<other, sire, born, pipes>>
       [] tree[p][1] = "LIST" -> /\ Fork(p, tree[p][2], std[p][0], std[p][1], other[p], "list")
                                 /\ UNCHANGED pipes
       [] tree[p][1] = "BACK" -> /\ Fork(p, tree[p][2], std[p][0], std[p][1], other[p], "exit")
                                 /\ UNCHANGED pipes
       [] tree[p][1] = "PIPE" -> /\ pipes' = pipes + 1
                                 /\ other' = [other EXCEPT ![p] =
                                      @ \cup {End(pipes + 1, "r"), End(pipes + 1, "w")}]
                                 /\ at' = [at EXCEPT ![p] = "left"]
                                 /\ UNCHANGED <<tree, std, sire, born>>

\* the pipe this process made last
Mine(p) == LET ks == {e.pipe : e \in other[p]}
           IN  CHOOSE k \in ks : \A x \in ks : x <= k
Ends(k) == {End(k, "r"), End(k, "w")}

left(p) == /\ at[p] = "left"
           /\ LET k == Mine(p)
              IN  Fork(p, tree[p][2], std[p][0], End(k, "w"), other[p] \ Ends(k), "right")
           /\ UNCHANGED pipes

\* (mutant: the child keeps the end it does not use)
RightKeeps_both(p, k) == other[p] \ {End(k, "r")}

\* close(p[0]); close(p[1])
RightKeeps(p, k) == other[p] \ Ends(k)

right(p) == /\ at[p] = "right"
            /\ LET k == Mine(p)
               IN  Fork(p, tree[p][3], End(k, "r"), std[p][1], RightKeeps(p, k), "close")
            /\ UNCHANGED pipes

closes(p) == /\ at[p] = "close" /\ other' = [other EXCEPT ![p] = @ \ Ends(Mine(p))]
             /\ at' = [at EXCEPT ![p] = "wait2"]
             /\ UNCHANGED <<tree, std, sire, born, pipes>>

\* exec'd program: end of file, then exit.  Its children, if any, go to init.
Eof(p) == \/ std[p][0].end # "r"
          \/ \A q \in Jobs : End(std[p][0].pipe, "w") \notin Open(q)

Exits(p) == /\ at' = [at EXCEPT ![p] = "zombie"]
            /\ sire' = [j \in Jobs |-> IF sire[j] = p /\ p # Shell THEN -1 ELSE sire[j]]
            /\ UNCHANGED <<tree, std, other, born, pipes>>

exit(p) == /\ \/ at[p] = "program" /\ Eof(p)
              \/ at[p] = "exit"
           /\ Exits(p)

\* fork1, pipe or open fails: exit(1).
fails(p) == /\ \/ at[p] \in {"main", "left", "right"}
               \/ at[p] = "runcmd" /\ tree[p][1] # "EXEC"
            /\ Exits(p)

\* wait(0): one child is gone.  The last wait is followed by exit, by the rest
\* of the list, or by the next prompt.
After(l) == CASE l = "wait2" -> "wait" [] l = "wait" -> "exit"
              [] l = "list" -> "runcmd" [] l = "wait1" -> "done"
wait(p) ==
  /\ at[p] \in {"wait2", "wait", "list", "wait1"}
  /\ \/ \E k \in Kids(p) :
          /\ at[k] = "zombie"
          /\ at' = [at EXCEPT ![k] = "reaped", ![p] = After(at[p])]
     \/ Kids(p) = {} /\ at' = [at EXCEPT ![p] = After(at[p])]
  /\ tree' = IF at[p] = "list" THEN [tree EXCEPT ![p] = @[3]] ELSE tree
  /\ UNCHANGED <<std, other, sire, born, pipes>>

RunNext == \/ main
           \/ \E p \in Jobs : \/ runcmd(p) \/ left(p) \/ right(p) \/ closes(p)
                              \/ exit(p) \/ fails(p) \/ wait(p)
           \/ at[Shell] \in {"done", "zombie"} /\ UNCHANGED runVars

-----------------------------------------------------------------------------
Reading(p) == at[p] = "program" /\ std[p][0].end = "r"
Waiting(p) == at[p] \in {"wait2", "wait", "list", "wait1"}

\* Processes none of which can go on before another of them does: a reader
\* waits for everybody with the other end, a parent for one of its children.
Stuck(S) == \A p \in S :
  \/ Reading(p) /\ \E q \in S : End(std[p][0].pipe, "w") \in Open(q)
  \/ Waiting(p) /\ Kids(p) # {} /\ Kids(p) \subseteq S

\* No command hangs: whatever is in the pipes, lists, groups and background
\* jobs of a line, no set of its processes wait for each other.  Every end of
\* every pipe is closed in the processes that do not use it (runcmd).
PipelinesEnd ==
  \A S \in SUBSET {p \in Jobs : Reading(p) \/ Waiting(p)} : S # {} => ~Stuck(S)
=============================================================================
