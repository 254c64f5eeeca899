----------------------------- MODULE UserSpace -----------------------------
(***************************************************************************)
(* The programs: init, which starts a DHCP client and the shell            *)
(* (userspace/init/init.c), and the shell with its line editor             *)
(* (userspace/ushell/ushell.c), over the wrappers of the C library.        *)
(*                                                                         *)
(* They are written for a kernel with processes, which src/kernel is not   *)
(* yet: there every call below returns -ENOSYS (module Traps).  The calls  *)
(* are modelled as these programs use them: fork copies the process,       *)
(* execve replaces it or returns, waitpid waits for a child that ended.    *)
(***************************************************************************)
EXTENDS Integers, Sequences, SequencesExt, FiniteSets

CONSTANTS ARG_LENGTH, \* rows of argvp
          ARG_MAX,    \* characters in a row, and pointers in execve_argv
          Lines,      \* what may be typed: up to "\n", or up to the end of input
          EXIT, BUILTINS, \* words that name commands of the shell itself
          \* tty: /dev/tty1 can be opened.  dhcpd: /bin/dhcpd can be executed.
          \* forks: fork never fails.
          Machines    \* what a machine can do, and a bound on the lines typed on it

ASSUME UserAssumption ==
    /\ ARG_LENGTH \in Nat \ {0} /\ ARG_MAX \in Nat \ {0, 1}
    /\ \A l \in Lines : l \in Seq(STRING) /\ \A i \in 1 .. Len(l) - 1 : l[i] # "\n"
    /\ \A m \in Machines : m \in [tty : BOOLEAN, dhcpd : BOOLEAN, forks : BOOLEAN, lines : Nat]

VARIABLES setup,  \* this machine
          procs,  \* the processes that have not been waited for, by number
          typed   \* lines read so far

vars == <<setup, procs, typed>>

NUL == "NUL"
Size == ARG_LENGTH * ARG_MAX
Uninitialised == -1  \* what a pointer on the stack may hold
NULL == -2

\* What a process is and where it is in its program; the shell's variables, and
\* the line it got.  Its working directory is the kernel's.
Process(prog, pc, parent) ==
    [prog |-> prog, pc |-> pc, parent |-> parent,
     argvp |-> [i \in 0 .. Size - 1 |-> NUL], argc |-> 0,
     execve_argv |-> [i \in 0 .. ARG_MAX - 1 |-> Uninitialised],
     line |-> <<>>, child |-> 0, detached |-> FALSE]

Init ==
    /\ setup \in Machines
    /\ procs = [p \in {1} |-> Process("init", "open", 0)]
    /\ typed = 0

Is(p, prog, pc) == procs[p].prog = prog /\ procs[p].pc = pc

-----------------------------------------------------------------------------
(* Calls                                                                   *)

Fresh == CHOOSE q \in 1 .. Cardinality(DOMAIN procs) + 1 : q \notin DOMAIN procs

\* fork: parent and child go on as given, the child as a copy.
fork_succeeds(p, parent, child) ==
    LET q == Fresh
    IN  procs' = [i \in DOMAIN procs \cup {q} |->
            IF i = p THEN [parent EXCEPT !.child = q]
            ELSE IF i = q THEN [child EXCEPT !.parent = p]
            ELSE procs[i]]

fork_fails(p, parent) ==
    ~setup.forks /\ procs' = [procs EXCEPT ![p] = [parent EXCEPT !.child = -1]]

Goes(p, pc) == procs' = [procs EXCEPT ![p].pc = pc]

\* execve and exit: what the process had in memory is gone.
Becomes(p, prog, pc) ==
    procs' = [procs EXCEPT ![p] =
                 [Process(prog, pc, @.parent) EXCEPT !.detached = procs[p].detached]]
Ends(p) == Becomes(p, procs[p].prog, "ended")

\* Children of p that it may wait for with the number pid, -1 being any.
Children(p, pid) == {q \in DOMAIN procs : procs[q].parent = p /\ pid \in {-1, q}}

-----------------------------------------------------------------------------
(* init                                                                    *)

\* The check for process 1 does not come again for children.
open_tty(p) ==
    /\ Is(p, "init", "open")
    /\ IF setup.tty THEN Goes(p, "dhcpd") ELSE Ends(p)
    /\ UNCHANGED <<setup, typed>>

Following(pc) == IF pc = "dhcpd" THEN "shell" ELSE "return"

\* start_program, once for each program, up to fork.
start_program(p) ==
    /\ procs[p].prog = "init" /\ procs[p].pc \in {"dhcpd", "shell"}
    /\ LET parent == [procs[p] EXCEPT !.pc = Following(@)]
           child == [procs[p] EXCEPT !.pc = IF @ = "dhcpd" THEN "exec_dhcpd" ELSE "exec_shell"]
       IN  fork_succeeds(p, parent, child) \/ fork_fails(p, parent)
    /\ UNCHANGED <<setup, typed>>

\* The child of a failed execve reports it and returns from start_program.
start_program_child(p) ==
    /\ \/ /\ Is(p, "init", "exec_dhcpd")
          /\ IF setup.dhcpd THEN Becomes(p, "dhcpd", "run") ELSE Goes(p, "shell")
       \/ /\ Is(p, "init", "exec_shell")
          /\ Becomes(p, "ush", "prompt")
    /\ UNCHANGED <<setup, typed>>

init_returns(p) ==
    /\ Is(p, "init", "return")
    /\ Ends(p)
    /\ UNCHANGED <<setup, typed>>

\* Any other program runs and ends.
program_ends(p) ==
    /\ procs[p].pc = "run"
    /\ Ends(p)
    /\ UNCHANGED <<setup, typed>>

-----------------------------------------------------------------------------
(* The shell                                                               *)

Separators == {" ", "\n"}

\* Mutant: a word is not terminated.
Terminated_never(s, at) == s.argvp
Terminated(s, at) == [s.argvp EXCEPT ![at] = NUL]

\* One character of getline; rows follow each other without a gap, and what is
\* stored behind the last one goes wild.
getline_char(s, c) ==
    LET at == s.argc * ARG_MAX + s.argc_ind
    IN  CASE s.wild \/ at >= Size -> [s EXCEPT !.wild = TRUE]
          [] ~s.wild /\ at < Size /\ c \in Separators ->
                [s EXCEPT !.argvp = Terminated(s, at),
                          !.argc = IF s.argc_ind # 0 THEN @ + 1 ELSE @,
                          !.argc_ind = 0]
          [] ~s.wild /\ at < Size /\ c \notin Separators ->
                [s EXCEPT !.argvp[at] = c, !.argc_ind = @ + 1]

\* After n characters: the rows, the words in front of the present one, and the
\* characters of that.
getline(argvp, line) ==
    LET read[n \in 0 .. Len(line)] ==
            IF n = 0 THEN [argvp |-> argvp, argc |-> 0, argc_ind |-> 0, wild |-> FALSE]
            ELSE getline_char(read[n - 1], line[n])
    IN  read[Len(line)]

\* strcmp(argvp[n], w) is 0.
IsWord(argvp, n, w) ==
    /\ n * ARG_MAX + Len(w) < Size
    /\ \A i \in DOMAIN w : argvp[n * ARG_MAX + i - 1] = w[i]
    /\ argvp[n * ARG_MAX + Len(w)] = NUL

IsBuiltin(argvp) == \E w \in BUILTINS : IsWord(argvp, 0, w)

\* A C string in argvp.
String(argvp, from) ==
    LET ends == {i \in from .. Size - 1 : argvp[i] = NUL}
        end == IF ends = {} THEN Size ELSE CHOOSE i \in ends : \A j \in ends : i <= j
    IN  [i \in 1 .. end - from |-> argvp[from + i - 1]]

Word(argvp, n) == String(argvp, n * ARG_MAX)

\* The top of the loop.  What is left of the last command: its words and the
\* pointers to them; the other variables are set before they are read.
Prompt(s) == [s EXCEPT !.pc = "prompt", !.argc = 0, !.line = <<>>, !.child = 0,
                       !.detached = FALSE]

\* The prompt is printed and a line is read.
main_reads(p) ==
    /\ Is(p, "ush", "prompt") /\ typed < setup.lines
    /\ typed' = typed + 1
    /\ \E line \in Lines :
          LET s == getline(procs[p].argvp, line)
              read == [procs[p] EXCEPT !.argvp = s.argvp, !.argc = s.argc, !.line = line]
          IN  procs' = [procs EXCEPT ![p] =
                  IF s.wild THEN [read EXCEPT !.pc = "wild"]
                  ELSE IF s.argc = 0 THEN Prompt(read) ELSE [read EXCEPT !.pc = "command"]]
    /\ UNCHANGED setup

main_exits(p) ==
    /\ Is(p, "ush", "command") /\ IsWord(procs[p].argvp, 0, EXIT)
    /\ Ends(p)
    /\ UNCHANGED <<setup, typed>>

\* cd, pwd and kheap: whatever their call answers, the shell goes on.
main_itself(p) ==
    /\ Is(p, "ush", "command") /\ IsBuiltin(procs[p].argvp)
    /\ procs' = [procs EXCEPT ![p] = Prompt(@)]
    /\ UNCHANGED <<setup, typed>>

\* The pointers for execve; a last word "&" leaves its pointer as it is.
main_arguments(p) ==
    /\ Is(p, "ush", "command") /\ ~IsBuiltin(procs[p].argvp) /\ ~IsWord(procs[p].argvp, 0, EXIT)
    /\ LET s == procs[p]
           argc == s.argc
           detached == IsWord(s.argvp, argc - 1, <<"&">>)
           Set(i) == i < argc /\ ~(detached /\ i = argc - 1)
       IN  procs' = [procs EXCEPT ![p] =
               [s EXCEPT !.pc = IF argc >= ARG_MAX THEN "wild" ELSE "fork",
                         !.detached = detached,
                         !.execve_argv = [i \in DOMAIN s.execve_argv |->
                             IF i = argc THEN NULL ELSE IF Set(i) THEN i ELSE s.execve_argv[i]]]]
    /\ UNCHANGED <<setup, typed>>

\* Mutant: every command is waited for.
AfterFork_waits(s) == [s EXCEPT !.pc = "wait"]
AfterFork(s) == IF s.detached THEN Prompt(s) ELSE [s EXCEPT !.pc = "wait"]

main_forks(p) ==
    /\ Is(p, "ush", "fork")
    /\ \/ fork_succeeds(p, AfterFork(procs[p]), [procs[p] EXCEPT !.pc = "exec"])
       \/ fork_fails(p, AfterFork(procs[p]))
    /\ UNCHANGED <<setup, typed>>

\* Mutant: the child goes on as a shell.
AfterFailedExec_goes_on(p) == Goes(p, "prompt")
AfterFailedExec(p) == Ends(p)

main_executes(p) ==
    /\ Is(p, "ush", "exec")
    /\ Becomes(p, "command", "run") \/ AfterFailedExec(p)
    /\ UNCHANGED <<setup, typed>>

\* waitpid(child): for the number that fork returned, -1 included.
main_waits(p) ==
    /\ Is(p, "ush", "wait")
    /\ LET C == Children(p, procs[p].child)
       IN  \/ C = {} /\ procs' = [procs EXCEPT ![p] = Prompt(@)]
           \/ \E q \in C :
                 /\ procs[q].pc = "ended"
                 /\ procs' = [i \in DOMAIN procs \ {q} |->
                                 IF i = p THEN Prompt(procs[p]) ELSE procs[i]]
    /\ UNCHANGED <<setup, typed>>

-----------------------------------------------------------------------------

\* Steps that a process takes when the scheduler lets it.
Runs(p) ==
    \/ open_tty(p) \/ start_program(p) \/ start_program_child(p) \/ init_returns(p)
    \/ main_exits(p) \/ main_itself(p) \/ main_arguments(p)
    \/ main_forks(p) \/ main_executes(p) \/ main_waits(p)

Next == \E p \in DOMAIN procs : Runs(p) \/ main_reads(p) \/ program_ends(p)

Spec == Init /\ [][Next]_vars

Pids == UNION {1 .. 4 + m.lines : m \in Machines}
Run(p) == p \in DOMAIN procs /\ Runs(p)
Foreground(p) == p \in DOMAIN procs /\ ~procs[p].detached /\ program_ends(p)

\* Every process is scheduled; programs end, but for those started with "&".
FairSpec == Spec /\ \A p \in Pids : WF_vars(Run(p)) /\ WF_vars(Foreground(p))

-----------------------------------------------------------------------------
(* Properties                                                              *)

\* The words of a line, as somebody who types it means them: each run of other
\* characters that no separator touches.
Begins(line) ==
    {b \in DOMAIN line : line[b] \notin Separators /\ (b > 1 => line[b - 1] \in Separators)}
Rank(line, b) == Cardinality({a \in Begins(line) : a <= b})
WordAt(line, b) ==
    LET end == CHOOSE e \in b .. Len(line) :
                  /\ \A i \in b .. e : line[i] \notin Separators
                  /\ e < Len(line) => line[e + 1] \in Separators
    IN  SubSeq(line, b, end)
Words(line) ==
    [k \in 1 .. Cardinality(Begins(line)) |->
        WordAt(line, CHOOSE b \in Begins(line) : Rank(line, b) = k)]

\* A line of characters that has room in the shell's arrays, with a row behind
\* its words for the blanks there, and ends in a line break.
Fits(line) ==
    /\ line # <<>> /\ Last(line) = "\n"
    /\ \A i \in DOMAIN line : line[i] # NUL
    /\ Len(Words(line)) < ARG_MAX /\ Len(Words(line)) < ARG_LENGTH
    /\ \A i \in DOMAIN Words(line) : Len(Words(line)[i]) < ARG_MAX

\* What execve gets, up to the first NULL.
Arguments(p) ==
    LET a == procs[p].execve_argv
        n == CHOOSE i \in DOMAIN a : a[i] = NULL /\ \A j \in 0 .. i - 1 : a[j] # NULL
    IN  [i \in 1 .. n |-> IF a[i - 1] = Uninitialised THEN <<>> ELSE Word(procs[p].argvp, a[i - 1])]

\* A command gets the words that were typed for it, whatever longer or shorter
\* lines have left in the shell's arrays; and the shell stores in their bounds.
\* A word "&" at the end is not one of them: then what follows is left open.
ArgvRight ==
    \A p \in DOMAIN procs :
        procs[p].prog = "ush" /\ Fits(procs[p].line) =>
            /\ procs[p].pc # "wild"
            /\ procs[p].pc = "exec" =>
                  LET words == Words(procs[p].line)
                  IN  IF Last(words) = <<"&">>
                      THEN IsPrefix(Front(words), Arguments(p))
                      ELSE Arguments(p) = words

Shells == {p \in DOMAIN procs :
              procs[p].prog = "ush" /\ procs[p].pc \in {"prompt", "command", "fork", "wait"}}

\* The terminal is read by one process at a time: the shell does not read while
\* a command runs in the foreground, no child of a failed execve stays behind as
\* a second shell, and init starts one.
TerminalOwned ==
    /\ \A p \in Shells : procs[p].pc = "prompt" =>
          \A q \in Children(p, -1) : procs[q].detached \/ procs[q].pc = "ended"
    /\ setup.dhcpd => Cardinality(Shells) <= 1

Prompts(p) == p \in DOMAIN procs /\ Is(p, "ush", "prompt")
Waits(p) == p \in DOMAIN procs /\ Is(p, "ush", "wait")

Starts == setup.tty /\ setup.forks /\ 1 \in DOMAIN procs /\ Is(1, "init", "open")

\* init gets a shell to its prompt, and after every command in the foreground
\* the shell comes back to it, as long as fork succeeds: after a failed one it
\* waits for any child, and a program started with "&" may run for ever.
ShellPrompts ==
    /\ Starts ~> \E p \in Pids : Prompts(p)
    /\ \A p \in Pids : (setup.forks /\ Waits(p)) ~> Prompts(p)
=============================================================================
