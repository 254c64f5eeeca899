------------------------- MODULE UserSpace_proofs -------------------------
(***************************************************************************)
(* Proofs about the programs, for every size of the shell's arrays,        *)
(* whatever is typed, and on every machine: the terminal has one reader,   *)
(* and commands get the words that were typed for them.                    *)
(***************************************************************************)
EXTENDS UserSpace, FiniteSetTheorems, NaturalsInduction, TLAPS

-----------------------------------------------------------------------------
(* The invariant, of a table T of processes                                *)

Fields == {"prog", "pc", "parent", "argvp", "argc", "execve_argv", "line", "child", "detached"}

IsProcess(s) ==
    /\ DOMAIN s = Fields
    /\ s.parent \in Nat /\ s.child \in Int /\ s.detached \in BOOLEAN

Table(T) ==
    /\ IsFiniteSet(DOMAIN T) /\ DOMAIN T \subseteq Nat \ {0} /\ 1 \in DOMAIN T
    /\ \A p \in DOMAIN T : IsProcess(T[p])

Childless(T, p) == \A q \in DOMAIN T : T[q].parent # p
UnderShell(T, q) == T[q].parent \in DOMAIN T /\ T[T[q].parent].prog = "ush"
Forked(s) == s.prog = "command" \/ (s.prog = "ush" /\ s.pc \in {"exec", "ended"})
Started(s) == s.prog = "init" /\ s.pc \in {"exec_dhcpd", "exec_shell"}

\* Children of a shell execute a command and fork nobody; so does a child of
\* init, up to its execve.
Kin(T) == \A q \in DOMAIN T :
    /\ T[q].parent \in DOMAIN T \cup {0}
    /\ UnderShell(T, q) => Forked(T[q]) /\ Childless(T, q)
    /\ Started(T[q]) => Childless(T, q)
    /\ T[q].prog = "ush" /\ T[q].pc = "exec" => UnderShell(T, q)
    /\ T[q].prog \notin {"init", "ush"} => Childless(T, q)

Done(s) == s.detached \/ s.pc = "ended"

\* Commands in the foreground are the one that is waited for.
Awaited(T) == \A p, q \in DOMAIN T :
    T[q].parent = p /\ T[p].prog = "ush" =>
        /\ T[p].pc \in {"prompt", "command", "fork"} => Done(T[q])
        /\ T[p].pc = "wait" => Done(T[q]) \/ q = T[p].child

\* A shell, or a process that is going to be one.
Shelly(s) ==
    \/ s.prog = "init" /\ s.pc = "exec_shell"
    \/ s.prog = "ush" /\ s.pc \in {"prompt", "command", "fork", "wait"}
Starting(s) == s.prog = "init" /\ s.pc \in {"open", "dhcpd", "shell", "return"}

\* Process 1 is init; and where a DHCP client can be executed nobody else starts
\* programs.
FirstOnly(T, dhcpd) ==
    /\ T[1].parent = 0 /\ T[1].prog = "init" /\ T[1].pc \in {"open", "dhcpd", "shell", "return", "ended"}
    /\ dhcpd =>
          /\ \A p \in DOMAIN T : Starting(T[p]) => p = 1
          /\ \A p, q \in DOMAIN T : Shelly(T[p]) /\ Shelly(T[q]) => p = q
          /\ \A p \in DOMAIN T : Shelly(T[p]) => T[1].pc \in {"return", "ended"}

Inv(T, dhcpd) == Table(T) /\ Kin(T) /\ Awaited(T) /\ FirstOnly(T, dhcpd)

UInv == Inv(procs, setup.dhcpd)

-----------------------------------------------------------------------------
(* What steps do to a table                                                *)

\* A process goes on, or executes another program.
LEMMA GoesOn ==
    ASSUME NEW T, NEW d, Inv(T, d), NEW p \in DOMAIN T, NEW s, IsProcess(s), s.parent = T[p].parent,
           s.prog # T[p].prog => Childless(T, p),
           UnderShell(T, p) => Forked(s) /\ (Done(T[p]) => Done(s)),
           ~Started(s),
           s.prog = "ush" /\ s.pc = "exec" => UnderShell(T, p),
           s.prog \notin {"init", "ush"} => Childless(T, p),
           \A q \in DOMAIN T : T[q].parent = p /\ s.prog = "ush" =>
               /\ s.pc \in {"prompt", "command", "fork"} => Done(T[q])
               /\ s.pc = "wait" => Done(T[q]) \/ q = s.child,
           p = 1 => /\ s.prog = "init" /\ s.pc \in {"open", "dhcpd", "shell", "return", "ended"}
                    /\ T[1].pc \in {"return", "ended"} => s.pc \in {"return", "ended"},
           d => (Starting(s) => p = 1) /\ (Shelly(s) => Shelly(T[p]))
    PROVE  Inv([T EXCEPT ![p] = s], d)
<1> DEFINE U == [T EXCEPT ![p] = s]
<1>1. DOMAIN U = DOMAIN T /\ U[p] = s /\ \A q \in DOMAIN T : q # p => U[q] = T[q]
  OBVIOUS
<1> HIDE DEF U
<1>2. \A q \in DOMAIN T : U[q].parent = T[q].parent
  BY <1>1
<1>3. Table(U)
  BY <1>1 DEF Inv, Table
<1>4. \A q \in DOMAIN T : Childless(U, q) <=> Childless(T, q)
  BY <1>1, <1>2 DEF Childless
<1>5. \A q \in DOMAIN T : UnderShell(U, q) <=> UnderShell(T, q)
  <2> SUFFICES ASSUME NEW q \in DOMAIN T PROVE UnderShell(U, q) <=> UnderShell(T, q)
    OBVIOUS
  <2>1. CASE T[q].parent = p
    <3>1. s.prog = T[p].prog
      BY <2>1 DEF Childless
    <3> QED BY <1>1, <1>2, <2>1, <3>1 DEF UnderShell
  <2>2. CASE T[q].parent # p
    BY <1>1, <1>2, <2>2 DEF UnderShell
  <2> QED BY <2>1, <2>2
<1>6. Kin(U)
  <2> SUFFICES ASSUME NEW q \in DOMAIN T
               PROVE  /\ U[q].parent \in DOMAIN T \cup {0}
                      /\ UnderShell(T, q) => Forked(U[q]) /\ Childless(T, q)
                      /\ Started(U[q]) => Childless(T, q)
                      /\ U[q].prog = "ush" /\ U[q].pc = "exec" => UnderShell(T, q)
                      /\ U[q].prog \notin {"init", "ush"} => Childless(T, q)
    BY <1>1, <1>4, <1>5 DEF Kin
  <2>1. CASE q = p
    BY <1>1, <2>1 DEF Inv, Kin
  <2>2. CASE q # p
    BY <1>1, <2>2 DEF Inv, Kin
  <2> QED BY <2>1, <2>2
<1>7. Awaited(U)
  <2> SUFFICES ASSUME NEW r \in DOMAIN T, NEW q \in DOMAIN T, T[q].parent = r, U[r].prog = "ush"
               PROVE  /\ U[r].pc \in {"prompt", "command", "fork"} => Done(U[q])
                      /\ U[r].pc = "wait" => Done(U[q]) \/ q = U[r].child
    BY <1>1, <1>2 DEF Awaited
  <2>1. Done(T[q]) => Done(U[q])
    <3>1. UnderShell(T, q)
      BY <1>1, <1>2, <1>5 DEF UnderShell
    <3> QED BY <1>1, <3>1
  <2>2. CASE r = p
    BY <1>1, <2>1, <2>2
  <2>3. CASE r # p
    BY <1>1, <2>1, <2>3 DEF Inv, Awaited
  <2> QED BY <2>2, <2>3
<1>8. FirstOnly(U, d)
  <2>1. 1 \in DOMAIN T /\ FirstOnly(T, d)
    BY DEF Inv, Table
  <2>2. U[1].parent = 0 /\ U[1].prog = "init" /\ U[1].pc \in {"open", "dhcpd", "shell", "return", "ended"}
    BY <1>1, <2>1 DEF FirstOnly
  <2>3. T[1].pc \in {"return", "ended"} => U[1].pc \in {"return", "ended"}
    BY <1>1, <2>1
  <2>4. ASSUME d PROVE \A q \in DOMAIN T : /\ Starting(U[q]) => q = 1
                                           /\ Shelly(U[q]) => Shelly(T[q])
    BY <1>1, <2>1, <2>4 DEF FirstOnly
  <2> QED BY <1>1, <2>1, <2>2, <2>3, <2>4 DEF FirstOnly
<1> QED BY <1>3, <1>6, <1>7, <1>8 DEF Inv, U

\* A child comes.
LEMMA Comes ==
    ASSUME NEW T, NEW d, Inv(T, d), NEW p \in DOMAIN T, NEW q \in Nat \ ({0} \cup DOMAIN T),
           NEW c, IsProcess(c), c.parent = p,
           ~UnderShell(T, p), ~Started(T[p]),
           \/ T[p].prog = "init" /\ Started(c)
           \/ /\ T[p].prog = "ush" /\ T[p].pc # "exec" /\ c.prog = "ush" /\ c.pc = "exec"
              /\ T[p].pc \in {"prompt", "command", "fork"} => Done(c)
              /\ T[p].pc = "wait" => q = T[p].child,
           d /\ Shelly(c) => T[1].pc \in {"return", "ended"} /\ \A r \in DOMAIN T : ~Shelly(T[r])
    PROVE  Inv([i \in DOMAIN T \cup {q} |-> IF i = q THEN c ELSE T[i]], d)
<1> DEFINE U == [i \in DOMAIN T \cup {q} |-> IF i = q THEN c ELSE T[i]]
<1>1. DOMAIN U = DOMAIN T \cup {q} /\ U[q] = c /\ \A r \in DOMAIN T : U[r] = T[r]
  OBVIOUS
<1> HIDE DEF U
<1>2. Table(U)
  <2>1. IsFiniteSet(DOMAIN T \cup {q})
    BY FS_AddElement DEF Inv, Table
  <2> QED BY <1>1, <2>1 DEF Inv, Table
<1>3. Childless(U, q)
  <2>1. \A r \in DOMAIN T : T[r].parent # q
    BY DEF Inv, Kin
  <2> QED BY <1>1, <2>1 DEF Childless
<1>4. \A r \in DOMAIN T : r # p /\ Childless(T, r) => Childless(U, r)
  BY <1>1 DEF Childless
<1>5. \A r \in DOMAIN T : UnderShell(U, r) <=> UnderShell(T, r)
  BY <1>1 DEF Inv, Kin, UnderShell
<1>6. Kin(U)
  <2> SUFFICES ASSUME NEW r \in DOMAIN U
               PROVE  /\ U[r].parent \in DOMAIN U \cup {0}
                      /\ UnderShell(U, r) => Forked(U[r]) /\ Childless(U, r)
                      /\ Started(U[r]) => Childless(U, r)
                      /\ U[r].prog = "ush" /\ U[r].pc = "exec" => UnderShell(U, r)
                      /\ U[r].prog \notin {"init", "ush"} => Childless(U, r)
    BY DEF Kin
  <2>1. CASE r = q
    <3>1. UnderShell(U, q) <=> T[p].prog = "ush"
      BY <1>1 DEF UnderShell
    <3> QED BY <1>1, <1>3, <2>1, <3>1 DEF Forked, Started
  <2>2. CASE r = p
    BY <1>1, <1>5, <2>2 DEF Inv, Kin
  <2>3. CASE r \in DOMAIN T /\ r # p
    BY <1>1, <1>4, <1>5, <2>3 DEF Inv, Kin
  <2> QED BY <1>1, <2>1, <2>2, <2>3
<1>7. Awaited(U)
  <2> SUFFICES ASSUME NEW r \in DOMAIN U, NEW x \in DOMAIN U, U[x].parent = r, U[r].prog = "ush"
               PROVE  /\ U[r].pc \in {"prompt", "command", "fork"} => Done(U[x])
                      /\ U[r].pc = "wait" => Done(U[x]) \/ x = U[r].child
    BY DEF Awaited
  <2>1. r \in DOMAIN T
    BY <1>1, <1>3 DEF Childless
  <2>2. CASE x = q
    BY <1>1, <2>1, <2>2
  <2>3. CASE x \in DOMAIN T
    BY <1>1, <2>1, <2>3 DEF Inv, Awaited
  <2> QED BY <1>1, <2>2, <2>3
<1>8. FirstOnly(U, d)
  <2>1. 1 \in DOMAIN T /\ FirstOnly(T, d) /\ U[1] = T[1]
    BY <1>1 DEF Inv, Table
  <2>2. ~Starting(c)
    BY DEF Starting, Started
  <2>3. d => \A r \in DOMAIN U : Starting(U[r]) => r = 1
    BY <1>1, <2>1, <2>2 DEF FirstOnly
  <2>4. d => \A r, x \in DOMAIN U : Shelly(U[r]) /\ Shelly(U[x]) => r = x
    BY <1>1, <2>1 DEF FirstOnly
  <2>5. d => \A r \in DOMAIN U : Shelly(U[r]) => U[1].pc \in {"return", "ended"}
    BY <1>1, <2>1 DEF FirstOnly
  <2> QED BY <2>1, <2>3, <2>4, <2>5 DEF FirstOnly
<1> QED BY <1>2, <1>6, <1>7, <1>8 DEF Inv, U

\* A child of a shell has been waited for.
LEMMA Leaves ==
    ASSUME NEW T, NEW d, Inv(T, d), NEW q \in DOMAIN T, UnderShell(T, q)
    PROVE  Inv([i \in DOMAIN T \ {q} |-> T[i]], d)
<1> DEFINE U == [i \in DOMAIN T \ {q} |-> T[i]]
<1>1. DOMAIN U = DOMAIN T \ {q} /\ \A r \in DOMAIN U : U[r] = T[r] /\ r \in DOMAIN T
  OBVIOUS
<1> HIDE DEF U
<1>2. Childless(T, q) /\ q # 1
  BY DEF Inv, Kin, FirstOnly, UnderShell, Table
<1>3. Table(U)
  <2>1. IsFiniteSet(DOMAIN T \ {q})
    BY FS_RemoveElement DEF Inv, Table
  <2> QED BY <1>1, <1>2, <2>1 DEF Inv, Table
<1>4. \A r \in DOMAIN U : /\ Childless(T, r) => Childless(U, r)
                          /\ UnderShell(U, r) <=> UnderShell(T, r)
                          /\ U[r].parent \in DOMAIN U \cup {0}
  <2> SUFFICES ASSUME NEW r \in DOMAIN U
               PROVE  /\ Childless(T, r) => Childless(U, r)
                      /\ UnderShell(U, r) <=> UnderShell(T, r)
                      /\ U[r].parent \in DOMAIN U \cup {0}
    OBVIOUS
  <2>1. U[r].parent = T[r].parent /\ T[r].parent # q /\ T[r].parent \in DOMAIN T \cup {0}
    BY <1>1, <1>2 DEF Childless, Inv, Kin
  <2> QED BY <1>1, <2>1 DEF Childless, UnderShell
<1>5. Kin(U)
  <2> SUFFICES ASSUME NEW r \in DOMAIN U
               PROVE  /\ U[r].parent \in DOMAIN U \cup {0}
                      /\ UnderShell(U, r) => Forked(U[r]) /\ Childless(U, r)
                      /\ Started(U[r]) => Childless(U, r)
                      /\ U[r].prog = "ush" /\ U[r].pc = "exec" => UnderShell(U, r)
                      /\ U[r].prog \notin {"init", "ush"} => Childless(U, r)
    BY DEF Kin
  <2>1. r \in DOMAIN T /\ U[r] = T[r]
    BY <1>1
  <2> QED BY <1>4, <2>1 DEF Inv, Kin
<1>6. Awaited(U)
  BY <1>1 DEF Inv, Awaited
<1>7. FirstOnly(U, d)
  <2>1. 1 \in DOMAIN U /\ U[1] = T[1]
    BY <1>1, <1>2 DEF Inv, Table
  <2> QED BY <1>1, <2>1 DEF Inv, FirstOnly
<1> QED BY <1>3, <1>5, <1>6, <1>7 DEF Inv, U

LEMMA FreshIs ==
    ASSUME Table(procs) PROVE Fresh \in Nat \ ({0} \cup DOMAIN procs)
<1> DEFINE n == Cardinality(DOMAIN procs)
<1>1. n \in Nat
  BY FS_CardinalityType DEF Table
<1>2. \E q \in 1 .. n + 1 : q \notin DOMAIN procs
  <2> SUFFICES ASSUME 1 .. n + 1 \subseteq DOMAIN procs PROVE FALSE
    OBVIOUS
  <2>1. Cardinality(1 .. n + 1) <= n
    BY FS_Subset DEF Table
  <2>2. Cardinality(1 .. n + 1) = n + 1
    <3>1. n + 1 \in Int /\ 1 \in Int /\ n + 1 >= 1
      BY <1>1
    <3> HIDE DEF n
    <3> QED BY <1>1, <3>1, FS_Interval
  <2> QED BY <1>1, <2>1, <2>2
<1>3. Fresh \in 1 .. n + 1 /\ Fresh \notin DOMAIN procs
  BY <1>2 DEF Fresh
<1> QED BY <1>1, <1>3

-----------------------------------------------------------------------------
(* init's steps                                                            *)

LEMMA InitInv == Init => UInv
<1> SUFFICES ASSUME Init PROVE UInv
  OBVIOUS
<1> DEFINE P == Process("init", "open", 0)
<1>1. IsProcess(P) /\ P.prog = "init" /\ P.pc = "open" /\ P.parent = 0
  BY DEF Process, IsProcess, Fields
<1> HIDE DEF P
<1>2. DOMAIN procs = {1} /\ procs[1] = P
  BY DEF Init, P
<1>3. Table(procs)
  <2>1. IsFiniteSet({1})
    BY FS_Singleton
  <2>2. 1 \in Nat \ {0}
    OBVIOUS
  <2> QED BY <1>1, <1>2, <2>1, <2>2 DEF Table
<1>4. Kin(procs) /\ Awaited(procs)
  BY <1>1, <1>2 DEF Kin, Awaited, UnderShell, Childless, Started
<1>5. FirstOnly(procs, setup.dhcpd)
  BY <1>1, <1>2 DEF FirstOnly, Shelly
<1> QED BY <1>3, <1>4, <1>5 DEF UInv, Inv

\* A process that is not a shell, or is one no longer.
LEMMA OtherGoesOn ==
    ASSUME NEW T, NEW d, Inv(T, d), NEW p \in DOMAIN T, NEW s, IsProcess(s), s.parent = T[p].parent,
           s.prog = T[p].prog, ~Started(s), ~Shelly(s),
           s.prog = "ush" => s.pc = "ended",
           UnderShell(T, p) => (Done(T[p]) => Done(s)),
           p = 1 => /\ s.pc \in {"open", "dhcpd", "shell", "return", "ended"}
                    /\ T[1].pc \in {"return", "ended"} => s.pc \in {"return", "ended"},
           d /\ Starting(s) => p = 1
    PROVE  Inv([T EXCEPT ![p] = s], d)
<1>1. UnderShell(T, p) => Forked(s)
  BY DEF Inv, Kin, Forked
<1>2. s.prog \notin {"init", "ush"} => Childless(T, p)
  BY DEF Inv, Kin
<1>3. p = 1 => s.prog = "init"
  BY DEF Inv, FirstOnly
<1>4. ~(s.prog = "ush" /\ s.pc \in {"exec", "prompt", "command", "fork", "wait"})
  OBVIOUS
<1> QED BY <1>1, <1>2, <1>3, <1>4, GoesOn

LEMMA EndsKeeps ==
    ASSUME UInv, NEW p \in DOMAIN procs, Ends(p), UNCHANGED setup, p = 1 => procs[1].prog = "init"
    PROVE  UInv'
<1> DEFINE s == [Process(procs[p].prog, "ended", procs[p].parent) EXCEPT !.detached = procs[p].detached]
<1>1. IsProcess(procs[p])
  BY DEF UInv, Inv, Table
<1>2. IsProcess(s) /\ s.pc = "ended" /\ s.prog = procs[p].prog /\ s.parent = procs[p].parent
      /\ s.detached = procs[p].detached
  BY <1>1 DEF IsProcess, Fields, Process
<1>3. procs' = [procs EXCEPT ![p] = s]
  BY DEF Ends, Becomes
<1> HIDE DEF s
<1>4. Inv([procs EXCEPT ![p] = s], setup.dhcpd)
  BY <1>2, OtherGoesOn DEF UInv, Started, Shelly, Starting, Done
<1> QED BY <1>3, <1>4 DEF UInv

LEMMA GoesKeeps ==
    ASSUME UInv, NEW p \in DOMAIN procs, NEW x, Goes(p, x), UNCHANGED setup, procs[p].prog = "init",
           x \in {"dhcpd", "shell", "return"},
           p = 1 => procs[1].pc \notin {"return", "ended"},
           setup.dhcpd => p = 1
    PROVE  UInv'
<1> DEFINE s == [procs[p] EXCEPT !.pc = x]
<1>1. IsProcess(procs[p])
  BY DEF UInv, Inv, Table
<1>2. IsProcess(s) /\ s.pc = x /\ s.prog = "init" /\ s.parent = procs[p].parent
      /\ s.detached = procs[p].detached
  BY <1>1 DEF IsProcess, Fields, Process
<1>3. procs' = [procs EXCEPT ![p] = s]
  BY DEF Goes
<1> HIDE DEF s
<1>4. ~UnderShell(procs, p)
  BY DEF UInv, Inv, Kin, Forked
<1>5. Inv([procs EXCEPT ![p] = s], setup.dhcpd)
  BY <1>2, <1>4, OtherGoesOn DEF UInv, Started, Shelly
<1> QED BY <1>3, <1>5 DEF UInv

LEMMA OpenKeeps ==
    ASSUME UInv, NEW p \in DOMAIN procs, open_tty(p) PROVE UInv'
<1>1. procs[p].prog = "init" /\ procs[p].pc = "open" /\ UNCHANGED setup
  BY DEF open_tty, Is
<1>2. setup.dhcpd => p = 1
  BY <1>1 DEF UInv, Inv, FirstOnly, Starting
<1>3. CASE setup.tty
  <2>1. Goes(p, "dhcpd")
    BY <1>3 DEF open_tty
  <2> QED BY <1>1, <1>2, <2>1, GoesKeeps
<1>4. CASE ~setup.tty
  <2>1. Ends(p)
    BY <1>4 DEF open_tty
  <2> QED BY <1>1, <2>1, EndsKeeps
<1> QED BY <1>3, <1>4

LEMMA StartKeeps ==
    ASSUME UInv, NEW p \in DOMAIN procs, start_program(p) PROVE UInv'
<1> DEFINE d == setup.dhcpd
           t == Following(procs[p].pc)
           e == IF procs[p].pc = "dhcpd" THEN "exec_dhcpd" ELSE "exec_shell"
           parent == [procs[p] EXCEPT !.pc = t]
           child == [procs[p] EXCEPT !.pc = e]
           q == Fresh
<1>1. /\ procs[p].prog = "init" /\ procs[p].pc \in {"dhcpd", "shell"} /\ UNCHANGED setup
      /\ fork_succeeds(p, parent, child) \/ fork_fails(p, parent)
  BY DEF start_program
<1>2. IsProcess(procs[p]) /\ Inv(procs, d) /\ q \in Nat \ ({0} \cup DOMAIN procs) /\ p \in Nat
  BY FreshIs DEF UInv, Inv, Table
<1>3. t = IF procs[p].pc = "dhcpd" THEN "shell" ELSE "return"
  BY DEF Following
<1>4. d => p = 1
  BY <1>1 DEF UInv, Inv, FirstOnly, Starting
<1>5. ~UnderShell(procs, p)
  BY <1>1 DEF UInv, Inv, Kin, Forked
<1>6. /\ IsProcess(parent) /\ parent.pc = t /\ parent.prog = "init" /\ parent.parent = procs[p].parent
      /\ IsProcess(child) /\ child.pc = e /\ child.prog = "init"
  BY <1>1, <1>2 DEF IsProcess, Fields, Process
<1> HIDE DEF parent, child, t, e, q
<1>7. ASSUME NEW n \in Int
      PROVE  LET s == [parent EXCEPT !.child = n] IN
             IsProcess(s) /\ s.pc = t /\ s.prog = "init" /\ Inv([procs EXCEPT ![p] = s], d)
  <2> DEFINE s == [parent EXCEPT !.child = n]
  <2>1. IsProcess(s) /\ s.pc = t /\ s.prog = "init" /\ s.parent = procs[p].parent
    BY <1>6 DEF IsProcess, Fields, Process
  <2> HIDE DEF s
  <2>2. t \in {"shell", "return"} /\ ~(procs[p].pc \in {"return", "ended"})
    BY <1>1, <1>3
  <2>3. Inv([procs EXCEPT ![p] = s], d)
    BY <1>1, <1>2, <1>4, <1>5, <2>1, <2>2, OtherGoesOn DEF Started, Shelly
  <2> QED BY <2>1, <2>3 DEF s
<1>8. CASE fork_fails(p, parent)
  <2>1. procs' = [procs EXCEPT ![p] = [parent EXCEPT !.child = -1]]
    BY <1>8 DEF fork_fails
  <2>2. -1 \in Int
    OBVIOUS
  <2>3. Inv([procs EXCEPT ![p] = [parent EXCEPT !.child = -1]], d)
    BY <1>7, <2>2
  <2> QED BY <1>1, <2>1, <2>3 DEF UInv
<1>9. CASE fork_succeeds(p, parent, child)
  <2> DEFINE s == [parent EXCEPT !.child = q]
             c == [child EXCEPT !.parent = p]
             T == [procs EXCEPT ![p] = s]
             U == [i \in DOMAIN T \cup {q} |-> IF i = q THEN c ELSE T[i]]
  <2>1. procs' = U
    BY <1>2, <1>9 DEF fork_succeeds, q
  <2>2. IsProcess(s) /\ s.pc = t /\ s.prog = "init" /\ Inv(T, d)
    BY <1>2, <1>7
  <2>3. IsProcess(c) /\ c.parent = p /\ c.pc = e /\ c.prog = "init"
    BY <1>2, <1>6 DEF IsProcess, Fields, Process
  <2> HIDE DEF s, c
  <2>4. DOMAIN T = DOMAIN procs /\ T[p] = s /\ \A i \in DOMAIN procs : i # p => T[i] = procs[i]
    OBVIOUS
  <2>5. ~UnderShell(T, p) /\ ~Started(T[p])
    <3>1. ~Forked(s) /\ ~Started(s)
      BY <1>3, <2>2 DEF Forked, Started
    <3> QED BY <2>2, <2>4, <3>1 DEF Inv, Kin
  <2>6. Started(c)
    BY <1>1, <2>3 DEF Started, e
  <2>7. ASSUME d, Shelly(c) PROVE T[1].pc \in {"return", "ended"} /\ \A r \in DOMAIN T : ~Shelly(T[r])
    <3>1. p = 1 /\ procs[p].pc = "shell" /\ t = "return"
      BY <1>1, <1>3, <1>4, <2>3, <2>7 DEF Shelly, e
    <3>2. \A r \in DOMAIN procs : ~Shelly(procs[r])
      BY <1>2, <2>7, <3>1 DEF Inv, FirstOnly
    <3>3. ~Shelly(s)
      BY <2>2, <3>1 DEF Shelly
    <3> QED BY <2>2, <2>4, <3>1, <3>2, <3>3
  <2> HIDE DEF T
  <2>8. Inv(U, d)
    BY <1>2, <2>2, <2>3, <2>4, <2>5, <2>6, <2>7, Comes
  <2> QED BY <1>1, <2>1, <2>8 DEF UInv
<1> QED BY <1>1, <1>8, <1>9

LEMMA StartChildKeeps ==
    ASSUME UInv, NEW p \in DOMAIN procs, start_program_child(p) PROVE UInv'
<1>1. /\ procs[p].prog = "init" /\ procs[p].pc \in {"exec_dhcpd", "exec_shell"} /\ UNCHANGED setup
      /\ IF procs[p].pc = "exec_shell" THEN Becomes(p, "ush", "prompt")
         ELSE IF setup.dhcpd THEN Becomes(p, "dhcpd", "run") ELSE Goes(p, "shell")
  BY DEF start_program_child, Is
<1>2. /\ Childless(procs, p) /\ ~UnderShell(procs, p) /\ p # 1 /\ IsProcess(procs[p])
  BY <1>1 DEF UInv, Inv, Kin, Started, Forked, FirstOnly, Table
<1>3. ASSUME Goes(p, "shell"), ~setup.dhcpd PROVE UInv'
  BY <1>1, <1>2, <1>3, GoesKeeps
<1>4. ASSUME NEW prog, NEW pc, Becomes(p, prog, pc),
             \/ prog = "ush" /\ pc = "prompt" /\ procs[p].pc = "exec_shell"
             \/ prog = "dhcpd" /\ pc = "run"
      PROVE  UInv'
  <2> DEFINE s == [Process(prog, pc, procs[p].parent) EXCEPT !.detached = procs[p].detached]
  <2>1. IsProcess(s) /\ s.pc = pc /\ s.prog = prog /\ s.parent = procs[p].parent
    BY <1>2 DEF IsProcess, Fields, Process
  <2>2. procs' = [procs EXCEPT ![p] = s]
    BY <1>4 DEF Becomes
  <2> HIDE DEF s
  <2>3. ~Started(s) /\ ~Starting(s) /\ (Shelly(s) => Shelly(procs[p])) /\ ~(s.prog = "ush" /\ s.pc = "exec")
    BY <1>1, <1>4, <2>1 DEF Started, Starting, Shelly
  <2>4. \A q \in DOMAIN procs : procs[q].parent # p
    BY <1>2 DEF Childless
  <2>5. Inv([procs EXCEPT ![p] = s], setup.dhcpd)
    BY <1>2, <2>1, <2>3, <2>4, GoesOn DEF UInv
  <2> QED BY <1>1, <2>2, <2>5 DEF UInv
<1> QED BY <1>1, <1>3, <1>4
-----------------------------------------------------------------------------
(* The shell's steps                                                       *)

\* A shell goes on with its children ended, detached, or waited for.
LEMMA ShellGoesOn ==
    ASSUME NEW T, NEW d, Inv(T, d), NEW p \in DOMAIN T, T[p].prog = "ush",
           T[p].pc \in {"prompt", "command", "fork", "wait"},
           NEW s, IsProcess(s), s.parent = T[p].parent, s.prog = "ush", s.pc # "exec",
           \A q \in DOMAIN T : T[q].parent = p => Done(T[q]) \/ (s.pc = "wait" /\ q = s.child)
    PROVE  ~UnderShell(T, p) /\ Inv([T EXCEPT ![p] = s], d)
<1>1. ~UnderShell(T, p) /\ p # 1
  BY DEF Inv, Kin, Forked, FirstOnly
<1>2. ~Started(s) /\ ~Starting(s) /\ Shelly(T[p])
  BY DEF Started, Starting, Shelly
<1>3. Inv([T EXCEPT ![p] = s], d)
  BY <1>1, <1>2, GoesOn
<1> QED BY <1>1, <1>3

\* Between two waits it has no child in the foreground.
LEMMA Unawaited ==
    ASSUME UInv, NEW p \in DOMAIN procs, procs[p].prog = "ush", procs[p].pc \in {"prompt", "command", "fork"}
    PROVE  IsProcess(procs[p]) /\ \A q \in DOMAIN procs : procs[q].parent = p => Done(procs[q])
BY DEF UInv, Inv, Table, Awaited

LEMMA ReadsKeeps ==
    ASSUME UInv, NEW p \in DOMAIN procs, main_reads(p) PROVE UInv'
<1>1. procs[p].prog = "ush" /\ procs[p].pc = "prompt" /\ UNCHANGED setup
  BY DEF main_reads, Is
<1>2. PICK line \in Lines :
          LET s == getline(procs[p].argvp, line)
              read == [procs[p] EXCEPT !.argvp = s.argvp, !.argc = s.argc, !.line = line]
          IN  procs' = [procs EXCEPT ![p] =
                  IF s.wild THEN [read EXCEPT !.pc = "wild"]
                  ELSE IF s.argc = 0 THEN Prompt(read) ELSE [read EXCEPT !.pc = "command"]]
  BY DEF main_reads
<1> DEFINE g == getline(procs[p].argvp, line)
           read == [procs[p] EXCEPT !.argvp = g.argvp, !.argc = g.argc, !.line = line]
           s == IF g.wild THEN [read EXCEPT !.pc = "wild"]
                ELSE IF g.argc = 0 THEN Prompt(read) ELSE [read EXCEPT !.pc = "command"]
<1>3. procs' = [procs EXCEPT ![p] = s]
  BY <1>2
<1>4. IsProcess(procs[p]) /\ \A q \in DOMAIN procs : procs[q].parent = p => Done(procs[q])
  BY <1>1, Unawaited
<1> HIDE DEF g
<1>5. IsProcess(read) /\ read.prog = "ush" /\ read.parent = procs[p].parent
  BY <1>1, <1>4 DEF IsProcess, Fields
<1> HIDE DEF read
<1>6. IsProcess(s) /\ s.prog = "ush" /\ s.parent = procs[p].parent /\ s.pc \in {"wild", "prompt", "command"}
  <2>1. CASE g.wild
    BY <1>5, <2>1 DEF IsProcess, Fields
  <2>2. CASE ~g.wild /\ g.argc = 0
    BY <1>5, <2>2 DEF IsProcess, Fields, Prompt
  <2>3. CASE ~g.wild /\ g.argc # 0
    BY <1>5, <2>3 DEF IsProcess, Fields
  <2> QED BY <2>1, <2>2, <2>3
<1> HIDE DEF s
<1>7. Inv([procs EXCEPT ![p] = s], setup.dhcpd)
  BY <1>1, <1>4, <1>6, ShellGoesOn DEF UInv
<1> QED BY <1>1, <1>3, <1>7 DEF UInv

LEMMA ExitsKeeps ==
    ASSUME UInv, NEW p \in DOMAIN procs, main_exits(p) \/ init_returns(p) \/ program_ends(p)
    PROVE  UInv'
<1>1. Ends(p) /\ UNCHANGED setup
  BY DEF main_exits, init_returns, program_ends
<1>2. p = 1 => procs[1].prog = "init"
  BY DEF UInv, Inv, FirstOnly
<1> QED BY <1>1, <1>2, EndsKeeps

LEMMA ItselfKeeps ==
    ASSUME UInv, NEW p \in DOMAIN procs, main_itself(p) PROVE UInv'
<1> DEFINE s == Prompt(procs[p])
<1>1. procs[p].prog = "ush" /\ procs[p].pc = "command" /\ UNCHANGED setup /\ procs' = [procs EXCEPT ![p] = s]
  BY DEF main_itself, Is
<1>2. IsProcess(procs[p]) /\ \A q \in DOMAIN procs : procs[q].parent = p => Done(procs[q])
  BY <1>1, Unawaited
<1>3. IsProcess(s) /\ s.prog = "ush" /\ s.parent = procs[p].parent /\ s.pc = "prompt"
  BY <1>1, <1>2 DEF IsProcess, Fields, Prompt
<1> HIDE DEF s
<1>4. Inv([procs EXCEPT ![p] = s], setup.dhcpd)
  BY <1>1, <1>2, <1>3, ShellGoesOn DEF UInv
<1> QED BY <1>1, <1>4 DEF UInv

LEMMA ArgumentsKeep ==
    ASSUME UInv, NEW p \in DOMAIN procs, main_arguments(p) PROVE UInv'
<1> DEFINE argc == procs[p].argc
           D == IsWord(procs[p].argvp, argc - 1, <<"&">>)
           x == IF argc >= ARG_MAX THEN "wild" ELSE "fork"
           A == [i \in DOMAIN procs[p].execve_argv |->
                    IF i = argc THEN NULL
                    ELSE IF i < argc /\ ~(D /\ i = argc - 1) THEN i ELSE procs[p].execve_argv[i]]
           s == [procs[p] EXCEPT !.pc = x, !.detached = D, !.execve_argv = A]
<1>1. procs[p].prog = "ush" /\ procs[p].pc = "command" /\ UNCHANGED setup
  BY DEF main_arguments, Is
<1>2. IsProcess(procs[p]) /\ \A q \in DOMAIN procs : procs[q].parent = p => Done(procs[q])
  BY <1>1, Unawaited
<1>3. procs' = [procs EXCEPT ![p] = s]
  BY DEF main_arguments
<1>4. D \in BOOLEAN /\ x \in {"wild", "fork"}
  BY DEF IsWord
<1> HIDE DEF D, x, A, argc
<1>5. IsProcess(s) /\ s.prog = "ush" /\ s.parent = procs[p].parent /\ s.pc \in {"wild", "fork"}
  BY <1>1, <1>2, <1>4 DEF IsProcess, Fields
<1> HIDE DEF s
<1>6. Inv([procs EXCEPT ![p] = s], setup.dhcpd)
  BY <1>1, <1>2, <1>5, ShellGoesOn DEF UInv
<1> QED BY <1>1, <1>3, <1>6 DEF UInv

LEMMA ExecutesKeeps ==
    ASSUME UInv, NEW p \in DOMAIN procs, main_executes(p) PROVE UInv'
<1>1. /\ procs[p].prog = "ush" /\ procs[p].pc = "exec" /\ UNCHANGED setup
      /\ Becomes(p, "command", "run") \/ Ends(p)
  BY DEF main_executes, AfterFailedExec, Is
<1>2. UnderShell(procs, p) /\ Childless(procs, p) /\ p # 1 /\ IsProcess(procs[p])
  BY <1>1 DEF UInv, Inv, Kin, FirstOnly, Table
<1>3. CASE Ends(p)
  BY <1>1, <1>2, <1>3, EndsKeeps
<1>4. CASE Becomes(p, "command", "run")
  <2> DEFINE s == [Process("command", "run", procs[p].parent) EXCEPT !.detached = procs[p].detached]
  <2>1. IsProcess(s) /\ s.pc = "run" /\ s.prog = "command" /\ s.parent = procs[p].parent
        /\ s.detached = procs[p].detached
    BY <1>2 DEF IsProcess, Fields, Process
  <2>2. procs' = [procs EXCEPT ![p] = s]
    BY <1>4 DEF Becomes
  <2> HIDE DEF s
  <2>3. ~Started(s) /\ ~Starting(s) /\ ~Shelly(s) /\ Forked(s) /\ (Done(procs[p]) => Done(s))
    BY <1>1, <2>1 DEF Started, Starting, Shelly, Forked, Done
  <2>4. Inv([procs EXCEPT ![p] = s], setup.dhcpd)
    BY <1>2, <2>1, <2>3, GoesOn DEF UInv
  <2> QED BY <1>1, <2>2, <2>4 DEF UInv
<1> QED BY <1>1, <1>3, <1>4

LEMMA ForksKeeps ==
    ASSUME UInv, NEW p \in DOMAIN procs, main_forks(p) PROVE UInv'
<1> DEFINE d == setup.dhcpd
           after == AfterFork(procs[p])
           child == [procs[p] EXCEPT !.pc = "exec"]
           q == Fresh
<1>1. /\ procs[p].prog = "ush" /\ procs[p].pc = "fork" /\ UNCHANGED setup
      /\ fork_succeeds(p, after, child) \/ fork_fails(p, after)
  BY DEF main_forks, Is
<1>2. IsProcess(procs[p]) /\ (\A r \in DOMAIN procs : procs[r].parent = p => Done(procs[r]))
      /\ Inv(procs, d) /\ q \in Nat \ ({0} \cup DOMAIN procs) /\ p \in Nat
  BY <1>1, Unawaited, FreshIs DEF UInv, Inv, Table
<1>3. /\ IsProcess(after) /\ after.prog = "ush" /\ after.parent = procs[p].parent
      /\ after.pc = IF procs[p].detached THEN "prompt" ELSE "wait"
  <2>1. CASE procs[p].detached
    BY <1>1, <1>2, <2>1 DEF AfterFork, Prompt, IsProcess, Fields
  <2>2. CASE ~procs[p].detached
    BY <1>1, <1>2, <2>2 DEF AfterFork, IsProcess, Fields
  <2> QED BY <2>1, <2>2
<1>4. /\ IsProcess(child) /\ child.prog = "ush" /\ child.pc = "exec"
      /\ child.detached = procs[p].detached
  BY <1>1, <1>2 DEF IsProcess, Fields
<1> HIDE DEF after, child, q
<1>5. ASSUME NEW n \in Int
      PROVE  LET s == [after EXCEPT !.child = n] IN
             /\ IsProcess(s) /\ s.prog = "ush" /\ s.child = n
             /\ s.pc = IF procs[p].detached THEN "prompt" ELSE "wait"
             /\ s.parent = procs[p].parent
             /\ ~UnderShell(procs, p) /\ Inv([procs EXCEPT ![p] = s], d)
  <2> DEFINE s == [after EXCEPT !.child = n]
  <2>1. IsProcess(s) /\ s.prog = "ush" /\ s.child = n /\ s.parent = procs[p].parent
        /\ s.pc = IF procs[p].detached THEN "prompt" ELSE "wait"
    BY <1>3 DEF IsProcess, Fields
  <2> HIDE DEF s
  <2>2. ~UnderShell(procs, p) /\ Inv([procs EXCEPT ![p] = s], d)
    BY <1>1, <1>2, <2>1, ShellGoesOn
  <2> QED BY <2>1, <2>2 DEF s
<1>6. CASE fork_fails(p, after)
  <2>1. procs' = [procs EXCEPT ![p] = [after EXCEPT !.child = -1]]
    BY <1>6 DEF fork_fails
  <2>2. -1 \in Int
    OBVIOUS
  <2>3. Inv([procs EXCEPT ![p] = [after EXCEPT !.child = -1]], d)
    BY <1>5, <2>2
  <2> QED BY <1>1, <2>1, <2>3 DEF UInv
<1>7. CASE fork_succeeds(p, after, child)
  <2> DEFINE s == [after EXCEPT !.child = q]
             c == [child EXCEPT !.parent = p]
             T == [procs EXCEPT ![p] = s]
             U == [i \in DOMAIN T \cup {q} |-> IF i = q THEN c ELSE T[i]]
  <2>1. procs' = U
    BY <1>2, <1>7 DEF fork_succeeds, q
  <2>2. /\ IsProcess(s) /\ s.prog = "ush" /\ s.child = q /\ ~UnderShell(procs, p) /\ Inv(T, d)
        /\ s.pc = (IF procs[p].detached THEN "prompt" ELSE "wait") /\ s.parent = procs[p].parent
    BY <1>2, <1>5
  <2>3. IsProcess(c) /\ c.parent = p /\ c.pc = "exec" /\ c.prog = "ush" /\ c.detached = procs[p].detached
    BY <1>2, <1>4 DEF IsProcess, Fields
  <2> HIDE DEF s, c
  <2>4. DOMAIN T = DOMAIN procs /\ T[p] = s
    OBVIOUS
  <2>5. ~UnderShell(T, p) /\ ~Started(T[p])
    <3>1. ~Forked(s) /\ ~Started(s)
      BY <2>2 DEF Forked, Started
    <3> QED BY <2>2, <2>4, <3>1 DEF Inv, Kin
  <2>6. ~Shelly(c) /\ (s.pc = "prompt" => Done(c)) /\ s.pc \in {"prompt", "wait"}
    BY <2>2, <2>3 DEF Shelly, Done
  <2> HIDE DEF T
  <2>7. Inv(U, d)
    BY <1>2, <2>2, <2>3, <2>4, <2>5, <2>6, Comes
  <2> QED BY <1>1, <2>1, <2>7 DEF UInv
<1> QED BY <1>1, <1>6, <1>7

LEMMA WaitsKeeps ==
    ASSUME UInv, NEW p \in DOMAIN procs, main_waits(p) PROVE UInv'
<1> DEFINE d == setup.dhcpd
           s == Prompt(procs[p])
           C == Children(p, procs[p].child)
           T == [procs EXCEPT ![p] = s]
<1>1. /\ procs[p].prog = "ush" /\ procs[p].pc = "wait" /\ UNCHANGED setup
      /\ \/ C = {} /\ procs' = T
         \/ \E q \in C : /\ procs[q].pc = "ended"
                         /\ procs' = [i \in DOMAIN procs \ {q} |-> IF i = p THEN s ELSE procs[i]]
  BY DEF main_waits, Is
<1>2. IsProcess(procs[p]) /\ Inv(procs, d)
  BY DEF UInv, Inv, Table
<1>3. IsProcess(s) /\ s.prog = "ush" /\ s.parent = procs[p].parent /\ s.pc = "prompt"
  BY <1>1, <1>2 DEF IsProcess, Fields, Prompt
<1> HIDE DEF s
<1>4. \A q \in DOMAIN procs : procs[q].parent = p => Done(procs[q]) \/ q = procs[p].child
  BY <1>1, <1>2 DEF Inv, Awaited
<1>5. \A q \in DOMAIN procs : procs[q].parent = p /\ q = procs[p].child => q \in C
  BY DEF Children
<1>6. ASSUME \A q \in DOMAIN procs : procs[q].parent = p => Done(procs[q])
      PROVE  Inv(T, d)
  BY <1>1, <1>2, <1>3, <1>6, ShellGoesOn
<1>7. CASE C = {} /\ procs' = T
  BY <1>1, <1>4, <1>5, <1>6, <1>7 DEF UInv
<1>8. ASSUME NEW q \in C, procs[q].pc = "ended",
             procs' = [i \in DOMAIN procs \ {q} |-> IF i = p THEN s ELSE procs[i]]
      PROVE  UInv'
  <2>1. q \in DOMAIN procs /\ procs[q].parent = p /\ procs[p].child \in {-1, q}
    BY DEF Children
  <2>2. -1 \notin DOMAIN procs
    BY <1>2 DEF Inv, Table
  <2>3. \A r \in DOMAIN procs : procs[r].parent = p => Done(procs[r])
    BY <1>4, <1>8, <2>1, <2>2 DEF Done
  <2>4. Inv(T, d)
    BY <1>6, <2>3
  <2>5. DOMAIN T = DOMAIN procs /\ T[p] = s /\ \A i \in DOMAIN procs : i # p => T[i] = procs[i]
    OBVIOUS
  <2>6. UnderShell(T, q)
    BY <1>3, <2>1, <2>5 DEF UnderShell
  <2>7. procs' = [i \in DOMAIN T \ {q} |-> T[i]]
    BY <1>8, <2>5
  <2> HIDE DEF T
  <2>8. Inv([i \in DOMAIN T \ {q} |-> T[i]], d)
    BY <2>1, <2>4, <2>5, <2>6, Leaves
  <2> QED BY <1>1, <2>7, <2>8 DEF UInv
<1> QED BY <1>1, <1>7, <1>8

-----------------------------------------------------------------------------
(* The theorem                                                             *)

LEMMA StepKeeps == UInv /\ [Next]_vars => UInv'
<1> SUFFICES ASSUME UInv, [Next]_vars PROVE UInv'
  OBVIOUS
<1>1. ASSUME NEW p \in DOMAIN procs, Runs(p) \/ main_reads(p) \/ program_ends(p) PROVE UInv'
  BY <1>1, OpenKeeps, StartKeeps, StartChildKeeps, ReadsKeeps, ExitsKeeps, ItselfKeeps,
     ArgumentsKeep, ForksKeeps, ExecutesKeeps, WaitsKeeps DEF Runs
<1>2. CASE UNCHANGED vars
  BY <1>2 DEF vars, UInv
<1> QED BY <1>1, <1>2 DEF Next

LEMMA OneReader == UInv => TerminalOwned
<1> SUFFICES ASSUME UInv PROVE TerminalOwned
  OBVIOUS
<1>1. ASSUME NEW p \in Shells, procs[p].pc = "prompt", NEW q \in Children(p, -1)
      PROVE  procs[q].detached \/ procs[q].pc = "ended"
  <2>1. p \in DOMAIN procs /\ procs[p].prog = "ush" /\ q \in DOMAIN procs /\ procs[q].parent = p
    BY DEF Shells, Children
  <2> QED BY <1>1, <2>1 DEF UInv, Inv, Awaited, Done
<1>2. ASSUME setup.dhcpd PROVE Cardinality(Shells) <= 1
  <2>1. \A p, q \in Shells : p = q
    BY <1>2 DEF UInv, Inv, FirstOnly, Shelly, Shells
  <2>2. CASE Shells = {}
    BY <2>2, FS_EmptySet
  <2>3. CASE Shells # {}
    <3>1. PICK p \in Shells : TRUE
      BY <2>3
    <3>2. Shells = {p}
      BY <2>1, <3>1
    <3>3. Cardinality({p}) = 1
      BY FS_Singleton
    <3> QED BY <3>2, <3>3
  <2> QED BY <2>2, <2>3
<1> QED BY <1>1, <1>2 DEF TerminalOwned

\* Of main in ushell.c and of start_program in init.c: whatever is typed, and
\* whether calls succeed or fail, nobody reads the terminal beside the shell
\* at its prompt; and where the DHCP client can be executed there is one shell.
THEOREM TerminalHasOneReader == Spec => []TerminalOwned
<1>1. Spec => []UInv
  BY InitInv, StepKeeps, PTL DEF Spec
<1> QED BY <1>1, OneReader, PTL

-----------------------------------------------------------------------------
(* Induction, and the states that getline goes through                    *)

\* A set of naturals has a least one.
LEMMA Least ==
    ASSUME NEW S \in SUBSET Nat, S # {} PROVE \E m \in S : \A k \in S : m <= k
<1> DEFINE R == OpToRel(<, Nat)
<1>1. \A x, y \in Nat : y < x => <<y, x>> \in R
  BY DEF OpToRel
<1>2. IsWellFoundedOn(R, Nat)
  BY NatLessThanWellFounded
<1> HIDE DEF R
<1>3. PICK x \in S : \A y \in S : ~(<<y, x>> \in R)
  BY <1>2, WFMin
<1>4. \A y \in S : ~(y < x)
  BY <1>1, <1>3
<1> QED BY <1>3, <1>4

\* Induction, for a set of naturals.
LEMMA Inductive ==
    ASSUME NEW S, 0 \in S, \A n \in Nat : n \in S => n + 1 \in S
    PROVE  Nat \subseteq S
<1> SUFFICES ASSUME Nat \ S # {} PROVE FALSE
  OBVIOUS
<1>1. PICK x \in Nat \ S : \A k \in Nat \ S : x <= k
  BY Least
<1>2. x # 0 /\ x - 1 \in Nat /\ x - 1 < x /\ (x - 1) + 1 = x
  BY <1>1
<1> QED BY <1>1, <1>2

\* The states that getline goes through.
Beginning(argvp) == [argvp |-> argvp, argc |-> 0, argc_ind |-> 0, wild |-> FALSE]
Reading(g, argvp, line, n) ==
    g = [i \in 0 .. n |-> IF i = 0 THEN Beginning(argvp) ELSE getline_char(g[i - 1], line[i])]

LEMMA ReadingExists ==
    ASSUME NEW argvp, NEW line PROVE \A n \in Nat : \E g : Reading(g, argvp, line, n)
<1> DEFINE S == {n \in Nat : \E g : Reading(g, argvp, line, n)}
<1>1. 0 \in S
  <2> DEFINE g == [i \in 0 .. 0 |-> Beginning(argvp)]
  <2>1. Reading(g, argvp, line, 0)
    BY DEF Reading
  <2> QED BY <2>1
<1>2. ASSUME NEW n \in Nat, n \in S PROVE n + 1 \in S
  <2>1. PICK g : Reading(g, argvp, line, n)
    BY <1>2
  <2> DEFINE h == [i \in 0 .. n + 1 |-> IF i = n + 1 THEN getline_char(g[n], line[n + 1]) ELSE g[i]]
  <2>2. \A i \in 0 .. n + 1 : h[i] = IF i = 0 THEN Beginning(argvp) ELSE getline_char(h[i - 1], line[i])
    <3> SUFFICES ASSUME NEW i \in 0 .. n + 1
                 PROVE  h[i] = IF i = 0 THEN Beginning(argvp) ELSE getline_char(h[i - 1], line[i])
      OBVIOUS
    <3>1. CASE i = n + 1
      BY <3>1
    <3>2. CASE i # n + 1
      <4>1. i \in 0 .. n /\ h[i] = g[i] /\ (i # 0 => i - 1 \in 0 .. n /\ h[i - 1] = g[i - 1])
        BY <3>2
      <4> QED BY <2>1, <4>1 DEF Reading
    <3> QED BY <3>1, <3>2
  <2>3. Reading(h, argvp, line, n + 1)
    BY <2>2 DEF Reading
  <2> QED BY <2>3
<1> HIDE DEF S
<1>3. Nat \subseteq S
  BY <1>1, <1>2, Inductive
<1> QED BY <1>3 DEF S

LEMMA GetlineReads ==
    ASSUME NEW argvp, NEW line \in Seq(STRING)
    PROVE  \E g : /\ g[0] = Beginning(argvp)
                  /\ \A n \in 1 .. Len(line) : g[n] = getline_char(g[n - 1], line[n])
                  /\ getline(argvp, line) = g[Len(line)]
<1> DEFINE g == CHOOSE g : Reading(g, argvp, line, Len(line))
<1>1. Reading(g, argvp, line, Len(line))
  BY ReadingExists
<1>2. getline(argvp, line) = g[Len(line)]
  BY DEF getline, Reading, Beginning
<1> HIDE DEF g
<1>3. 0 \in 0 .. Len(line) /\ \A n \in 1 .. Len(line) : n # 0 /\ n \in 0 .. Len(line)
  OBVIOUS
<1>4. g[0] = Beginning(argvp) /\ \A n \in 1 .. Len(line) : g[n] = getline_char(g[n - 1], line[n])
  BY <1>1, <1>3 DEF Reading
<1> QED BY <1>2, <1>4

-----------------------------------------------------------------------------
(* The words of a line                                                     *)

Held(argvp, row, w) ==
    /\ \A i \in 1 .. Len(w) : argvp[row * ARG_MAX + i - 1] = w[i]
    /\ argvp[row * ARG_MAX + Len(w)] = NUL

LEMMA Ranks ==
    ASSUME NEW line \in Seq(STRING), NEW n \in Nat
    PROVE  /\ Rank(line, n) \in Nat /\ Rank(line, n) <= Cardinality(Begins(line))
           /\ Rank(line, n + 1) = IF n + 1 \in Begins(line) THEN Rank(line, n) + 1 ELSE Rank(line, n)
           /\ \A m \in Nat : m <= n => Rank(line, m) <= Rank(line, n)
           /\ Rank(line, 0) = 0 /\ Rank(line, Len(line)) = Cardinality(Begins(line))
           /\ Cardinality(Begins(line)) \in Nat
<1> DEFINE B == Begins(line)
           Upto(m) == {a \in B : a <= m}
<1>1. B \subseteq 1 .. Len(line)
  BY DEF Begins
<1>2. IsFiniteSet(B)
  <2>1. IsFiniteSet(1 .. Len(line))
    BY FS_Interval
  <2> QED BY <1>1, <2>1, FS_Subset
<1> HIDE DEF B
<1>3. \A m \in Nat : IsFiniteSet(Upto(m)) /\ Cardinality(Upto(m)) <= Cardinality(B)
  BY <1>2, FS_Subset
<1>4. Cardinality(B) \in Nat /\ \A m \in Nat : Cardinality(Upto(m)) \in Nat
  BY <1>2, <1>3, FS_CardinalityType
<1>5. Cardinality(Upto(n + 1)) = IF n + 1 \in B THEN Cardinality(Upto(n)) + 1 ELSE Cardinality(Upto(n))
  <2>1. (\A a \in B : a <= n + 1 <=> a <= n \/ a = n + 1) /\ n + 1 \notin Upto(n) /\ n + 1 <= n + 1
    BY <1>1
  <2>2. CASE n + 1 \in B
    <3>1. Upto(n + 1) = Upto(n) \cup {n + 1}
      BY <2>1, <2>2
    <3> QED BY <1>3, <2>1, <2>2, <3>1, FS_AddElement
  <2>3. CASE n + 1 \notin B
    <3>1. Upto(n + 1) = Upto(n)
      BY <2>1, <2>3
    <3> QED BY <2>3, <3>1
  <2> QED BY <2>2, <2>3
<1>6. \A m \in Nat : m <= n => Cardinality(Upto(m)) <= Cardinality(Upto(n))
  <2> SUFFICES ASSUME NEW m \in Nat, m <= n PROVE Cardinality(Upto(m)) <= Cardinality(Upto(n))
    OBVIOUS
  <2>1. \A a \in B : a <= m => a <= n
    BY <1>1
  <2>2. Upto(m) \subseteq Upto(n)
    BY <2>1
  <2> QED BY <1>3, <2>2, FS_Subset
<1>7. Upto(0) = {} /\ Upto(Len(line)) = B
  <2>1. Len(line) \in Nat
    OBVIOUS
  <2>2. \A a \in B : a \in Nat /\ a # 0 /\ a <= Len(line) /\ ~(a <= 0)
    BY <1>1, <2>1
  <2>3. Upto(0) = {}
    BY <2>2
  <2>4. Upto(Len(line)) = B
    BY <2>2
  <2> QED BY <2>3, <2>4
<1>8. Cardinality(Upto(0)) = 0
  BY <1>7, FS_EmptySet
<1>9. \A m : Rank(line, m) = Cardinality(Upto(m))
  BY DEF Rank, B
<1> QED BY <1>3, <1>4, <1>5, <1>6, <1>7, <1>8, <1>9 DEF B

\* The word that begins at b is the one at its rank.
LEMMA WordOfRank ==
    ASSUME NEW line \in Seq(STRING), NEW b \in Begins(line)
    PROVE  /\ Rank(line, b) \in DOMAIN Words(line) /\ Words(line)[Rank(line, b)] = WordAt(line, b)
           /\ Len(Words(line)) = Cardinality(Begins(line))
<1>1. b \in 1 .. Len(line) /\ Begins(line) \subseteq Nat
  BY DEF Begins
<1>2. \A a \in Begins(line) : Rank(line, a) = Rank(line, b) => a = b
  <2>1. ASSUME NEW x \in Begins(line), NEW y \in Begins(line), x < y PROVE Rank(line, x) < Rank(line, y)
    <3>1. y - 1 \in Nat /\ x \in Nat /\ x <= y - 1 /\ (y - 1) + 1 = y
      BY <1>1, <2>1
    <3>2. Rank(line, y) = Rank(line, y - 1) + 1 /\ Rank(line, x) <= Rank(line, y - 1)
          /\ Rank(line, x) \in Nat /\ Rank(line, y - 1) \in Nat
      BY <3>1, Ranks
    <3> QED BY <3>2
  <2>2. \A a \in Begins(line) : a \in Nat /\ b \in Nat /\ Rank(line, a) \in Nat /\ Rank(line, b) \in Nat
    BY <1>1, Ranks
  <2> QED BY <2>1, <2>2
<1>3. Rank(line, b) \in 1 .. Cardinality(Begins(line))
  <2>1. b - 1 \in Nat /\ (b - 1) + 1 = b
    BY <1>1
  <2> QED BY <2>1, Ranks
<1>4. (CHOOSE a \in Begins(line) : Rank(line, a) = Rank(line, b)) = b
  BY <1>2
<1>5. Cardinality(Begins(line)) \in Nat
  BY <1>1, Ranks
<1> DEFINE n == Cardinality(Begins(line))
           W(k) == WordAt(line, CHOOSE a \in Begins(line) : Rank(line, a) = k)
<1>6. Words(line) = [k \in 1 .. n |-> W(k)] /\ W(Rank(line, b)) = WordAt(line, b)
  BY <1>4 DEF Words
<1> HIDE DEF n, W
<1>7. Len(Words(line)) = n /\ DOMAIN Words(line) = 1 .. n
  BY <1>5, <1>6 DEF n
<1> QED BY <1>3, <1>6, <1>7 DEF n

\* It ends in front of the next separator.
LEMMA WordEnds ==
    ASSUME NEW line \in Seq(STRING), NEW b \in Begins(line), NEW e \in b .. Len(line),
           \A i \in b .. e : line[i] \notin Separators
    PROVE  /\ WordAt(line, b) \in Seq(STRING) /\ Len(WordAt(line, b)) >= e - b + 1
           /\ \A i \in DOMAIN WordAt(line, b) : \E j \in DOMAIN line : WordAt(line, b)[i] = line[j]
           /\ e < Len(line) /\ line[e + 1] \in Separators => WordAt(line, b) = SubSeq(line, b, e)
<1> DEFINE IsEnd(x) == /\ \A i \in b .. x : line[i] \notin Separators
                       /\ x < Len(line) => line[x + 1] \in Separators
           end == CHOOSE x \in b .. Len(line) : IsEnd(x)
<1>1. b \in 1 .. Len(line)
  BY DEF Begins
<1>2. \E x \in b .. Len(line) : IsEnd(x)
  <2> DEFINE S == {x \in b .. Len(line) : x < Len(line) => line[x + 1] \in Separators}
  <2>1. S \in SUBSET Nat /\ Len(line) \in S
    BY <1>1
  <2>2. PICK x \in S : \A y \in S : x <= y
    <3> HIDE DEF S
    <3> QED BY <2>1, Least
  <2>3. \A i \in b .. x : line[i] \notin Separators
    <3> SUFFICES ASSUME NEW i \in b .. x PROVE line[i] \notin Separators
      OBVIOUS
    <3>1. CASE i = b
      BY <3>1 DEF Begins
    <3>2. CASE i # b
      <4>1. i - 1 \in b .. Len(line) /\ ~(x <= i - 1) /\ i - 1 < Len(line) /\ (i - 1) + 1 = i
        BY <1>1, <2>2, <3>2
      <4> QED BY <2>2, <4>1
    <3> QED BY <3>1, <3>2
  <2> QED BY <2>2, <2>3
<1>3. end \in b .. Len(line) /\ IsEnd(end)
  BY <1>2
<1>4. WordAt(line, b) = SubSeq(line, b, end)
  BY DEF WordAt
<1> HIDE DEF end
<1>5. /\ SubSeq(line, b, end) \in Seq(STRING) /\ Len(SubSeq(line, b, end)) = end - b + 1
      /\ \A i \in DOMAIN SubSeq(line, b, end) : \E j \in DOMAIN line : SubSeq(line, b, end)[i] = line[j]
  <2>1. SubSeq(line, b, end) = [i \in 1 .. end - b + 1 |-> line[b + i - 1]]
    BY <1>1, <1>3
  <2>2. \A i \in 1 .. end - b + 1 : b + i - 1 \in DOMAIN line
    BY <1>1, <1>3
  <2>3. end - b + 1 \in Nat
    BY <1>1, <1>3
  <2> HIDE DEF IsEnd
  <2>4. \A i \in 1 .. end - b + 1 : line[b + i - 1] \in STRING
    BY <2>2
  <2>5. SubSeq(line, b, end) \in Seq(STRING)
    BY <2>1, <2>3, <2>4
  <2>6. DOMAIN SubSeq(line, b, end) = 1 .. end - b + 1
    BY <2>1
  <2> QED BY <2>1, <2>2, <2>3, <2>5, <2>6
<1>6. e <= end
  <2> SUFFICES ASSUME end < e PROVE FALSE
    BY <1>3
  <2>1. end < Len(line) /\ end + 1 \in b .. e
    BY <1>1, <1>3
  <2> QED BY <1>3, <2>1
<1>7. e < Len(line) /\ line[e + 1] \in Separators => e = end
  <2> SUFFICES ASSUME e < Len(line), line[e + 1] \in Separators, e < end PROVE FALSE
    BY <1>3, <1>6
  <2>1. e + 1 \in b .. end
    BY <1>1, <1>3
  <2> QED BY <1>3, <2>1
<1> QED BY <1>1, <1>3, <1>4, <1>5, <1>6, <1>7

\* Every word is one of the line's.
LEMMA WordsTyped ==
    ASSUME NEW line \in Seq(STRING), NEW k \in DOMAIN Words(line)
    PROVE  /\ Words(line)[k] \in Seq(STRING)
           /\ \A i \in DOMAIN Words(line)[k] : \E j \in DOMAIN line : Words(line)[k][i] = line[j]
<1> DEFINE S == {n \in Nat : \A r \in 1 .. Rank(line, n) : \E b \in Begins(line) : Rank(line, b) = r}
<1>1. 0 \in S
  BY Ranks
<1>2. ASSUME NEW n \in Nat, n \in S PROVE n + 1 \in S
  <2> SUFFICES ASSUME NEW r \in 1 .. Rank(line, n + 1) PROVE \E b \in Begins(line) : Rank(line, b) = r
    OBVIOUS
  <2>1. /\ Rank(line, n + 1) = IF n + 1 \in Begins(line) THEN Rank(line, n) + 1 ELSE Rank(line, n)
        /\ Rank(line, n) \in Nat
    BY Ranks
  <2>2. CASE r \in 1 .. Rank(line, n)
    BY <1>2, <2>2
  <2>3. CASE r \notin 1 .. Rank(line, n)
    BY <2>1, <2>3
  <2> QED BY <2>2, <2>3
<1> HIDE DEF S
<1>3. Nat \subseteq S
  BY <1>1, <1>2, Inductive
<1>4. Len(line) \in Nat /\ Rank(line, Len(line)) = Cardinality(Begins(line))
  BY Ranks
<1>5. Len(line) \in S
  BY <1>3, <1>4
<1>6. k \in 1 .. Rank(line, Len(line))
  BY <1>4 DEF Words
<1>7. PICK b \in Begins(line) : Rank(line, b) = k
  BY <1>5, <1>6 DEF S
<1>8. b \in b .. Len(line) /\ \A i \in b .. b : line[i] \notin Separators
  BY DEF Begins
<1> QED BY <1>7, <1>8, WordOfRank, WordEnds

\* Rows follow each other.
LEMMA RowInside ==
    ASSUME NEW k \in Nat, k < ARG_LENGTH, NEW j \in 0 .. ARG_MAX - 1
    PROVE  k * ARG_MAX + j \in 0 .. Size - 1
<1> USE UserAssumption
<1>1. k * ARG_MAX \in Nat /\ (ARG_LENGTH - 1) * ARG_MAX \in Nat /\ ARG_LENGTH * ARG_MAX \in Nat
  OBVIOUS
<1>2. k * ARG_MAX <= (ARG_LENGTH - 1) * ARG_MAX
  OBVIOUS
<1>3. (ARG_LENGTH - 1) * ARG_MAX = ARG_LENGTH * ARG_MAX - ARG_MAX
  OBVIOUS
<1> QED BY <1>1, <1>2, <1>3 DEF Size

LEMMA RowsApart ==
    ASSUME NEW k \in Nat, NEW m \in Nat, k < m, NEW j \in 0 .. ARG_MAX - 1
    PROVE  /\ k * ARG_MAX + j < m * ARG_MAX
           /\ k * ARG_MAX \in Nat /\ m * ARG_MAX \in Nat
<1> USE UserAssumption
<1>1. k * ARG_MAX \in Nat /\ (k + 1) * ARG_MAX \in Nat /\ m * ARG_MAX \in Nat
  OBVIOUS
<1>2. (k + 1) * ARG_MAX <= m * ARG_MAX
  OBVIOUS
<1>3. (k + 1) * ARG_MAX = k * ARG_MAX + ARG_MAX
  OBVIOUS
<1> QED BY <1>1, <1>2, <1>3

-----------------------------------------------------------------------------
(* getline                                                                 *)

IsArray(a) == a = [i \in 0 .. Size - 1 |-> a[i]]
IsRead(s) ==
    /\ s = [argvp |-> s.argvp, argc |-> s.argc, argc_ind |-> s.argc_ind, wild |-> s.wild]
    /\ IsArray(s.argvp) /\ s.argc \in Nat /\ s.argc_ind \in Nat /\ s.wild \in BOOLEAN

LEMMA Sizes == ARG_MAX \in Nat /\ ARG_LENGTH \in Nat /\ Size \in Nat /\ Size = ARG_LENGTH * ARG_MAX
BY UserAssumption DEF Size

\* One character: behind the rows, between words, or of a word.
LEMMA Char ==
    ASSUME NEW s, IsRead(s), NEW c,
           NEW t, t = getline_char(s, c), NEW at, at = s.argc * ARG_MAX + s.argc_ind
    PROVE  /\ IsRead(t) /\ at \in Nat
           /\ ~s.wild /\ at < Size /\ c \in Separators =>
                 /\ ~t.wild /\ t.argvp = [s.argvp EXCEPT ![at] = NUL]
                 /\ t.argc = (IF s.argc_ind # 0 THEN s.argc + 1 ELSE s.argc)
                 /\ t.argc_ind = 0
           /\ ~s.wild /\ at < Size /\ c \notin Separators =>
                 /\ ~t.wild /\ t.argvp = [s.argvp EXCEPT ![at] = c]
                 /\ t.argc = s.argc /\ t.argc_ind = s.argc_ind + 1
<1> USE UserAssumption
<1>1. at \in Nat /\ Size \in Nat
  <2>1. s.argc * ARG_MAX \in Nat /\ ARG_LENGTH * ARG_MAX \in Nat
    BY DEF IsRead
  <2> QED BY <2>1 DEF IsRead, Size
<1>2. CASE s.wild \/ at >= Size
  <2>1. t = [s EXCEPT !.wild = TRUE]
    BY <1>1, <1>2 DEF getline_char
  <2>2. t = [argvp |-> s.argvp, argc |-> s.argc, argc_ind |-> s.argc_ind, wild |-> TRUE]
    BY <2>1 DEF IsRead
  <2>3. IsRead(t)
    BY <2>2 DEF IsRead
  <2> QED BY <1>1, <1>2, <2>3
<1>3. CASE ~s.wild /\ at < Size /\ c \in Separators
  <2> DEFINE n == IF s.argc_ind # 0 THEN s.argc + 1 ELSE s.argc
             a == [s.argvp EXCEPT ![at] = NUL]
  <2>1. t = [s EXCEPT !.argvp = a, !.argc = n, !.argc_ind = 0]
    BY <1>1, <1>3 DEF getline_char, Terminated
  <2>2. n \in Nat /\ IsArray(a)
    <3>1. n \in Nat
      BY DEF IsRead
    <3>2. IsArray(a)
      BY DEF IsRead, IsArray
    <3> QED BY <3>1, <3>2
  <2> HIDE DEF n, a
  <2>3. t = [argvp |-> a, argc |-> n, argc_ind |-> 0, wild |-> s.wild]
    BY <2>1 DEF IsRead
  <2>4. IsRead(t) /\ ~t.wild /\ t.argvp = a /\ t.argc = n /\ t.argc_ind = 0
    BY <1>3, <2>2, <2>3 DEF IsRead
  <2> QED BY <1>1, <1>3, <2>4 DEF n, a
<1>4. CASE ~s.wild /\ at < Size /\ c \notin Separators
  <2> DEFINE n == s.argc_ind + 1
             a == [s.argvp EXCEPT ![at] = c]
  <2>1. t = [s EXCEPT !.argvp = a, !.argc_ind = n]
    BY <1>1, <1>4 DEF getline_char
  <2>2. n \in Nat /\ IsArray(a)
    <3>1. n \in Nat
      BY DEF IsRead
    <3>2. IsArray(a)
      BY DEF IsRead, IsArray
    <3> QED BY <3>1, <3>2
  <2> HIDE DEF n, a
  <2>3. t = [argvp |-> a, argc |-> s.argc, argc_ind |-> n, wild |-> s.wild]
    BY <2>1 DEF IsRead
  <2>4. IsRead(t) /\ ~t.wild /\ t.argvp = a /\ t.argc = s.argc /\ t.argc_ind = n
    BY <1>4, <2>2, <2>3 DEF IsRead
  <2> QED BY <1>1, <1>4, <2>4 DEF n, a
<1> QED BY <1>1, <1>2, <1>3, <1>4

LEMMA CharTyped ==
    ASSUME NEW s, IsRead(s), NEW c PROVE IsRead(getline_char(s, c))
<1> DEFINE t == getline_char(s, c)
           at == s.argc * ARG_MAX + s.argc_ind
<1>1. t = getline_char(s, c) /\ at = s.argc * ARG_MAX + s.argc_ind
  OBVIOUS
<1> HIDE DEF t, at
<1>2. IsRead(t)
  BY <1>1, Char
<1> QED BY <1>2 DEF t

\* After n characters: the words that have ended stand in their rows, and what
\* has been read of the present one in the next.
ReadSoFar(s, line, n) ==
    /\ ~s.wild /\ s.argc_ind <= n
    /\ s.argc + (IF s.argc_ind = 0 THEN 0 ELSE 1) = Rank(line, n)
    /\ \A i \in n - s.argc_ind + 1 .. n : line[i] \notin Separators
    /\ s.argc_ind > 0 => n - s.argc_ind + 1 \in Begins(line)
    /\ s.argc_ind = 0 /\ n > 0 => line[n] \in Separators
    /\ \A j \in 1 .. s.argc_ind : s.argvp[s.argc * ARG_MAX + j - 1] = line[n - s.argc_ind + j]
    /\ \A k \in 1 .. s.argc : Held(s.argvp, k - 1, Words(line)[k])

\* The next character has room.
LEMMA CharFits ==
    ASSUME NEW line \in Seq(STRING), Fits(line), NEW n \in Nat, n < Len(line),
           NEW s, IsRead(s), ReadSoFar(s, line, n)
    PROVE  /\ s.argc_ind < ARG_MAX /\ s.argc * ARG_MAX \in Nat
           /\ s.argc * ARG_MAX + s.argc_ind \in 0 .. Size - 1
           /\ \A k \in 1 .. s.argc : /\ Len(Words(line)[k]) \in 0 .. ARG_MAX - 1
                                     /\ (k - 1) * ARG_MAX \in Nat
                                     /\ \A j \in 0 .. ARG_MAX - 1 : (k - 1) * ARG_MAX + j < s.argc * ARG_MAX
<1> USE UserAssumption
<1>1. Rank(line, n) \in Nat /\ Rank(line, n) <= Cardinality(Begins(line)) /\ Cardinality(Begins(line)) \in Nat
  BY Ranks
<1>2. Len(Words(line)) = Cardinality(Begins(line)) /\ DOMAIN Words(line) = 1 .. Cardinality(Begins(line))
  BY <1>1 DEF Words
<1>3. s.argc \in Nat /\ s.argc_ind \in Nat /\ s.argc <= Len(Words(line)) /\ s.argc < ARG_LENGTH
  BY <1>1, <1>2 DEF ReadSoFar, IsRead, Fits
<1>4. s.argc_ind < ARG_MAX
  <2>1. CASE s.argc_ind = 0
    BY <2>1
  <2>2. CASE s.argc_ind # 0
    <3> DEFINE b == n - s.argc_ind + 1
    <3>1. b \in Begins(line) /\ n \in b .. Len(line) /\ \A i \in b .. n : line[i] \notin Separators
      BY <1>3, <2>2 DEF ReadSoFar
    <3>2. WordAt(line, b) \in Seq(STRING) /\ Len(WordAt(line, b)) >= n - b + 1 /\ n - b + 1 = s.argc_ind
      BY <1>3, <3>1, WordEnds
    <3>3. Len(WordAt(line, b)) < ARG_MAX
      BY <3>1, WordOfRank DEF Fits
    <3> QED BY <1>3, <3>2, <3>3
  <2> QED BY <2>1, <2>2
<1>5. s.argc * ARG_MAX + s.argc_ind \in 0 .. Size - 1 /\ s.argc * ARG_MAX \in Nat
  <2>1. s.argc_ind \in 0 .. ARG_MAX - 1
    BY <1>3, <1>4
  <2>2. s.argc * ARG_MAX \in Nat
    BY <1>3
  <2>3. s.argc * ARG_MAX + s.argc_ind \in 0 .. Size - 1
    BY <1>3, <2>1, RowInside
  <2> QED BY <2>2, <2>3
<1>6. ASSUME NEW k \in 1 .. s.argc
      PROVE  /\ Len(Words(line)[k]) \in 0 .. ARG_MAX - 1
             /\ (k - 1) * ARG_MAX \in Nat
             /\ \A j \in 0 .. ARG_MAX - 1 : (k - 1) * ARG_MAX + j < s.argc * ARG_MAX
  <2>1. k \in DOMAIN Words(line) /\ k - 1 \in Nat /\ k - 1 < s.argc
    BY <1>2, <1>3
  <2>2. Len(Words(line)[k]) < ARG_MAX
    BY <2>1 DEF Fits
  <2>3. Len(Words(line)[k]) \in Nat
    BY <2>1, WordsTyped
  <2>4. Len(Words(line)[k]) \in 0 .. ARG_MAX - 1
    BY <2>2, <2>3
  <2>5. (k - 1) * ARG_MAX \in Nat
    BY <2>1
  <2>6. \A j \in 0 .. ARG_MAX - 1 : (k - 1) * ARG_MAX + j < s.argc * ARG_MAX
    BY <1>3, <2>1, RowsApart
  <2> QED BY <2>4, <2>5, <2>6
<1> QED BY <1>4, <1>5, <1>6

LEMMA CharReads ==
    ASSUME NEW line \in Seq(STRING), Fits(line), NEW n \in Nat, n < Len(line),
           NEW s, IsRead(s), ReadSoFar(s, line, n), NEW t, t = getline_char(s, line[n + 1])
    PROVE  IsRead(t) /\ ReadSoFar(t, line, n + 1)
<1> DEFINE c == line[n + 1]
           at == s.argc * ARG_MAX + s.argc_ind
           base == s.argc * ARG_MAX
           m == s.argc
           i == s.argc_ind
           W == Words(line)
<1>0. ARG_MAX \in Nat /\ Size \in Nat
  BY Sizes
<1>1. /\ i < ARG_MAX /\ base \in Nat /\ at \in 0 .. Size - 1
      /\ \A k \in 1 .. m : /\ Len(W[k]) \in 0 .. ARG_MAX - 1 /\ (k - 1) * ARG_MAX \in Nat
                           /\ \A j \in 0 .. ARG_MAX - 1 : (k - 1) * ARG_MAX + j < base
  BY CharFits
<1>2. /\ IsRead(t)
      /\ c \in Separators => /\ ~t.wild /\ t.argvp = [s.argvp EXCEPT ![at] = NUL]
                             /\ t.argc = (IF i # 0 THEN m + 1 ELSE m) /\ t.argc_ind = 0
      /\ c \notin Separators => /\ ~t.wild /\ t.argvp = [s.argvp EXCEPT ![at] = c]
                                /\ t.argc = m /\ t.argc_ind = i + 1
  <2>1. ~s.wild /\ at < Size
    <3>1. Size \in Nat
      BY UserAssumption DEF Size
    <3> QED BY <1>1, <3>1 DEF ReadSoFar
  <2> QED BY <2>1, Char
<1>3. /\ i \in Nat /\ m \in Nat /\ i <= n /\ IsArray(s.argvp) /\ at = base + i
      /\ m + (IF i = 0 THEN 0 ELSE 1) = Rank(line, n)
      /\ \A x \in n - i + 1 .. n : line[x] \notin Separators
      /\ i > 0 => n - i + 1 \in Begins(line)
      /\ i = 0 /\ n > 0 => line[n] \in Separators
      /\ \A j \in 1 .. i : s.argvp[base + j - 1] = line[n - i + j]
      /\ \A k \in 1 .. m : Held(s.argvp, k - 1, W[k])
  BY DEF ReadSoFar, IsRead
<1> HIDE DEF base, at, m, i, W
<1>4. Rank(line, n + 1) = (IF n + 1 \in Begins(line) THEN Rank(line, n) + 1 ELSE Rank(line, n))
      /\ Rank(line, n) \in Nat
  BY Ranks
<1>5. n + 1 \in Begins(line) <=> c \notin Separators /\ i = 0
  <2>1. n + 1 \in DOMAIN line /\ (n + 1) - 1 = n /\ (n + 1 > 1 <=> n > 0)
    OBVIOUS
  <2>2. i # 0 => line[n] \notin Separators /\ n > 0
    BY <1>3
  <2> QED BY <1>3, <2>1, <2>2 DEF Begins
\* What is stored leaves the words in front of it alone.
<1>6. ASSUME NEW x, NEW k \in 1 .. m PROVE Held([s.argvp EXCEPT ![at] = x], k - 1, W[k])
  <2>1. Held(s.argvp, k - 1, W[k]) /\ Len(W[k]) \in 0 .. ARG_MAX - 1 /\ (k - 1) * ARG_MAX \in Nat
    BY <1>1, <1>3
  <2>2. ASSUME NEW j \in 0 .. ARG_MAX - 1
        PROVE  (k - 1) * ARG_MAX + j # at /\ (k - 1) * ARG_MAX + j \in 0 .. Size - 1
    <3> DEFINE r == (k - 1) * ARG_MAX
    <3>1. r \in Nat /\ r + j < base
      BY <1>1
    <3> HIDE DEF r
    <3>2. r + j # at /\ r + j \in 0 .. Size - 1
      BY <1>0, <1>1, <1>3, <3>1
    <3> QED BY <3>2 DEF r
  <2>3. \A j \in 0 .. ARG_MAX - 1 :
            [s.argvp EXCEPT ![at] = x][(k - 1) * ARG_MAX + j] = s.argvp[(k - 1) * ARG_MAX + j]
    BY <1>3, <2>2 DEF IsArray
  <2>4. \A y \in 1 .. Len(W[k]) : y - 1 \in 0 .. ARG_MAX - 1
                                 /\ (k - 1) * ARG_MAX + y - 1 = (k - 1) * ARG_MAX + (y - 1)
    <3> SUFFICES ASSUME NEW y \in 1 .. Len(W[k])
                 PROVE  y - 1 \in 0 .. ARG_MAX - 1
                        /\ (k - 1) * ARG_MAX + y - 1 = (k - 1) * ARG_MAX + (y - 1)
      OBVIOUS
    <3> DEFINE r == (k - 1) * ARG_MAX
               l == Len(W[k])
    <3>1. r \in Nat /\ l \in 0 .. ARG_MAX - 1 /\ y \in 1 .. l
      BY <2>1
    <3> HIDE DEF r, l
    <3>2. y - 1 \in 0 .. ARG_MAX - 1 /\ r + y - 1 = r + (y - 1)
      BY <1>0, <3>1
    <3> QED BY <3>2 DEF r
  <2> QED BY <2>1, <2>3, <2>4 DEF Held
<1>7. CASE c \notin Separators
  <2>1. t.argc + (IF t.argc_ind = 0 THEN 0 ELSE 1) = Rank(line, n + 1)
    BY <1>2, <1>3, <1>4, <1>5, <1>7
  <2>2. \A x \in (n + 1) - t.argc_ind + 1 .. n + 1 : line[x] \notin Separators
    BY <1>2, <1>3, <1>7
  <2>3. (n + 1) - t.argc_ind + 1 \in Begins(line)
    BY <1>2, <1>3, <1>5, <1>7
  <2>4. ASSUME NEW j \in 1 .. t.argc_ind
        PROVE  t.argvp[base + j - 1] = line[(n + 1) - t.argc_ind + j]
    <3>1. base + j - 1 \in 0 .. Size - 1 /\ t.argc_ind = i + 1
      BY <1>0, <1>1, <1>2, <1>3, <1>7
    <3>2. CASE j = i + 1
      <4>1. base + j - 1 = at /\ (n + 1) - t.argc_ind + j = n + 1
        BY <1>1, <1>3, <3>1, <3>2
      <4> QED BY <1>2, <1>3, <1>7, <3>1, <4>1 DEF IsArray
    <3>3. CASE j # i + 1
      <4>1. j \in 1 .. i /\ base + j - 1 # at /\ (n + 1) - t.argc_ind + j = n - i + j
        BY <1>1, <1>3, <3>1, <3>3
      <4> QED BY <1>2, <1>3, <1>7, <3>1, <4>1 DEF IsArray
    <3> QED BY <3>2, <3>3
  <2>5. ASSUME NEW k \in 1 .. t.argc PROVE Held(t.argvp, k - 1, W[k])
    <3>1. k \in 1 .. m /\ t.argvp = [s.argvp EXCEPT ![at] = c]
      BY <1>2, <1>7
    <3>2. Held([s.argvp EXCEPT ![at] = c], k - 1, W[k])
      BY <1>6, <3>1
    <3> QED BY <1>3, <3>1, <3>2
  <2>6. ~t.wild /\ t.argc_ind <= n + 1 /\ ~(t.argc_ind = 0) /\ t.argc = m
    BY <1>2, <1>3, <1>7
  <2> QED BY <1>2, <2>1, <2>2, <2>3, <2>4, <2>5, <2>6 DEF ReadSoFar, W, base, m
<1>8. CASE c \in Separators
  <2>1. t.argc + (IF t.argc_ind = 0 THEN 0 ELSE 1) = Rank(line, n + 1)
    BY <1>2, <1>3, <1>4, <1>5, <1>8
  <2>2. ASSUME NEW k \in 1 .. t.argc PROVE Held(t.argvp, k - 1, W[k])
    <3>1. CASE k \in 1 .. m
      <4>1. t.argvp = [s.argvp EXCEPT ![at] = NUL]
        BY <1>2, <1>8
      <4>2. Held([s.argvp EXCEPT ![at] = NUL], k - 1, W[k])
        BY <1>6, <3>1
      <4> QED BY <1>3, <3>1, <4>1, <4>2
    <3>2. CASE k = m + 1 /\ i > 0
      <4> DEFINE b == n - i + 1
      <4>1. b \in Begins(line) /\ n \in b .. Len(line) /\ (\A x \in b .. n : line[x] \notin Separators)
            /\ n < Len(line) /\ b \in Nat
        BY <1>3, <3>2
      <4>2. WordAt(line, b) = SubSeq(line, b, n)
        BY <1>8, <4>1, WordEnds
      <4>3. Rank(line, b) = k
        <5>1. Rank(line, n) = m + 1
          BY <1>3, <3>2
        <5>2. \A x \in Begins(line) : x \in DOMAIN line /\ (x > 1 => line[x - 1] \in Separators)
          BY DEF Begins
        <5> HIDE DEF b
        <5>3. ASSUME NEW x \in Begins(line), x <= n, ~(x <= b) PROVE FALSE
          <6>1. x - 1 \in b .. n /\ x > 1
            BY <4>1, <5>2, <5>3
          <6> QED BY <4>1, <5>2, <6>1
        <5>4. \A x \in Begins(line) : x <= n <=> x <= b
          BY <4>1, <5>2, <5>3
        <5>5. {x \in Begins(line) : x <= n} = {x \in Begins(line) : x <= b}
          BY <5>4
        <5> QED BY <3>2, <5>1, <5>5 DEF Rank
      <4>4. W[k] = SubSeq(line, b, n)
        BY <4>1, <4>2, <4>3, WordOfRank DEF W
      <4>5. Len(W[k]) = i /\ \A y \in 1 .. i : W[k][y] = line[n - i + y]
        BY <1>3, <4>1, <4>4
      <4>6. \A y \in 1 .. i : base + y - 1 # at /\ base + y - 1 \in 0 .. Size - 1
        BY <1>0, <1>1, <1>3
      <4>7. t.argvp[at] = NUL /\ \A y \in 1 .. i : t.argvp[base + y - 1] = s.argvp[base + y - 1]
        BY <1>1, <1>2, <1>3, <1>8, <4>6 DEF IsArray
      <4>8. (k - 1) * ARG_MAX = base
        <5>1. k - 1 = m
          BY <1>3, <3>2
        <5> QED BY <5>1 DEF base, m
      <4> HIDE DEF b
      <4> QED BY <1>3, <4>5, <4>7, <4>8 DEF Held
    <3> QED BY <1>2, <1>3, <1>8, <3>1, <3>2
  <2>3. ~t.wild /\ t.argc_ind = 0
    BY <1>2, <1>8
  <2> QED BY <1>2, <1>8, <2>1, <2>2, <2>3 DEF ReadSoFar, W, base, m
<1> QED BY <1>2, <1>7, <1>8

\* A line that fits is read into its words.
LEMMA GetlineRight ==
    ASSUME NEW argvp, IsArray(argvp), NEW line \in Seq(STRING)
    PROVE  LET s == getline(argvp, line) IN
           /\ IsRead(s)
           /\ Fits(line) =>
                 /\ ~s.wild /\ s.argc = Len(Words(line))
                 /\ \A k \in 1 .. s.argc : Held(s.argvp, k - 1, Words(line)[k])
<1>1. PICK g : /\ g[0] = Beginning(argvp)
               /\ \A n \in 1 .. Len(line) : g[n] = getline_char(g[n - 1], line[n])
               /\ getline(argvp, line) = g[Len(line)]
  BY GetlineReads
<1> DEFINE s == g[Len(line)]
           S == {n \in Nat : n <= Len(line) => /\ IsRead(g[n])
                                               /\ Fits(line) => ReadSoFar(g[n], line, n)}
<1>2. 0 \in S
  <2>1. IsRead(Beginning(argvp))
    BY DEF IsRead, Beginning
  <2>2. Beginning(argvp).argc = 0 /\ Beginning(argvp).argc_ind = 0 /\ ~Beginning(argvp).wild
    BY DEF Beginning
  <2> HIDE DEF s
  <2>3. ReadSoFar(Beginning(argvp), line, 0)
    BY <2>2, Ranks DEF ReadSoFar
  <2> QED BY <1>1, <2>1, <2>3
<1>3. ASSUME NEW n \in Nat, n \in S PROVE n + 1 \in S
  <2> SUFFICES ASSUME n + 1 <= Len(line)
               PROVE  IsRead(g[n + 1]) /\ (Fits(line) => ReadSoFar(g[n + 1], line, n + 1))
    OBVIOUS
  <2>1. IsRead(g[n]) /\ (Fits(line) => ReadSoFar(g[n], line, n)) /\ n < Len(line)
    BY <1>3
  <2>2. n + 1 \in 1 .. Len(line) /\ (n + 1) - 1 = n
    OBVIOUS
  <2>3. g[n + 1] = getline_char(g[n], line[n + 1])
    BY <1>1, <2>2
  <2> HIDE DEF S
  <2>4. IsRead(g[n + 1])
    BY <2>1, <2>3, CharTyped
  <2> QED BY <2>1, <2>3, <2>4, CharReads
<1>4. Len(line) \in S
  <2> HIDE DEF S
  <2>1. Nat \subseteq S
    BY <1>2, <1>3, Inductive
  <2> QED BY <2>1
<1>5. IsRead(s) /\ (Fits(line) => ReadSoFar(s, line, Len(line)))
  BY <1>4
<1> HIDE DEF s, S
<1>6. ASSUME Fits(line) PROVE s.argc_ind = 0 /\ s.argc = Len(Words(line))
  <2>1. Len(line) > 0 /\ line[Len(line)] \in Separators
    BY <1>6 DEF Fits, Last, Separators
  <2>2. s.argc_ind = 0
    <3> SUFFICES ASSUME s.argc_ind # 0 PROVE FALSE
      OBVIOUS
    <3>1. Len(line) \in Len(line) - s.argc_ind + 1 .. Len(line)
      BY <1>5, <1>6 DEF ReadSoFar, IsRead
    <3> QED BY <1>5, <1>6, <2>1, <3>1 DEF ReadSoFar
  <2>3. s.argc = Rank(line, Len(line)) /\ Rank(line, Len(line)) = Cardinality(Begins(line))
        /\ Cardinality(Begins(line)) \in Nat
    BY <1>5, <1>6, <2>2, Ranks DEF ReadSoFar, IsRead
  <2> QED BY <2>2, <2>3 DEF Words
<1> QED BY <1>1, <1>5, <1>6 DEF ReadSoFar, s

-----------------------------------------------------------------------------
(* What the child of a fork hands to execve                                *)

\* A row is read as the word that it holds.
LEMMA RowIsWord ==
    ASSUME NEW argvp, NEW k \in Nat, k < ARG_LENGTH, NEW w \in Seq(STRING), Len(w) < ARG_MAX,
           Held(argvp, k, w), \A i \in DOMAIN w : w[i] # NUL
    PROVE  /\ Word(argvp, k) = w
           /\ IsWord(argvp, k, <<"&">>) <=> w = <<"&">>
<1> DEFINE from == k * ARG_MAX
           l == Len(w)
<1>1. /\ from \in Nat /\ l \in Nat /\ Size \in Nat /\ from + l <= Size - 1 /\ ARG_MAX >= 2 /\ from + 1 < Size
  <2>1. ARG_MAX \in Nat /\ ARG_MAX >= 2 /\ Size \in Nat
    BY Sizes, UserAssumption
  <2>2. l \in 0 .. ARG_MAX - 1 /\ 0 \in 0 .. ARG_MAX - 1 /\ 1 \in 0 .. ARG_MAX - 1
    BY <2>1
  <2> HIDE DEF l
  <2>3. from + l \in 0 .. Size - 1 /\ from + 1 \in 0 .. Size - 1
    BY <2>2, RowInside
  <2>4. from \in Nat
    BY <2>1
  <2> HIDE DEF from
  <2> QED BY <2>1, <2>2, <2>3, <2>4
<1>2. (\A i \in 1 .. l : argvp[from + i - 1] = w[i] /\ w[i] # NUL) /\ argvp[from + l] = NUL
  BY DEF Held
<1> HIDE DEF from
<1>3. Word(argvp, k) = w
  <2> DEFINE ends == {i \in from .. Size - 1 : argvp[i] = NUL}
             end == IF ends = {} THEN Size ELSE CHOOSE i \in ends : \A j \in ends : i <= j
  <2>1. from + l \in ends
    BY <1>1, <1>2
  <2>2. ASSUME NEW j \in ends PROVE from + l <= j
    <3> SUFFICES ASSUME j < from + l PROVE FALSE
      BY <1>1
    <3>1. j - from + 1 \in 1 .. l /\ from + (j - from + 1) - 1 = j
      BY <1>1
    <3> QED BY <1>2, <3>1
  <2>3. ends # {} /\ \A j \in ends : j \in Int
    BY <1>1, <2>1
  <2>4. end = from + l
    <3> HIDE DEF ends
    <3>1. \A i \in ends : (\A j \in ends : i <= j) => i = from + l
      BY <1>1, <2>1, <2>2, <2>3
    <3> QED BY <2>1, <2>2, <2>3, <3>1
  <2>5. Word(argvp, k) = [i \in 1 .. end - from |-> argvp[from + i - 1]]
    BY DEF Word, String, from
  <2> HIDE DEF end
  <2>6. end - from = l
    BY <1>1, <2>4
  <2>7. w = [i \in 1 .. l |-> w[i]]
    OBVIOUS
  <2>8. [i \in 1 .. l |-> argvp[from + i - 1]] = [i \in 1 .. l |-> w[i]]
    BY <1>2
  <2> QED BY <2>5, <2>6, <2>7, <2>8
<1>4. IsWord(argvp, k, <<"&">>) <=> argvp[from] = "&" /\ argvp[from + 1] = NUL
  <2>1. DOMAIN <<"&">> = {1} /\ Len(<<"&">>) = 1 /\ <<"&">>[1] = "&"
    OBVIOUS
  <2>2. from + 1 - 1 = from
    BY <1>1
  <2> QED BY <1>1, <2>1, <2>2 DEF IsWord, from
<1>5. NUL # "&"
  BY DEF NUL
<1>6. CASE l = 0
  <2>1. argvp[from] = NUL /\ w # <<"&">>
    BY <1>1, <1>2, <1>6
  <2> QED BY <1>3, <1>4, <1>5, <2>1
<1>7. CASE l = 1
  <2>1. argvp[from] = w[1] /\ argvp[from + 1] = NUL
    BY <1>1, <1>2, <1>7
  <2>2. w = <<"&">> <=> w[1] = "&"
    BY <1>7
  <2> QED BY <1>3, <1>4, <2>1, <2>2
<1>8. CASE l >= 2
  <2>1. 2 \in 1 .. l /\ from + 2 - 1 = from + 1
    BY <1>1, <1>8
  <2>2. argvp[from + 1] # NUL /\ w # <<"&">>
    BY <1>2, <1>8, <2>1
  <2> QED BY <1>3, <1>4, <2>2
<1> QED BY <1>1, <1>6, <1>7, <1>8

IsPointers(a) == a = [i \in 0 .. ARG_MAX - 1 |-> a[i]]

\* The rows hold the words of the line.
HasWords(s) ==
    /\ s.argc = Len(Words(s.line)) /\ s.argc > 0
    /\ \A k \in 1 .. s.argc : Held(s.argvp, k - 1, Words(s.line)[k])

\* And execve_argv points to them, up to a last "&".
Detaches(line) == Last(Words(line)) = <<"&">>
HasPointers(s) ==
    /\ s.execve_argv[s.argc] = NULL
    /\ \A i \in 0 .. s.argc - 1 : i < s.argc - 1 \/ ~Detaches(s.line) => s.execve_argv[i] = i

\* What a shell, or its child in front of execve, has in memory.
ShellRight(s) == s.prog = "ush" =>
    /\ s.line \in Lines \cup {<<>>} /\ IsArray(s.argvp) /\ s.argc \in Nat /\ IsPointers(s.execve_argv)
    /\ Fits(s.line) =>
          /\ s.pc # "wild"
          /\ s.pc \in {"command", "fork", "exec"} => HasWords(s)
          /\ s.pc \in {"fork", "exec"} => HasPointers(s)

\* The words of a line that fits.
LEMMA FitsWords ==
    ASSUME NEW line \in Lines \cup {<<>>}, Fits(line)
    PROVE  /\ line \in Lines /\ line \in Seq(STRING)
           /\ Len(Words(line)) \in Nat /\ DOMAIN Words(line) = 1 .. Len(Words(line))
           /\ Words(line) = [k \in 1 .. Len(Words(line)) |-> Words(line)[k]]
           /\ Len(Words(line)) < ARG_MAX /\ Len(Words(line)) < ARG_LENGTH
           /\ \A k \in 1 .. Len(Words(line)) :
                 /\ Words(line)[k] \in Seq(STRING) /\ Len(Words(line)[k]) < ARG_MAX
                 /\ \A i \in DOMAIN Words(line)[k] : Words(line)[k][i] # NUL
<1>1. line \in Lines /\ line \in Seq(STRING)
  BY UserAssumption DEF Fits
<1>2. Cardinality(Begins(line)) \in Nat
  BY <1>1, Ranks
<1>3. /\ Len(Words(line)) = Cardinality(Begins(line)) /\ DOMAIN Words(line) = 1 .. Cardinality(Begins(line))
      /\ Words(line) = [k \in 1 .. Cardinality(Begins(line)) |-> Words(line)[k]]
  BY <1>2 DEF Words
<1>4. Len(Words(line)) < ARG_MAX /\ Len(Words(line)) < ARG_LENGTH
  BY DEF Fits
<1>5. ASSUME NEW k \in DOMAIN Words(line)
      PROVE  /\ Words(line)[k] \in Seq(STRING) /\ Len(Words(line)[k]) < ARG_MAX
             /\ \A i \in DOMAIN Words(line)[k] : Words(line)[k][i] # NUL
  <2>1. \A j \in DOMAIN line : line[j] # NUL
    BY DEF Fits
  <2>2. Len(Words(line)[k]) < ARG_MAX
    BY DEF Fits
  <2> QED BY <1>1, <2>1, <2>2, WordsTyped
<1> QED BY <1>1, <1>2, <1>3, <1>4, <1>5

LEMMA RightArguments ==
    ASSUME NEW p \in DOMAIN procs, ShellRight(procs[p]), procs[p].prog = "ush", Fits(procs[p].line)
    PROVE  /\ procs[p].pc # "wild"
           /\ procs[p].pc = "exec" =>
                  LET words == Words(procs[p].line)
                  IN  IF Last(words) = <<"&">>
                      THEN IsPrefix(Front(words), Arguments(p))
                      ELSE Arguments(p) = words
<1> DEFINE s == procs[p]
           a == s.execve_argv
           W == Words(s.line)
           m == s.argc
<1>1. s.pc # "wild" /\ s.line \in Lines \cup {<<>>} /\ IsPointers(a)
  BY DEF ShellRight
<1> SUFFICES ASSUME s.pc = "exec"
             PROVE  IF Detaches(s.line) THEN IsPrefix(Front(W), Arguments(p)) ELSE Arguments(p) = W
  BY <1>1 DEF Detaches
<1>2. /\ m = Len(W) /\ m > 0 /\ (\A k \in 1 .. m : Held(s.argvp, k - 1, W[k]))
      /\ a[m] = NULL /\ \A i \in 0 .. m - 1 : i < m - 1 \/ ~Detaches(s.line) => a[i] = i
  BY DEF ShellRight, HasWords, HasPointers
<1>3. /\ Len(W) \in Nat /\ W = [k \in 1 .. Len(W) |-> W[k]] /\ Len(W) < ARG_MAX /\ Len(W) < ARG_LENGTH
      /\ \A k \in 1 .. Len(W) : /\ W[k] \in Seq(STRING) /\ Len(W[k]) < ARG_MAX
                                /\ \A i \in DOMAIN W[k] : W[k][i] # NUL
  BY <1>1, FitsWords
<1> HIDE DEF W, m, a
<1>4. ASSUME NEW k \in 1 .. m PROVE Word(s.argvp, k - 1) = W[k]
  <2>1. k - 1 \in Nat /\ k - 1 < ARG_LENGTH
    BY <1>2, <1>3, Sizes
  <2> QED BY <1>2, <1>3, <2>1, RowIsWord
<1> DEFINE n == CHOOSE i \in DOMAIN a : a[i] = NULL /\ \A j \in 0 .. i - 1 : a[j] # NULL
           A == [i \in 1 .. n |-> IF a[i - 1] = Uninitialised THEN <<>> ELSE Word(s.argvp, a[i - 1])]
<1>5. Arguments(p) = A
  BY DEF Arguments, a
<1>6. DOMAIN a = 0 .. ARG_MAX - 1 /\ m \in 0 .. ARG_MAX - 1
  BY <1>1, <1>2, <1>3, Sizes DEF IsPointers
<1>7. \A i \in 0 .. m - 1 : i # NULL /\ i # Uninitialised
  BY <1>2, <1>3 DEF NULL, Uninitialised
<1>8. \E i \in m - 1 .. m : i \in DOMAIN a /\ a[i] = NULL /\ \A j \in 0 .. i - 1 : a[j] # NULL
  <2> m \in Nat /\ m - 1 \in m - 1 .. m /\ m \in m - 1 .. m
    BY <1>2, <1>3
  <2>3. \A j \in 0 .. (m - 1) - 1 : j \in 0 .. m - 1 /\ j < m - 1
    OBVIOUS
  <2>4. \A j \in 0 .. (m - 1) - 1 : a[j] # NULL
    BY <1>2, <1>7, <2>3
  <2>1. CASE a[m - 1] = NULL
    <3>1. m - 1 \in 0 .. ARG_MAX - 1
      BY <1>2, <1>6, Sizes
    <3> QED BY <1>6, <2>1, <2>4, <3>1
  <2>2. CASE a[m - 1] # NULL
    <3>1. \A j \in 0 .. m - 1 : j = m - 1 \/ j \in 0 .. (m - 1) - 1
      OBVIOUS
    <3> QED BY <1>2, <1>6, <2>2, <2>4, <3>1
  <2> QED BY <2>1, <2>2
<1>9. n \in DOMAIN a /\ a[n] = NULL /\ \A j \in 0 .. n - 1 : a[j] # NULL
  BY <1>8
<1> HIDE DEF n
<1>10. n \in m - 1 .. m
  <2>1. PICK i \in m - 1 .. m : i \in DOMAIN a /\ a[i] = NULL /\ \A j \in 0 .. i - 1 : a[j] # NULL
    BY <1>8
  <2>2. i = n
    BY <1>2, <1>3, <1>6, <1>9, <2>1
  <2> QED BY <2>1, <2>2
<1>11. CASE ~Detaches(s.line)
  <2>1. n = m
    BY <1>2, <1>3, <1>7, <1>9, <1>10, <1>11
  <2>2. \A i \in 1 .. m : a[i - 1] = i - 1 /\ i - 1 # Uninitialised
    <3> SUFFICES ASSUME NEW i \in 1 .. m PROVE a[i - 1] = i - 1 /\ i - 1 # Uninitialised
      OBVIOUS
    <3>1. i - 1 \in 0 .. m - 1
      BY <1>2, <1>3
    <3> QED BY <1>2, <1>7, <1>11, <3>1
  <2>3. A = [i \in 1 .. m |-> W[i]]
    BY <1>4, <2>1, <2>2
  <2> QED BY <1>2, <1>3, <1>5, <1>11, <2>3
<1>12. CASE Detaches(s.line)
  <2>1. \A i \in 1 .. m - 1 : a[i - 1] = i - 1 /\ i - 1 # Uninitialised
    BY <1>2, <1>3, <1>7
  <2>2. n \in Nat /\ m - 1 \in Nat /\ m - 1 <= n
    BY <1>2, <1>3, <1>10
  <2>3. \A i \in 1 .. m - 1 : i \in 1 .. n /\ A[i] = W[i]
    BY <1>2, <1>3, <1>4, <2>1, <2>2
  <2>4. Len(A) = n
    BY <2>2
  <2>5. Front(W) = [i \in 1 .. m - 1 |-> W[i]]
    BY <1>2, <1>3 DEF Front
  <2>6. Len(Front(W)) = m - 1
    BY <2>2, <2>5
  <2>7. SubSeq(Front(W), 1, m - 1) = [i \in 1 .. m - 1 |-> W[i]]
    BY <2>2, <2>5
  <2>8. SubSeq(A, 1, m - 1) = [i \in 1 .. m - 1 |-> A[i]]
    BY <2>2
  <2> HIDE DEF A
  <2>9. [i \in 1 .. m - 1 |-> W[i]] = [i \in 1 .. m - 1 |-> A[i]]
    BY <2>3
  <2> QED BY <1>5, <1>12, <2>2, <2>4, <2>6, <2>7, <2>8, <2>9 DEF IsPrefix
<1> QED BY <1>11, <1>12

-----------------------------------------------------------------------------
(* What steps leave in memory                                              *)

AllRight(T) == \A q \in DOMAIN T : ShellRight(T[q])

ProcsTyped == \A p \in DOMAIN procs : IsProcess(procs[p])

\* Where a process came from does not matter, nor its children.
LEMMA SameMemory ==
    ASSUME NEW s, IsProcess(s), ShellRight(s), NEW n
    PROVE  ShellRight([s EXCEPT !.child = n]) /\ ShellRight([s EXCEPT !.parent = n])
BY DEF IsProcess, Fields, ShellRight, HasWords, HasPointers

LEMMA NotFits == ~Fits(<<>>)
BY DEF Fits

\* A program that begins.
LEMMA BeginsRight ==
    ASSUME NEW prog, NEW pc, NEW parent, NEW d
    PROVE  ShellRight([Process(prog, pc, parent) EXCEPT !.detached = d])
<1> DEFINE s == [Process(prog, pc, parent) EXCEPT !.detached = d]
<1>1. s.line = <<>> /\ s.argc = 0 /\ s.argvp = [i \in 0 .. Size - 1 |-> NUL]
      /\ s.execve_argv = [i \in 0 .. ARG_MAX - 1 |-> Uninitialised]
  BY DEF Process
<1> HIDE DEF s
<1>2. IsArray(s.argvp) /\ IsPointers(s.execve_argv)
  BY <1>1 DEF IsArray, IsPointers
<1>3. ShellRight(s)
  BY <1>1, <1>2, NotFits DEF ShellRight
<1> QED BY <1>3 DEF s

\* A shell that is back at its prompt.
LEMMA PromptRight ==
    ASSUME NEW s, IsProcess(s), s.prog = "ush", IsArray(s.argvp), IsPointers(s.execve_argv)
    PROVE  ShellRight(Prompt(s))
<1> DEFINE t == Prompt(s)
<1>1. t.line = <<>> /\ t.argc = 0 /\ t.argvp = s.argvp /\ t.execve_argv = s.execve_argv
  BY DEF Prompt, IsProcess, Fields
<1> HIDE DEF t
<1>2. ShellRight(t)
  BY <1>1, NotFits DEF ShellRight
<1> QED BY <1>2 DEF t

LEMMA OneChanges ==
    ASSUME AllRight(procs), NEW p \in DOMAIN procs, NEW s, ShellRight(s),
           procs' = [procs EXCEPT ![p] = s]
    PROVE  AllRight(procs')
BY DEF AllRight

LEMMA BecomesRight ==
    ASSUME AllRight(procs), NEW p \in DOMAIN procs, NEW prog, NEW pc, Becomes(p, prog, pc)
    PROVE  AllRight(procs')
BY BeginsRight, OneChanges DEF Becomes

LEMMA ForkRight ==
    ASSUME AllRight(procs), NEW p \in DOMAIN procs,
           NEW parent, NEW child, IsProcess(parent), IsProcess(child),
           ShellRight(parent), ShellRight(child),
           fork_succeeds(p, parent, child) \/ fork_fails(p, parent)
    PROVE  AllRight(procs')
<1>1. CASE fork_fails(p, parent)
  BY <1>1, SameMemory, OneChanges DEF fork_fails
<1>2. CASE fork_succeeds(p, parent, child)
  <2> DEFINE q == Fresh
             s == [parent EXCEPT !.child = q]
             c == [child EXCEPT !.parent = p]
  <2>1. procs' = [i \in DOMAIN procs \cup {q} |-> IF i = p THEN s ELSE IF i = q THEN c ELSE procs[i]]
    BY <1>2 DEF fork_succeeds
  <2>2. ShellRight(s) /\ ShellRight(c)
    BY SameMemory
  <2> HIDE DEF q, s, c
  <2> QED BY <2>1, <2>2 DEF AllRight
<1> QED BY <1>1, <1>2

LEMMA InitSteps ==
    ASSUME ProcsTyped, AllRight(procs), NEW p \in DOMAIN procs,
           open_tty(p) \/ start_program(p) \/ start_program_child(p)
    PROVE  AllRight(procs')
<1>1. procs[p].prog = "init" /\ IsProcess(procs[p])
  BY DEF open_tty, start_program, start_program_child, Is, ProcsTyped
<1>2. ASSUME NEW x PROVE IsProcess([procs[p] EXCEPT !.pc = x]) /\ ShellRight([procs[p] EXCEPT !.pc = x])
  BY <1>1 DEF IsProcess, Fields, ShellRight
<1>3. ASSUME NEW x, Goes(p, x) PROVE AllRight(procs')
  BY <1>2, <1>3, OneChanges DEF Goes
<1>4. CASE open_tty(p)
  BY <1>3, <1>4, BecomesRight DEF open_tty, Ends
<1>5. CASE start_program_child(p)
  BY <1>3, <1>5, BecomesRight DEF start_program_child
<1>6. CASE start_program(p)
  <2> DEFINE parent == [procs[p] EXCEPT !.pc = Following(procs[p].pc)]
             child == [procs[p] EXCEPT !.pc = IF procs[p].pc = "dhcpd" THEN "exec_dhcpd" ELSE "exec_shell"]
  <2>1. fork_succeeds(p, parent, child) \/ fork_fails(p, parent)
    BY <1>6 DEF start_program
  <2>2. IsProcess(parent) /\ ShellRight(parent) /\ IsProcess(child) /\ ShellRight(child)
    BY <1>2
  <2> HIDE DEF parent, child
  <2> QED BY <2>1, <2>2, ForkRight
<1> QED BY <1>4, <1>5, <1>6

LEMMA EndSteps ==
    ASSUME AllRight(procs), NEW p \in DOMAIN procs,
           main_exits(p) \/ init_returns(p) \/ program_ends(p) \/ main_executes(p)
    PROVE  AllRight(procs')
BY BecomesRight DEF main_exits, init_returns, program_ends, main_executes, AfterFailedExec, Ends

LEMMA ReadsRight ==
    ASSUME ProcsTyped, AllRight(procs), NEW p \in DOMAIN procs, main_reads(p) PROVE AllRight(procs')
<1>1. procs[p].prog = "ush" /\ procs[p].pc = "prompt" /\ IsProcess(procs[p])
  BY DEF main_reads, Is, ProcsTyped
<1>2. PICK line \in Lines :
          LET s == getline(procs[p].argvp, line)
              read == [procs[p] EXCEPT !.argvp = s.argvp, !.argc = s.argc, !.line = line]
          IN  procs' = [procs EXCEPT ![p] =
                  IF s.wild THEN [read EXCEPT !.pc = "wild"]
                  ELSE IF s.argc = 0 THEN Prompt(read) ELSE [read EXCEPT !.pc = "command"]]
  BY DEF main_reads
<1> DEFINE g == getline(procs[p].argvp, line)
           read == [procs[p] EXCEPT !.argvp = g.argvp, !.argc = g.argc, !.line = line]
           s == IF g.wild THEN [read EXCEPT !.pc = "wild"]
                ELSE IF g.argc = 0 THEN Prompt(read) ELSE [read EXCEPT !.pc = "command"]
<1>3. procs' = [procs EXCEPT ![p] = s]
  BY <1>2
<1>4. ShellRight(procs[p]) /\ IsArray(procs[p].argvp) /\ IsPointers(procs[p].execve_argv)
  BY <1>1 DEF AllRight, ShellRight
<1>5. line \in Seq(STRING)
  BY UserAssumption
<1>6. /\ IsRead(g)
      /\ Fits(line) => /\ ~g.wild /\ g.argc = Len(Words(line))
                       /\ \A k \in 1 .. g.argc : Held(g.argvp, k - 1, Words(line)[k])
  BY <1>4, <1>5, GetlineRight
<1> HIDE DEF g
<1>7. /\ IsProcess(read) /\ read.prog = "ush" /\ read.argvp = g.argvp /\ read.argc = g.argc
      /\ read.line = line /\ read.execve_argv = procs[p].execve_argv
  BY <1>1 DEF IsProcess, Fields
<1>8. IsArray(g.argvp) /\ g.argc \in Nat
  BY <1>6 DEF IsRead
<1> HIDE DEF read
<1>9. ASSUME NEW x PROVE LET t == [read EXCEPT !.pc = x] IN
          /\ t.prog = "ush" /\ t.pc = x /\ t.argvp = g.argvp /\ t.argc = g.argc /\ t.line = line
          /\ t.execve_argv = procs[p].execve_argv
  BY <1>7 DEF IsProcess, Fields
<1>10. CASE g.wild
  <2> DEFINE t == [read EXCEPT !.pc = "wild"]
  <2>1. /\ t.prog = "ush" /\ t.argvp = g.argvp /\ t.argc = g.argc /\ t.line = line
        /\ t.execve_argv = procs[p].execve_argv
    BY <1>9
  <2>2. s = t
    BY <1>10
  <2> HIDE DEF t
  <2>3. ShellRight(t)
    BY <1>4, <1>6, <1>8, <1>10, <2>1 DEF ShellRight
  <2> QED BY <1>3, <2>2, <2>3, OneChanges
<1>11. CASE ~g.wild /\ g.argc = 0
  <2>1. s = Prompt(read)
    BY <1>11
  <2>2. ShellRight(Prompt(read))
    BY <1>4, <1>7, <1>8, PromptRight
  <2> QED BY <1>3, <2>1, <2>2, OneChanges
<1>12. CASE ~g.wild /\ g.argc # 0
  <2> DEFINE t == [read EXCEPT !.pc = "command"]
  <2>1. /\ t.prog = "ush" /\ t.pc = "command" /\ t.argvp = g.argvp /\ t.argc = g.argc /\ t.line = line
        /\ t.execve_argv = procs[p].execve_argv
    BY <1>9
  <2>2. s = t
    BY <1>12
  <2> HIDE DEF t
  <2>3. Fits(t.line) => HasWords(t)
    BY <1>6, <1>8, <1>12, <2>1 DEF HasWords
  <2>4. ShellRight(t)
    BY <1>4, <1>8, <2>1, <2>3 DEF ShellRight
  <2> QED BY <1>3, <2>2, <2>4, OneChanges
<1> QED BY <1>10, <1>11, <1>12

LEMMA ItselfRight ==
    ASSUME ProcsTyped, AllRight(procs), NEW p \in DOMAIN procs, main_itself(p) PROVE AllRight(procs')
<1>1. procs[p].prog = "ush" /\ IsProcess(procs[p]) /\ procs' = [procs EXCEPT ![p] = Prompt(procs[p])]
  BY DEF main_itself, Is, ProcsTyped
<1>2. ShellRight(Prompt(procs[p]))
  BY <1>1, PromptRight DEF AllRight, ShellRight
<1> QED BY <1>1, <1>2, OneChanges

LEMMA WaitsRight ==
    ASSUME ProcsTyped, AllRight(procs), NEW p \in DOMAIN procs, main_waits(p) PROVE AllRight(procs')
<1>1. procs[p].prog = "ush" /\ IsProcess(procs[p])
  BY DEF main_waits, Is, ProcsTyped
<1>2. ShellRight(Prompt(procs[p]))
  BY <1>1, PromptRight DEF AllRight, ShellRight
<1>3. CASE procs' = [procs EXCEPT ![p] = Prompt(procs[p])]
  BY <1>2, <1>3, OneChanges
<1>4. ASSUME NEW q, procs' = [i \in DOMAIN procs \ {q} |-> IF i = p THEN Prompt(procs[p]) ELSE procs[i]]
      PROVE  AllRight(procs')
  BY <1>2, <1>4 DEF AllRight
<1> QED BY <1>3, <1>4 DEF main_waits

LEMMA ForksRight ==
    ASSUME ProcsTyped, AllRight(procs), NEW p \in DOMAIN procs, main_forks(p) PROVE AllRight(procs')
<1> DEFINE o == procs[p]
           after == AfterFork(o)
           child == [o EXCEPT !.pc = "exec"]
           waiting == [o EXCEPT !.pc = "wait"]
<1>1. /\ o.prog = "ush" /\ o.pc = "fork" /\ IsProcess(o) /\ ShellRight(o)
      /\ fork_succeeds(p, after, child) \/ fork_fails(p, after)
  BY DEF main_forks, Is, ProcsTyped, AllRight
<1> HIDE DEF o
<1>2. IsProcess(child) /\ ShellRight(child)
  BY <1>1 DEF IsProcess, Fields, ShellRight, HasWords, HasPointers
<1>3. IsProcess(waiting) /\ ShellRight(waiting)
  BY <1>1 DEF IsProcess, Fields, ShellRight
<1>4. IsProcess(Prompt(o)) /\ ShellRight(Prompt(o))
  <2>1. IsProcess(Prompt(o))
    BY <1>1 DEF IsProcess, Fields, Prompt
  <2> QED BY <1>1, <2>1, PromptRight DEF ShellRight
<1>5. after = Prompt(o) \/ after = waiting
  BY DEF AfterFork
<1> HIDE DEF after, child, waiting
<1>6. IsProcess(after) /\ ShellRight(after)
  BY <1>3, <1>4, <1>5
<1> QED BY <1>1, <1>2, <1>6, ForkRight

LEMMA ArgumentsRight ==
    ASSUME ProcsTyped, AllRight(procs), NEW p \in DOMAIN procs, main_arguments(p) PROVE AllRight(procs')
<1> DEFINE o == procs[p]
           argc == o.argc
           D == IsWord(o.argvp, argc - 1, <<"&">>)
           x == IF argc >= ARG_MAX THEN "wild" ELSE "fork"
           A == [i \in DOMAIN o.execve_argv |->
                    IF i = argc THEN NULL
                    ELSE IF i < argc /\ ~(D /\ i = argc - 1) THEN i ELSE o.execve_argv[i]]
           s == [o EXCEPT !.pc = x, !.detached = D, !.execve_argv = A]
<1>1. o.prog = "ush" /\ o.pc = "command" /\ IsProcess(o) /\ ShellRight(o)
  BY DEF main_arguments, Is, ProcsTyped, AllRight
<1>2. procs' = [procs EXCEPT ![p] = s]
  BY DEF main_arguments
<1>3. /\ s.prog = "ush" /\ s.pc = x /\ s.line = o.line /\ s.argvp = o.argvp /\ s.argc = argc
      /\ s.execve_argv = A
  <2> HIDE DEF o, x, D, A
  <2> QED BY <1>1 DEF IsProcess, Fields, argc
<1>4. IsPointers(o.execve_argv) /\ IsArray(o.argvp) /\ argc \in Nat /\ o.line \in Lines \cup {<<>>}
  BY <1>1 DEF ShellRight
<1>5. DOMAIN o.execve_argv = 0 .. ARG_MAX - 1
  BY <1>4 DEF IsPointers
<1>6. IsPointers(A)
  BY <1>5 DEF IsPointers
<1>7. ASSUME Fits(o.line) PROVE x = "fork" /\ HasWords(o) /\ HasPointers(s)
  <2> DEFINE W == Words(o.line)
  <2>1. /\ HasWords(o) /\ argc = Len(W) /\ argc > 0 /\ Held(o.argvp, argc - 1, W[argc])
    BY <1>1, <1>4, <1>7 DEF ShellRight, HasWords
  <2>2. /\ Len(W) < ARG_MAX /\ Len(W) < ARG_LENGTH
        /\ \A k \in 1 .. Len(W) : /\ W[k] \in Seq(STRING) /\ Len(W[k]) < ARG_MAX
                                  /\ \A i \in DOMAIN W[k] : W[k][i] # NUL
    BY <1>4, <1>7, FitsWords
  <2> HIDE DEF W
  <2>3. D <=> W[argc] = <<"&">>
    <3>1. argc - 1 \in Nat /\ argc - 1 < ARG_LENGTH /\ argc \in 1 .. Len(W)
      BY <1>4, <2>1, <2>2, Sizes
    <3> QED BY <2>1, <2>2, <3>1, RowIsWord
  <2>4. D <=> Detaches(o.line)
    BY <2>1, <2>3 DEF Detaches, Last, W
  <2>5. argc \in 0 .. ARG_MAX - 1 /\ \A i \in 0 .. argc - 1 : i \in 0 .. ARG_MAX - 1 /\ i < argc /\ i # argc
    BY <1>4, <2>1, <2>2, Sizes
  <2> HIDE DEF D
  <2>6. A[argc] = NULL /\ \A i \in 0 .. argc - 1 : i < argc - 1 \/ ~D => A[i] = i
    BY <1>4, <1>5, <2>5
  <2>7. x = "fork"
    BY <1>4, <2>1, <2>2, Sizes
  <2> HIDE DEF A, s, x
  <2> QED BY <1>3, <2>1, <2>4, <2>6, <2>7 DEF HasPointers
<1>8. Fits(o.line) => HasWords(s)
  <2> HIDE DEF s
  <2> QED BY <1>3, <1>7 DEF HasWords
<1> HIDE DEF s, A, x, argc
<1>9. ShellRight(s)
  BY <1>3, <1>4, <1>6, <1>7, <1>8 DEF ShellRight
<1> QED BY <1>2, <1>9, OneChanges

-----------------------------------------------------------------------------
(* The theorem about arguments                                             *)

LEMMA StepRight == UInv /\ AllRight(procs) /\ [Next]_vars => AllRight(procs')
<1> SUFFICES ASSUME UInv, AllRight(procs), [Next]_vars PROVE AllRight(procs')
  OBVIOUS
<1>1. ProcsTyped
  BY DEF ProcsTyped, UInv, Inv, Table
<1>2. ASSUME NEW p \in DOMAIN procs, Runs(p) \/ main_reads(p) \/ program_ends(p)
      PROVE  AllRight(procs')
  BY <1>1, <1>2, InitSteps, EndSteps, ReadsRight, ItselfRight, ArgumentsRight, ForksRight, WaitsRight
     DEF Runs
<1>3. CASE UNCHANGED vars
  BY <1>3 DEF vars
<1> QED BY <1>2, <1>3 DEF Next

LEMMA InitRight == Init => AllRight(procs)
<1> SUFFICES ASSUME Init PROVE AllRight(procs)
  OBVIOUS
<1>1. DOMAIN procs = {1} /\ procs[1].prog = "init"
  BY DEF Init, Process
<1> QED BY <1>1 DEF AllRight, ShellRight

\* Of getline and main in ushell.c: a line that fits the arrays is stored within
\* their bounds, and what execve gets for it, across the fork, are the words that
\* were typed, whatever other lines, that need not fit, have left in the arrays.
THEOREM CommandsGetTheirWords == Spec => []ArgvRight
<1> DEFINE I == UInv /\ AllRight(procs)
<1>1. Init => I
  BY InitInv, InitRight
<1>2. I /\ [Next]_vars => I'
  BY StepKeeps, StepRight
<1>3. I => ArgvRight
  BY RightArguments DEF ArgvRight, AllRight
<1> QED BY <1>1, <1>2, <1>3, PTL DEF Spec
=============================================================================
