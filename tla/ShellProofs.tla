----------------------------- MODULE ShellProofs ------------------------------
(***************************************************************************)
(* Theorems about the shell of hw4, for any number of processes, any lines *)
(* and any number of interrupts.                                           *)
(*                                                                         *)
(* The argument looks at who has forked whom and at who waits for whom.    *)
(* Whatever a line says, the shell that reads it does one of three things  *)
(* to those: nothing (Quiet), a fork (Fork), or it ends (End).  Once that  *)
(* is shown of the parser, every action is one of a handful of steps, and  *)
(* the invariants below are inductive over them.                           *)
(*                                                                         *)
(* The second part is about descriptors.  Right, Left and Both are         *)
(* followed call by call, with what strtok makes of a line; for each       *)
(* process, what is carried along is what Restore would make of its table. *)
(***************************************************************************)
EXTENDS Shell, DataInduction, FiniteSetTheorems, SequenceTheorems, TLAPS

States == {"none", "prompt", "forked", "suspend", "after", "child", "program", "zombie"}

ProcessTypes ==
    /\ pc \in [Procs -> States]
    /\ parent \in [Procs -> Procs \cup {Nobody}]
    /\ pending \in [Procs -> BOOLEAN]
    /\ armed \in [Procs -> BOOLEAN]
    /\ early \in [Procs -> BOOLEAN]
    /\ mask \in [Procs -> SUBSET {"CHLD", "INT"}]
    /\ ints \in Nat

-----------------------------------------------------------------------------
(* What a line does to the processes *)

Quiet(p) ==
    /\ UNCHANGED <<pc, parent, pending, early>>
    /\ armed' = armed \/ armed' = [armed EXCEPT ![p] = TRUE]

Fork(p) ==
    \E k \in Procs :
        /\ pc[k] = "none"
        /\ pc' = [pc EXCEPT ![p] = "forked", ![k] = "child"]
        /\ parent' = [parent EXCEPT ![k] = p]
        /\ armed' = [armed EXCEPT ![p] = TRUE, ![k] = TRUE]
        /\ pending' = [pending EXCEPT ![k] = FALSE]
        /\ early' = [early EXCEPT ![p] = FALSE, ![k] = FALSE]

\* The signals a waiting shell lets through stay what they are.
Reads(p) ==
    /\ pc[p] = "prompt"
    /\ UNCHANGED <<ints, mask>>
    /\ Quiet(p) \/ Fork(p) \/ End({p}, {})

\* executor forks, or leaves the processes as they are.
LEMMA ExecutorForks ==
    ASSUME NEW p, NEW t, NEW c, NEW short, executor(p, t, c, short)
    PROVE  (Quiet(p) \/ Fork(p)) /\ mask' = mask
<1>1. mask' = mask
  BY DEF executor
<1>2. CASE \E q \in Procs : pc[q] = "none"
  <2>1. NewProcess \in Procs /\ pc[NewProcess] = "none"
    BY <1>2 DEF NewProcess
  <2>2. \/ Fork(p)
        \/ ~\E q \in Procs : pc[q] = "none"
    BY <2>1 DEF executor, Fork
  <2> QED BY <1>1, <1>2, <2>2
<1>3. CASE ~\E q \in Procs : pc[q] = "none"
  BY <1>1, <1>3 DEF executor, Quiet
<1> QED BY <1>2, <1>3

\* So do the redirections, whatever they made of the descriptors.
LEMMA RedirectForks ==
    ASSUME NEW p, NEW line, NEW r, NEW created, Redirect(p, line, r, created)
    PROVE  (Quiet(p) \/ Fork(p)) /\ mask' = mask
<1>1. CASE executor(p, r.tab, r.cmd, r.short)
  BY <1>1, ExecutorForks
<1>2. CASE UNCHANGED <<pc, parent, cmd, dirs, signals>>
  BY <1>2 DEF Quiet, signals
<1> QED BY <1>1, <1>2 DEF Redirect

\* A line without redirections.
LEMMA BuiltinReads ==
    ASSUME NEW p, NEW line, handle_builtin(p, line)
    PROVE  (Quiet(p) \/ Fork(p) \/ End({p}, {})) /\ mask' = mask
<1>1. CASE Idle
  BY <1>1 DEF Idle, Quiet, signals
<1>2. CASE Exit(p)
  BY <1>2 DEF Exit, End
<1>3. ASSUME NEW word, Cd(p, word)
      PROVE  Quiet(p) /\ mask' = mask
  BY <1>3 DEF Cd, Quiet, signals
<1>4. ASSUME executor(p, fds[p], Plain(line), FALSE)
      PROVE  (Quiet(p) \/ Fork(p)) /\ mask' = mask
  BY <1>4, ExecutorForks
<1> QED BY <1>1, <1>2, <1>3, <1>4 DEF handle_builtin

\* A line with one or two of them.
LEMMA RedirectionReads ==
    ASSUME NEW p, NEW line, handle_redirection(p, line)
    PROVE  (Quiet(p) \/ Fork(p)) /\ mask' = mask
<1>1. CASE Idle
  BY <1>1 DEF Idle, Quiet, signals
<1>2. ASSUME NEW symbol, OneBracket(p, line, symbol)
      PROVE  (Quiet(p) \/ Fork(p)) /\ mask' = mask
  BY <1>1, <1>2, RedirectForks DEF OneBracket
<1>3. CASE TwoBrackets(p, line)
  BY <1>1, <1>3, RedirectForks DEF TwoBrackets
<1> QED BY <1>1, <1>2, <1>3 DEF handle_redirection

\* Any line.
LEMMA ParserReads ==
    ASSUME NEW p, NEW line, parser(p, line)
    PROVE  Reads(p)
<1>1. pc[p] = "prompt" /\ ints' = ints
  BY DEF parser, ReadLine
<1>2. CASE handle_builtin(p, line)
  BY <1>1, <1>2, BuiltinReads DEF Reads
<1>3. CASE handle_redirection(p, line)
  BY <1>1, <1>3, RedirectionReads DEF Reads
<1>4. CASE Exit(p)
  BY <1>1, <1>4 DEF Reads, Exit, End
<1>5. CASE Idle
  BY <1>1, <1>5 DEF Reads, Idle, Quiet, signals
<1> QED BY <1>2, <1>3, <1>4, <1>5 DEF parser, handle_piping

-----------------------------------------------------------------------------
(* Invariants *)

\* A signal that waits stands for a child that has ended.
Awaited == \A p \in Procs : pending[p] => \E c \in Procs : parent[c] = p /\ pc[c] = "zombie"

\* A shell that waits has its handler, and has a child to wait for unless it missed it.
Busy(p) == \E c \in Procs : parent[c] = p /\ pc[c] \notin {"none", "zombie"}
Waits ==
    \A p \in Procs :
        /\ pc[p] \in {"forked", "suspend"} => armed[p]
        /\ pc[p] = "forked" => early[p] \/ Busy(p)
        /\ pc[p] = "suspend" => early[p] \/ pending[p] \/ Busy(p) \/ "CHLD" \in mask[p]

\* Until an interrupt, one process is not waiting, and the others wait for one child each.
Active(p) == pc[p] \in {"prompt", "child", "program", "after", "zombie"}
OneActive == \A p, q \in Procs : Active(p) /\ Active(q) => p = q
Waited == \A c \in Procs : pc[c] # "none" /\ parent[c] # Nobody
                           => pc[parent[c]] \in {"forked", "suspend"}
OnlyChild == \A c, d \in Procs :
                 /\ pc[c] # "none" /\ pc[d] # "none"
                 /\ parent[c] = parent[d] /\ parent[c] # Nobody
                 => c = d
Chain == ints = 0 => OneActive /\ Waited /\ OnlyChild

Inv == ProcessTypes /\ Awaited /\ Waits /\ Chain

\* The steps that are not a line read.
Moves == \/ \E p \in Procs : Suspend(p) \/ Deliver(p) \/ Resume(p) \/ Exec(p) \/ Ends(p)
         \/ Interrupt

\* Next, without what a line says.
LEMMA NextIsReadsOrMoves ==
    ASSUME Next
    PROVE  (\E p \in Procs : Reads(p)) \/ Moves
<1>1. ASSUME NEW p \in Procs, EndOfInput(p)
      PROVE  Reads(p)
  BY <1>1 DEF EndOfInput, ReadLine, Idle, Reads, Quiet, signals
<1>2. ASSUME NEW p \in Procs, NEW line \in Lines, parser(p, line)
      PROVE  Reads(p)
  BY <1>2, ParserReads
<1> QED BY <1>1, <1>2 DEF Next, Step, Moves

\* A shell that starts satisfies the invariant.
LEMMA InitInv == ASSUME Init PROVE Inv
BY ProcsAssumption
   DEF Init, Inv, ProcessTypes, States, Awaited, Waits, Chain, OneActive, Waited, OnlyChild,
       Active

\* What the two steps that change several processes keep.  The processes that end run a
\* program or are at their prompt; those that are woken wait.
LEMMA ForkKeeps ==
    ASSUME Inv, NEW p \in Procs, pc[p] = "prompt", Fork(p), UNCHANGED <<ints, mask>>
    PROVE  Inv'
<1> PICK k \in Procs :
        /\ pc[k] = "none"
        /\ pc' = [pc EXCEPT ![p] = "forked", ![k] = "child"]
        /\ parent' = [parent EXCEPT ![k] = p]
        /\ armed' = [armed EXCEPT ![p] = TRUE, ![k] = TRUE]
        /\ pending' = [pending EXCEPT ![k] = FALSE]
        /\ early' = [early EXCEPT ![p] = FALSE, ![k] = FALSE]
  BY DEF Fork
<1> USE ProcsAssumption DEF Inv
<1>1. ProcessTypes'
  BY DEF ProcessTypes, States
<1>2. Awaited'
  BY DEF ProcessTypes, Awaited
<1>3. Waits'
  <2>1. \A q \in Procs \ {p, k} : Busy(q) => Busy(q)'
    BY DEF ProcessTypes, Busy
  <2>2. Busy(p)'
    BY DEF ProcessTypes, Busy
  <2> QED BY <2>1, <2>2 DEF ProcessTypes, Waits
<1>4. Chain'
  <2> SUFFICES ASSUME ints = 0
               PROVE  (OneActive /\ Waited /\ OnlyChild)'
    BY DEF Chain
  <2> USE DEF ProcessTypes, Chain, OneActive, Waited, OnlyChild, Active
  <2>1. OneActive'
    OBVIOUS
  <2>2. Waited'
    OBVIOUS
  <2>3. OnlyChild'
    OBVIOUS
  <2> QED BY <2>1, <2>2, <2>3
<1> QED BY <1>1, <1>2, <1>3, <1>4

\* Processes that end: their parents wait on, or are told.
LEMMA EndKeeps ==
    ASSUME Inv, NEW S \in SUBSET Procs, NEW W \in SUBSET Procs, End(S, W),
           \A q \in S : pc[q] \in {"program", "prompt"},
           \A q \in W : pc[q] = "suspend",
           ints' \in Nat, ints' = 0 => ints = 0 /\ W = {}
    PROVE  Inv'
<1> DEFINE ended(q) ==
        CASE q \in S /\ parent[q] = Nobody -> "none"
          [] q \in S /\ parent[q] # Nobody -> "zombie"
          [] q \notin S /\ parent[q] \in S /\ pc[q] = "zombie" -> "none"
          [] q \in W -> "after"
          [] OTHER -> pc[q]
<1>1. pc' = [q \in Procs |-> ended(q)]
  BY DEF End
<1>2. \A q \in Procs :
          /\ q \in S => ended(q) = IF parent[q] = Nobody THEN "none" ELSE "zombie"
          /\ q \notin S /\ q \in W => ended(q) = "after"
          /\ q \notin S /\ q \notin W /\ (parent[q] \notin S \/ pc[q] # "zombie")
             => ended(q) = pc[q]
          /\ q \notin S /\ q \notin W /\ parent[q] \in S /\ pc[q] = "zombie"
             => ended(q) = "none"
  OBVIOUS
<1> HIDE DEF ended
<1>3. /\ parent' = [q \in Procs |-> IF parent[q] \in S THEN Nobody ELSE parent[q]]
      /\ pending' = [p \in Procs |->
                        p \notin S /\ (pending[p] \/ (armed[p] /\ \E q \in S : parent[q] = p))]
      /\ early' = [p \in Procs |->
                      early[p] \/ (pc[p] = "forked" /\ \E q \in S : parent[q] = p)]
      /\ armed' = [q \in Procs |-> q \notin S /\ armed[q]]
      /\ mask' = mask
  BY DEF End
<1> USE ProcsAssumption DEF Inv
<1>4. ProcessTypes'
  BY <1>1, <1>2, <1>3 DEF ProcessTypes, States
<1>5. Awaited'
  <2> SUFFICES ASSUME NEW p \in Procs, pending'[p]
               PROVE  \E c \in Procs : parent'[c] = p /\ pc'[c] = "zombie"
    BY DEF Awaited
  <2>1. p \notin S /\ (pending[p] \/ \E q \in S : parent[q] = p)
    BY <1>3
  <2>2. ASSUME NEW q \in S, parent[q] = p
        PROVE  parent'[q] = p /\ pc'[q] = "zombie"
    BY <1>1, <1>2, <1>3, <2>1, <2>2
  <2>3. ASSUME NEW c \in Procs \ S, parent[c] = p, pc[c] = "zombie"
        PROVE  parent'[c] = p /\ pc'[c] = "zombie"
    BY <1>1, <1>2, <1>3, <2>1, <2>3
  <2> QED BY <2>1, <2>2, <2>3 DEF Awaited
<1>6. Waits'
  <2> SUFFICES ASSUME NEW p \in Procs, pc'[p] \in {"forked", "suspend"}
               PROVE  /\ armed'[p]
                      /\ pc'[p] = "forked" => early'[p] \/ Busy(p)'
                      /\ pc'[p] = "suspend"
                         => early'[p] \/ pending'[p] \/ Busy(p)' \/ "CHLD" \in mask'[p]
    BY DEF Waits
  <2>1. pc[p] = pc'[p] /\ p \notin S /\ armed[p] /\ armed'[p]
    BY <1>1, <1>2, <1>3 DEF Waits
  <2>2. ASSUME NEW c \in Procs \ S, parent[c] = p, pc[c] \notin {"none", "zombie"}
        PROVE  Busy(p)'
    BY <1>1, <1>2, <1>3, <2>1, <2>2 DEF Busy
  <2>3. ASSUME NEW c \in S, parent[c] = p
        PROVE  pending'[p] /\ (pc[p] = "forked" => early'[p])
    BY <1>3, <2>1, <2>3
  <2> QED BY <1>3, <2>1, <2>2, <2>3 DEF Waits, Busy, ProcessTypes
<1>7. Chain'
  <2> SUFFICES ASSUME ints = 0, W = {}
               PROVE  (OneActive /\ Waited /\ OnlyChild)'
    BY DEF Chain
  <2> USE <1>1, <1>2, <1>3 DEF ProcessTypes, Chain, OneActive, Waited, OnlyChild, Active
  <2>1. OneActive'
    OBVIOUS
  <2>2. Waited'
    OBVIOUS
  <2>3. OnlyChild'
    OBVIOUS
  <2> QED BY <2>1, <2>2, <2>3
<1> QED BY <1>4, <1>5, <1>6, <1>7

\* Carrying out a line keeps the invariant.
LEMMA ReadsKeeps ==
    ASSUME Inv, NEW p \in Procs, Reads(p)
    PROVE  Inv'
<1>1. CASE Quiet(p)
  <2> USE <1>1 DEF Inv, Reads, Quiet
  <2>1. ProcessTypes'
    BY DEF ProcessTypes
  <2>2. Awaited'
    BY DEF Awaited
  <2>3. Waits'
    BY DEF Waits, Busy, ProcessTypes
  <2>4. Chain'
    BY DEF Chain, OneActive, Waited, OnlyChild, Active
  <2> QED BY <2>1, <2>2, <2>3, <2>4
<1>2. CASE Fork(p)
  BY <1>2, ForkKeeps DEF Reads
<1>3. CASE End({p}, {})
  <2>1. pc[p] = "prompt" /\ ints' = ints /\ ints \in Nat
    BY DEF Reads, Inv, ProcessTypes
  <2>2. {p} \in SUBSET Procs /\ {} \in SUBSET Procs
    OBVIOUS
  <2>3. /\ \A q \in {p} : pc[q] \in {"program", "prompt"}
        /\ \A q \in {} : pc[q] = "suspend"
        /\ ints' \in Nat /\ (ints' = 0 => ints = 0 /\ {} = {})
    BY <2>1
  <2> HIDE DEF Inv
  <2> QED BY <1>3, <2>2, <2>3, EndKeeps
<1> QED BY <1>1, <1>2, <1>3 DEF Reads

\* So do the steps between two lines: execution, signals, waiting.
LEMMA MovesKeep ==
    ASSUME Inv, Moves
    PROVE  Inv'
<1> USE ProcsAssumption, SignalsAssumption DEF Inv
<1>1. ASSUME NEW p \in Procs, Suspend(p)
      PROVE  Inv'
  <2> PICK m \in Masks : mask' = [mask EXCEPT ![p] = m]
    BY <1>1 DEF Suspend
  <2> USE <1>1 DEF Suspend
  <2>1. ProcessTypes'
    BY DEF ProcessTypes, States
  <2>2. Awaited'
    BY DEF ProcessTypes, Awaited
  <2>3. Waits'
    <3>1. \A q \in Procs : Busy(q) => Busy(q)'
      BY DEF ProcessTypes, Busy
    <3> QED BY <3>1 DEF ProcessTypes, Waits
  <2>4. Chain'
    BY DEF ProcessTypes, Chain, OneActive, Waited, OnlyChild, Active
  <2> QED BY <2>1, <2>2, <2>3, <2>4
<1>2. ASSUME NEW p \in Procs, Deliver(p)
      PROVE  Inv'
  <2> PICK c \in Procs :
          /\ parent[c] = p /\ pc[c] = "zombie"
          /\ pc' = [pc EXCEPT ![c] = "none", ![p] = IF @ = "suspend" THEN "after" ELSE @]
    BY <1>2 DEF Deliver, Children
  <2> USE <1>2 DEF Deliver
  <2>1. ProcessTypes'
    BY DEF ProcessTypes, States
  <2>2. Awaited'
    BY DEF ProcessTypes, Awaited
  <2>3. Waits'
    <3>1. \A q \in Procs : Busy(q) => Busy(q)'
      BY DEF ProcessTypes, Busy
    <3>2. \A q \in Procs : pc'[q] = "suspend" => q # p
      BY DEF ProcessTypes
    <3>3. \A q \in Procs : pc'[q] \in {"forked", "suspend"} => pc[q] = pc'[q]
      BY DEF ProcessTypes
    <3> QED BY <3>1, <3>2, <3>3 DEF ProcessTypes, Waits
  <2>4. Chain'
    <3> SUFFICES ASSUME ints = 0
                 PROVE  (OneActive /\ Waited /\ OnlyChild)'
      BY DEF Chain
    <3> USE DEF ProcessTypes, Chain, OneActive, Waited, OnlyChild, Active
    <3>1. pc[p] \in {"forked", "suspend"} /\ p # c
      OBVIOUS
    <3>2. OneActive'
      BY <3>1
    <3>3. Waited'
      BY <3>1
    <3>4. OnlyChild'
      BY <3>1
    <3> QED BY <3>2, <3>3, <3>4
  <2> QED BY <2>1, <2>2, <2>3, <2>4
<1>3. ASSUME NEW p \in Procs, Resume(p)
      PROVE  Inv'
  <2> USE <1>3 DEF Resume
  <2>1. ProcessTypes'
    BY DEF ProcessTypes, States
  <2>2. Awaited'
    BY DEF ProcessTypes, Awaited
  <2>3. Waits'
    <3>1. \A q \in Procs : Busy(q) => Busy(q)'
      BY DEF ProcessTypes, Busy
    <3> QED BY <3>1 DEF ProcessTypes, Waits
  <2>4. Chain'
    BY DEF ProcessTypes, Chain, OneActive, Waited, OnlyChild, Active
  <2> QED BY <2>1, <2>2, <2>3, <2>4
<1>4. ASSUME NEW p \in Procs, Exec(p)
      PROVE  Inv'
  <2>1. /\ pc[p] = "child"
        /\ pc' = [pc EXCEPT ![p] = "program"] \/ pc' = [pc EXCEPT ![p] = "prompt"]
        /\ armed' = [armed EXCEPT ![p] = FALSE] \/ armed' = armed
        /\ UNCHANGED <<parent, pending, mask, early, ints>>
    BY <1>4 DEF Exec
  <2>2. ProcessTypes'
    BY <2>1 DEF ProcessTypes, States
  <2>3. Awaited'
    BY <2>1 DEF ProcessTypes, Awaited
  <2>4. Waits'
    <3>1. \A q \in Procs : Busy(q) => Busy(q)'
      BY <2>1 DEF ProcessTypes, Busy
    <3> QED BY <2>1, <3>1 DEF ProcessTypes, Waits
  <2>5. Chain'
    BY <2>1 DEF ProcessTypes, Chain, OneActive, Waited, OnlyChild, Active
  <2> QED BY <2>2, <2>3, <2>4, <2>5
<1>5. ASSUME NEW p \in Procs, Ends(p)
      PROVE  Inv'
  <2>1. End({p}, {}) /\ pc[p] = "program" /\ ints' = ints /\ ints \in Nat
    BY <1>5 DEF Ends, Exit, ProcessTypes
  <2>2. {p} \in SUBSET Procs /\ {} \in SUBSET Procs
    OBVIOUS
  <2>3. /\ \A q \in {p} : pc[q] \in {"program", "prompt"}
        /\ \A q \in {} : pc[q] = "suspend"
        /\ ints' \in Nat /\ (ints' = 0 => ints = 0 /\ {} = {})
    BY <2>1
  <2> HIDE DEF Inv
  <2> QED BY <2>1, <2>2, <2>3, EndKeeps
<1>6. CASE Interrupt
  <2> DEFINE S == {c \in Procs : pc[c] = "program"}
             W == {p \in Procs : pc[p] = "suspend" /\ "INT" \notin mask[p]}
  <2>1. End(S, W) /\ ints' = ints + 1 /\ ints \in Nat
    BY <1>6 DEF Interrupt, ProcessTypes
  <2>2. S \in SUBSET Procs /\ W \in SUBSET Procs
    OBVIOUS
  <2>3. /\ \A q \in S : pc[q] \in {"program", "prompt"}
        /\ \A q \in W : pc[q] = "suspend"
        /\ ints' \in Nat /\ (ints' = 0 => ints = 0 /\ W = {})
    BY <2>1
  <2> HIDE DEF S, W, Inv
  <2> QED BY <2>1, <2>2, <2>3, EndKeeps
<1> QED BY <1>1, <1>2, <1>3, <1>4, <1>5, <1>6 DEF Moves

\* The invariant is inductive.
THEOREM ShellInvariant == Spec => []Inv
<1>1. Init => Inv
  BY InitInv
<1>2. Inv /\ [Next]_vars => Inv'
  <2>1. ASSUME Inv, Next
        PROVE  Inv'
    BY <2>1, NextIsReadsOrMoves, ReadsKeeps, MovesKeep
  <2>2. ASSUME Inv, UNCHANGED vars
        PROVE  Inv'
    BY <2>2 DEF Inv, ProcessTypes, Awaited, Waits, Busy, Chain, OneActive, Waited, OnlyChild,
                Active, vars, signals
  <2> QED BY <2>1, <2>2
<1> QED BY <1>1, <1>2, PTL DEF Spec

-----------------------------------------------------------------------------
(* What follows *)

\* sigchld_handler (builtin.c) calls waitpid with a child that has ended, whatever was
\* merged into the signal that started it, in every shell and after any interrupts.
THEOREM HandlerFindsItsChild == Spec => []HandlerNeverBlocks
<1>1. Inv => HandlerNeverBlocks
  BY DEF Inv, Awaited, HandlerNeverBlocks, Children
<1> QED BY <1>1, ShellInvariant, PTL

\* Until ^C is typed, at most one process reads lines from the terminal, though children
\* whose exec failed are shells too.
THEOREM OneShellReads == Spec => []OneReader
<1>1. ASSUME Inv
      PROVE  OneReader
  <2> DEFINE Readers == {p \in Procs : pc[p] = "prompt"}
  <2> SUFFICES ASSUME ints = 0
               PROVE  Cardinality(Readers) <= 1
    BY DEF OneReader
  <2>1. CASE Readers = {}
    BY <2>1, FS_EmptySet
  <2>2. CASE Readers # {}
    <3> PICK p \in Readers : TRUE
      BY <2>2
    <3>1. Readers = {p}
      BY <1>1 DEF Inv, Chain, OneActive, Active
    <3> QED BY <3>1, FS_Singleton
  <2> QED BY <2>1, <2>2
<1> QED BY <1>1, ShellInvariant, PTL

\* Until ^C is typed, executor returns to the prompt only after the handler has reaped
\* the child.
THEOREM PromptHasReaped == Spec => []AllReaped
<1>1. Inv => AllReaped
  BY ProcsAssumption DEF Inv, Chain, Waited, AllReaped, Children
<1> QED BY <1>1, ShellInvariant, PTL

\* The race between fork and sigsuspend (builtin.c) and the mask nobody sets are the only
\* ways for a shell to wait for ever on a child that has ended.
THEOREM HangsAreTheRace == Spec => []HangsExplained
<1>1. Inv => HangsExplained
  BY DEF Inv, Waits, Busy, HangsExplained, Children
<1> QED BY <1>1, ShellInvariant, PTL

-----------------------------------------------------------------------------
(* Descriptors *)

Tables == [Fds -> Targets]
Saved == Fds \cup {-1}
Cmds == [form : {"plain", "right", "left", "both"}, fd : Saved, saveStdin : Saved,
         saveStdout : Saved, line : Seq(STRING)]

Ready(t) == t \in Tables /\ \A d \in 0 .. 2 : t[d] # Closed
AtTerminal(t) == {t[0], t[1]} = {"stdin", "stdout"} /\ \A d \in Fds : t[d] \notin Files

\* o is t with one more descriptor open on target, behind the standard ones, if there is one.
Opened(o, t, target) ==
    \/ Full(t) /\ o.tab = t /\ o.fd = -1
    \/ /\ ~Full(t) /\ o.fd \in Fds /\ o.fd >= 3 /\ t[o.fd] = Closed
       /\ o.tab = [t EXCEPT ![o.fd] = target]

\* open and dup take the lowest descriptor that is closed.
LEMMA OpenIs ==
    ASSUME NEW t, Ready(t), NEW target \in Targets \ {Closed}
    PROVE  Opened(OpenOn(t, target), t, target) /\ Ready(OpenOn(t, target).tab)
<1> DEFINE F == {d \in Fds : t[d] = Closed}
<1>1. CASE Full(t)
  BY <1>1 DEF OpenOn, Opened
<1>2. CASE ~Full(t)
  <2>1. F # {} /\ F \in SUBSET Nat
    BY <1>2, FdsAssumption DEF Full, Fds
  <2>2. \E d \in F : \A e \in F : d <= e
    BY ONLY <2>1, LeastNumber
  <2>3. \E d \in Fds : t[d] = Closed /\ \A e \in Fds : t[e] = Closed => d <= e
    BY <2>2
  <2> PICK d : d = Lowest(t)
    OBVIOUS
  <2>4. d \in Fds /\ t[d] = Closed
    BY <2>3 DEF Lowest
  <2>5. d >= 3
    <3>1. d \in Nat /\ d \notin 0 .. 2
      BY <2>4 DEF Fds, Ready
    <3> QED BY <3>1
  <2>6. OpenOn(t, target) = [tab |-> [t EXCEPT ![d] = target], fd |-> d]
    BY <1>2 DEF OpenOn
  <2>7. Ready([t EXCEPT ![d] = target])
    BY <2>4 DEF Ready, Tables
  <2> QED BY <1>2, <2>4, <2>5, <2>6, <2>7 DEF Opened
<1> QED BY <1>1, <1>2

\* The same, descriptor by descriptor, also where the call fails for want of a file.
More(o, t, target) ==
    /\ o.fd \in Saved /\ (o.fd = -1 \/ o.fd >= 3)
    /\ \A d \in Fds \ {o.fd} : o.tab[d] = t[d]
    /\ o.fd # -1 => o.fd \in Fds /\ o.tab[o.fd] = target /\ target # Closed /\ t[o.fd] = Closed
    /\ o.tab[0] = t[0] /\ o.tab[1] = t[1]

\* A descriptor more leaves the standard ones as they are.
LEMMA OpenedIs ==
    ASSUME NEW t, Ready(t), NEW target \in Targets \ {Closed}, NEW o, Opened(o, t, target)
    PROVE  More(o, t, target) /\ (o.fd = -1 <=> Full(t))
<1>1. 0 \in Fds /\ 1 \in Fds /\ -1 \notin Fds /\ t \in Tables
  BY FdsAssumption DEF Fds, Ready
<1>2. CASE Full(t)
  BY <1>1, <1>2 DEF Opened, More, Saved
<1>3. CASE ~Full(t)
  <2>1. o.fd \in Fds /\ o.fd >= 3 /\ t[o.fd] = Closed /\ o.tab = [t EXCEPT ![o.fd] = target]
    BY <1>3 DEF Opened
  <2>2. o.fd # -1 /\ o.fd # 0 /\ o.fd # 1
    BY <2>1
  <2>3. o.tab[o.fd] = target /\ \A d \in Fds \ {o.fd} : o.tab[d] = t[d]
    BY <1>1, <2>1 DEF Tables
  <2> QED BY <1>1, <1>3, <2>1, <2>2, <2>3 DEF More, Saved
<1> QED BY <1>2, <1>3

\* dup fails only for want of a descriptor.
LEMMA DupIs ==
    ASSUME NEW t, Ready(t), NEW d \in {0, 1}
    PROVE  LET s == dup(t, d)
           IN Ready(s.tab) /\ More(s, t, t[d]) /\ (s.fd = -1 <=> Full(t)) /\ t[d] # Closed
<1> PICK s : s = dup(t, d)
  OBVIOUS
<1>1. t[d] \in Targets \ {Closed}
  BY FdsAssumption DEF Ready, Tables, Fds
<1>2. Ready(s.tab) /\ Opened(s, t, t[d])
  BY <1>1, OpenIs DEF dup
<1>3. More(s, t, t[d]) /\ (s.fd = -1 <=> Full(t))
  BY <1>1, <1>2, OpenedIs
<1> QED BY <1>1, <1>2, <1>3

\* So does opening a file for output that can be written.
LEMMA WriteIs ==
    ASSUME NEW t, Ready(t), NEW file
    PROVE  LET o == openWrite(t, file)
           IN /\ Ready(o.tab) /\ More(o, t, file)
              /\ o.fd = -1 => (file \in Writable => Full(t))
              /\ o.fd # -1 => file \in Writable
<1> PICK o : o = openWrite(t, file)
  OBVIOUS
<1>1. CASE file \in Writable
  <2>1. file \in Targets \ {Closed}
    BY <1>1, FilesAssumption DEF Targets
  <2>2. Ready(o.tab) /\ Opened(o, t, file)
    BY <1>1, <2>1, OpenIs DEF openWrite
  <2>3. More(o, t, file) /\ (o.fd = -1 <=> Full(t))
    BY <2>1, <2>2, OpenedIs
  <2> QED BY <1>1, <2>2, <2>3
<1>2. CASE file \notin Writable
  <2>1. o.tab = t /\ o.fd = -1
    BY <1>2 DEF openWrite
  <2>2. More(o, t, file)
    BY <2>1 DEF More, Saved
  <2> QED BY <1>2, <2>1, <2>2
<1> QED BY <1>1, <1>2

\* And opening a file for input that exists.
LEMMA ReadIs ==
    ASSUME exists \subseteq Files, NEW t, Ready(t), NEW file
    PROVE  LET o == openRead(t, file)
           IN /\ Ready(o.tab) /\ More(o, t, file)
              /\ o.fd # -1 => file \in exists /\ ~Full(t)
              /\ o.fd = -1 => o.tab = t
<1> PICK o : o = openRead(t, file)
  OBVIOUS
<1>1. CASE file \in exists
  <2>1. file \in Targets \ {Closed}
    BY <1>1, FilesAssumption DEF Targets
  <2>2. Ready(o.tab) /\ Opened(o, t, file)
    BY <1>1, <2>1, OpenIs DEF openRead
  <2>3. More(o, t, file) /\ (o.fd = -1 <=> Full(t))
    BY <2>1, <2>2, OpenedIs
  <2>4. o.fd = -1 => o.tab = t
    BY <2>2, <2>3 DEF Opened
  <2> QED BY <1>1, <2>2, <2>3, <2>4
<1>2. CASE file \notin exists
  <2>1. o.tab = t /\ o.fd = -1
    BY <1>2 DEF openRead
  <2>2. More(o, t, file)
    BY <2>1 DEF More, Saved
  <2> QED BY <2>1, <2>2
<1> QED BY <1>1, <1>2

\* What dup2 and close leave, for the standard descriptors and for others.
LEMMA TableIs ==
    ASSUME NEW t, Ready(t)
    PROVE  /\ \A d \in Saved, e \in {0, 1} :
                 /\ Ready(dup2(t, d, e)) <=> (d = -1 \/ t[d] # Closed)
                 /\ d = -1 => dup2(t, d, e) = t
                 /\ d # -1 => dup2(t, d, e)[e] = t[d] /\ \A x \in Fds \ {e} : dup2(t, d, e)[x] = t[x]
           /\ \A d \in Saved :
                 /\ d = -1 \/ d >= 3 => Ready(close(t, d))
                 /\ d = -1 => close(t, d) = t
                 /\ d # -1 => close(t, d)[d] = Closed /\ \A x \in Fds \ {d} : close(t, d)[x] = t[x]
           /\ 0 \in Fds /\ 1 \in Fds /\ 2 \in Fds /\ -1 \notin Fds
<1>1. 0 \in Fds /\ 1 \in Fds /\ 2 \in Fds /\ -1 \notin Fds /\ Fds \subseteq Nat
  BY FdsAssumption DEF Fds
<1>2. t \in Tables
  BY DEF Ready
<1>3. Closed \in Targets
  BY DEF Targets
<1>4. ASSUME NEW d \in Saved, NEW e \in {0, 1}
      PROVE  /\ Ready(dup2(t, d, e)) <=> (d = -1 \/ t[d] # Closed)
             /\ d = -1 => dup2(t, d, e) = t
             /\ d # -1 => dup2(t, d, e)[e] = t[d] /\ \A x \in Fds \ {e} : dup2(t, d, e)[x] = t[x]
  <2>1. CASE d = -1
    BY <2>1 DEF dup2
  <2>2. CASE d # -1
    <3>1. d \in Fds /\ e \in Fds /\ e \in 0 .. 2
      BY <1>1, <2>2 DEF Saved
    <3>2. dup2(t, d, e) = [t EXCEPT ![e] = t[d]] /\ t[d] \in Targets
      BY <1>2, <2>2, <3>1 DEF dup2, Tables
    <3>3. dup2(t, d, e) \in Tables
      BY <1>2, <3>2 DEF Tables
    <3>4. dup2(t, d, e)[e] = t[d] /\ \A x \in Fds \ {e} : dup2(t, d, e)[x] = t[x]
      BY <1>2, <3>1, <3>2 DEF Tables
    <3>5. \A x \in 0 .. 2 : x \in Fds
      BY <1>1
    <3>6. Ready(dup2(t, d, e)) <=> t[d] # Closed
      BY <3>1, <3>3, <3>4, <3>5 DEF Ready
    <3> QED BY <2>2, <3>4, <3>6
  <2> QED BY <2>1, <2>2
<1>5. ASSUME NEW d \in Saved
      PROVE  /\ d = -1 \/ d >= 3 => Ready(close(t, d))
             /\ d = -1 => close(t, d) = t
             /\ d # -1 => close(t, d)[d] = Closed /\ \A x \in Fds \ {d} : close(t, d)[x] = t[x]
  <2>1. CASE d = -1
    BY <2>1 DEF close
  <2>2. CASE d # -1
    <3>1. d \in Fds /\ \A x \in 0 .. 2 : x \in Fds
      BY <1>1, <2>2 DEF Saved
    <3>2. close(t, d) = [t EXCEPT ![d] = Closed]
      BY <2>2 DEF close
    <3>3. close(t, d) \in Tables
      BY <1>2, <1>3, <3>2 DEF Tables
    <3>4. close(t, d)[d] = Closed /\ \A x \in Fds \ {d} : close(t, d)[x] = t[x]
      BY <1>2, <3>1, <3>2 DEF Tables
    <3>5. d >= 3 => Ready(close(t, d))
      BY <3>1, <3>3, <3>4 DEF Ready
    <3> QED BY <2>2, <3>4, <3>5
  <2> QED BY <2>1, <2>2
<1> QED BY <1>1, <1>4, <1>5

\* What a redirection did, r, can be undone, and if it was refused no descriptor, nothing
\* of it is left then.
Undoable(t, r) ==
    /\ Ready(r.tab) /\ r.cmd \in Cmds
    /\ Ready(Restore(r.tab, r.cmd))
    /\ AtTerminal(t) /\ ~r.short => AtTerminal(Restore(r.tab, r.cmd))

\* Output to a file.
LEMMA RightIs ==
    ASSUME NEW t, Ready(t), NEW file \in STRING, NEW line \in Seq(STRING)
    PROVE  /\ Undoable(t, Right(t, file, line))
           /\ Right(t, file, line).cmd.line = line
           /\ ~Right(t, file, line).short
              => /\ Right(t, file, line).tab[0] = t[0]
                 /\ Right(t, file, line).tab[1] = IF file \in Writable THEN file ELSE t[1]
<1> PICK r, o, s : r = Right(t, file, line) /\ o = openWrite(t, file) /\ s = dup(o.tab, 1)
  OBVIOUS
<1>1. /\ r.tab = dup2(s.tab, o.fd, 1) /\ r.cmd = [Plain(line) EXCEPT !.form = "right", !.fd = o.fd, !.saveStdin = s.fd]
      /\ r.short = (Full(t) \/ Full(o.tab))
  BY DEF Right
<1>2. /\ r.cmd.form = "right" /\ r.cmd.fd = o.fd /\ r.cmd.saveStdin = s.fd /\ r.cmd.line = line
      /\ r.cmd = [form |-> "right", fd |-> o.fd, saveStdin |-> s.fd, saveStdout |-> -1, line |-> line]
  BY <1>1 DEF Plain
<1>3. Ready(o.tab) /\ More(o, t, file) /\ (o.fd = -1 => (file \in Writable => Full(t)))
      /\ (o.fd # -1 => file \in Writable)
  BY WriteIs
<1>4. 0 \in Fds /\ 1 \in Fds /\ -1 \notin Fds /\ t \in Tables /\ o.tab \in Tables
  BY <1>3, TableIs DEF Ready
<1>5. Ready(s.tab) /\ More(s, o.tab, o.tab[1]) /\ (s.fd = -1 <=> Full(o.tab)) /\ o.tab[1] # Closed
  BY <1>3, DupIs
<1>6. /\ s.fd \in Saved /\ (s.fd = -1 \/ s.fd >= 3) /\ (s.fd = -1 <=> Full(o.tab))
      /\ \A d \in Fds \ {s.fd} : s.tab[d] = o.tab[d]
      /\ s.fd # -1 => s.fd \in Fds /\ s.tab[s.fd] = o.tab[1] /\ o.tab[s.fd] = Closed
      /\ s.tab[0] = o.tab[0] /\ s.tab[1] = o.tab[1] /\ o.tab[1] # Closed
  BY <1>5 DEF More
<1>7. /\ o.fd \in Saved /\ (o.fd = -1 \/ o.fd >= 3) /\ (o.fd = -1 /\ file \in Writable => Full(t))
      /\ \A d \in Fds \ {o.fd} : o.tab[d] = t[d]
      /\ o.fd # -1 => /\ o.fd \in Fds /\ o.tab[o.fd] = file /\ t[o.fd] = Closed
                      /\ file # Closed /\ file \in Writable
      /\ o.tab[0] = t[0] /\ o.tab[1] = t[1]
  BY <1>3 DEF More
<1>8. s.fd # -1 => s.fd # o.fd
  BY <1>6, <1>7
<1> PICK u, v : u = close(r.tab, o.fd) /\ v = dup2(u, s.fd, 1)
  OBVIOUS
<1>9. v = Restore(r.tab, r.cmd)
  BY <1>2 DEF Restore
<1>10. /\ Ready(r.tab) /\ (o.fd = -1 => r.tab = s.tab)
       /\ (o.fd # -1 => r.tab[1] = file /\ \A x \in Fds \ {1} : r.tab[x] = s.tab[x])
  <2>1. o.fd # -1 => s.tab[o.fd] = file
    BY <1>6, <1>7, <1>8
  <2>2. o.fd = -1 \/ s.tab[o.fd] # Closed
    BY <1>7, <2>1
  <2> QED BY <1>1, <1>5, <1>7, <2>1, <2>2, TableIs
<1>11. /\ Ready(u) /\ (o.fd = -1 => u = r.tab)
       /\ (o.fd # -1 => u[o.fd] = Closed /\ \A x \in Fds \ {o.fd} : u[x] = r.tab[x])
  BY <1>7, <1>10, TableIs
<1>12. s.fd # -1 => u[s.fd] = t[1]
  <2>1. s.fd # -1 => s.fd # 1 /\ s.fd \in Fds
    BY <1>6
  <2> QED BY <1>6, <1>7, <1>8, <1>10, <1>11, <2>1
<1>13. /\ Ready(v) /\ (s.fd # -1 => v[1] = t[1] /\ \A x \in Fds \ {1} : v[x] = u[x])
  <2>1. s.fd = -1 \/ u[s.fd] # Closed
    BY <1>6, <1>7, <1>12
  <2> QED BY <1>6, <1>11, <1>12, <2>1, TableIs
<1>14. AtTerminal(t) /\ ~r.short => AtTerminal(v)
  <2> SUFFICES ASSUME AtTerminal(t), s.fd # -1 PROVE AtTerminal(v)
    BY <1>1, <1>6
  <2>1. v[0] = t[0] /\ v[1] = t[1]
    <3>1. 0 # 1 /\ 0 # o.fd
      BY <1>7
    <3> QED BY <1>4, <1>6, <1>7, <1>10, <1>11, <1>13, <3>1
  <2>2. ASSUME NEW x \in Fds PROVE v[x] \in {t[x], t[1], Closed}
    <3>1. CASE x = 1
      BY <1>13, <3>1
    <3>2. CASE x # 1 /\ x = o.fd
      BY <1>4, <1>11, <1>13, <3>2
    <3>3. CASE x # 1 /\ x # o.fd /\ x = s.fd
      BY <1>4, <1>12, <1>13, <3>3
    <3>4. CASE x # 1 /\ x # o.fd /\ x # s.fd
      BY <1>4, <1>6, <1>7, <1>10, <1>11, <1>13, <3>4
    <3> QED BY <3>1, <3>2, <3>3, <3>4
  <2>3. Closed \notin Files
    BY FilesAssumption
  <2> QED BY <1>4, <2>1, <2>2, <2>3 DEF AtTerminal
<1>15. r.cmd \in Cmds
  BY <1>2, <1>6, <1>7 DEF Cmds, Saved
<1>16. ~r.short => r.tab[0] = t[0] /\ r.tab[1] = IF file \in Writable THEN file ELSE t[1]
  <2>1. 0 # 1 /\ 0 # s.fd /\ 1 # s.fd
    BY <1>6
  <2> QED BY <1>1, <1>4, <1>6, <1>7, <1>10, <2>1
<1>17. Undoable(t, r)
  BY <1>9, <1>10, <1>13, <1>14, <1>15 DEF Undoable
<1> QED BY <1>2, <1>16, <1>17

\* A command that has nothing to undo.
LEMMA PlainIs ==
    ASSUME NEW line \in Seq(STRING)
    PROVE  /\ Plain(line) \in Cmds /\ Plain(line).line = line /\ Plain(line).form = "plain"
           /\ \A t : Restore(t, Plain(line)) = t
<1>1. Plain(line).form = "plain" /\ Plain(line).line = line
  BY DEF Plain
<1>2. Plain(line) \in Cmds
  BY DEF Plain, Cmds, Saved
<1> QED BY <1>1, <1>2 DEF Restore

\* Input from a file.
LEMMA LeftIs ==
    ASSUME exists \subseteq Files, NEW t, Ready(t), NEW file, NEW line \in Seq(STRING)
    PROVE  LET r == Left(t, file, line)
           IN /\ Undoable(t, r) /\ r.cmd.line = line
              /\ r.ok => r.tab[0] = file /\ r.tab[1] = t[1]
<1> PICK r, i, s : r = Left(t, file, line) /\ i = openRead(t, file) /\ s = dup(i.tab, 0)
  OBVIOUS
<1>1. Ready(i.tab) /\ More(i, t, file)
  BY ReadIs
<1>2. Ready(s.tab) /\ More(s, i.tab, i.tab[0]) /\ (s.fd = -1 <=> Full(i.tab)) /\ i.tab[0] # Closed
  BY <1>1, DupIs
<1>3. 0 \in Fds /\ 1 \in Fds /\ -1 \notin Fds
  BY TableIs
<1>4. CASE i.fd = -1
  <2>1. r.tab = t /\ r.cmd = Plain(line) /\ ~r.ok
    BY <1>4 DEF Left
  <2> QED BY <2>1, PlainIs DEF Undoable
<1>5. CASE i.fd # -1
  <2>1. /\ r.tab = close(dup2(s.tab, i.fd, 0), i.fd) /\ r.short = Full(i.tab)
        /\ r.cmd = [Plain(line) EXCEPT !.form = "left", !.saveStdin = s.fd]
    BY <1>5 DEF Left
  <2>2. /\ r.cmd.form = "left" /\ r.cmd.saveStdin = s.fd /\ r.cmd.line = line
        /\ r.cmd = [form |-> "left", fd |-> -1, saveStdin |-> s.fd, saveStdout |-> -1, line |-> line]
    BY <2>1 DEF Plain
  <2>3. /\ i.fd \in Fds /\ i.fd >= 3 /\ i.fd \in Saved /\ i.tab[i.fd] = file /\ file # Closed /\ t[i.fd] = Closed
        /\ \A d \in Fds \ {i.fd} : i.tab[d] = t[d]
        /\ i.tab[0] = t[0] /\ i.tab[1] = t[1]
    BY <1>1, <1>5 DEF More
  <2>4. /\ s.fd \in Saved /\ (s.fd = -1 \/ s.fd >= 3)
        /\ \A d \in Fds \ {s.fd} : s.tab[d] = i.tab[d]
        /\ s.fd # -1 => s.fd \in Fds /\ s.tab[s.fd] = i.tab[0] /\ i.tab[s.fd] = Closed
        /\ s.tab[0] = i.tab[0] /\ s.tab[1] = i.tab[1]
    BY <1>2 DEF More
  <2>5. s.fd # i.fd
    BY <1>5, <2>3, <2>4
  <2> PICK u, v : u = dup2(s.tab, i.fd, 0) /\ v = Restore(r.tab, r.cmd)
    OBVIOUS
  <2>6. v = dup2(r.tab, s.fd, 0)
    BY <2>2 DEF Restore
  <2>7. Ready(u) /\ u[0] = file /\ \A x \in Fds \ {0} : u[x] = s.tab[x]
    <3>1. s.tab[i.fd] = file
      BY <2>3, <2>4, <2>5
    <3> QED BY <1>2, <1>5, <2>3, <3>1, TableIs
  <2>8. Ready(r.tab) /\ r.tab[i.fd] = Closed /\ \A x \in Fds \ {i.fd} : r.tab[x] = u[x]
    BY <1>5, <2>1, <2>3, <2>7, TableIs
  <2>9. r.tab[0] = file /\ r.tab[1] = t[1]
    <3>1. 0 # i.fd /\ 1 # i.fd /\ 0 # 1 /\ 1 # s.fd
      BY <2>3, <2>4
    <3> QED BY <1>3, <2>3, <2>4, <2>7, <2>8, <3>1
  <2>10. s.fd # -1 => r.tab[s.fd] = t[0]
    <3>1. s.fd # -1 => s.fd # 0
      BY <2>4
    <3> QED BY <2>3, <2>4, <2>5, <2>7, <2>8, <3>1
  <2>11. Ready(v) /\ (s.fd # -1 => v[0] = t[0] /\ \A x \in Fds \ {0} : v[x] = r.tab[x])
    <3>1. s.fd = -1 \/ r.tab[s.fd] # Closed
      BY <1>2, <2>3, <2>10
    <3> QED BY <2>4, <2>6, <2>8, <2>10, <3>1, TableIs
  <2>12. AtTerminal(t) /\ ~r.short => AtTerminal(v)
    <3> SUFFICES ASSUME AtTerminal(t), s.fd # -1 PROVE AtTerminal(v)
      BY <1>2, <2>1
    <3>1. v[0] = t[0] /\ v[1] = t[1]
      BY <1>3, <2>9, <2>11
    <3>2. ASSUME NEW x \in Fds PROVE v[x] \in {t[x], t[0], Closed}
      <4>1. CASE x = 0
        BY <2>11, <4>1
      <4>2. CASE x # 0 /\ x = i.fd
        BY <2>8, <2>11, <4>2
      <4>3. CASE x # 0 /\ x # i.fd /\ x = s.fd
        BY <2>10, <2>11, <4>3
      <4>4. CASE x # 0 /\ x # i.fd /\ x # s.fd
        BY <2>3, <2>4, <2>7, <2>8, <2>11, <4>4
      <4> QED BY <4>1, <4>2, <4>3, <4>4
    <3>3. Closed \notin Files
      BY FilesAssumption
    <3> QED BY <1>3, <3>1, <3>2, <3>3 DEF AtTerminal
  <2>13. r.cmd \in Cmds
    BY <2>2, <2>4 DEF Cmds, Saved
  <2>14. Undoable(t, r)
    BY <2>8, <2>11, <2>12, <2>13 DEF Undoable
  <2> QED BY <2>2, <2>9, <2>14
<1> QED BY <1>4, <1>5

\* What dup and open leave, apart from the descriptor they took.
LEMMA MoreIs ==
    ASSUME NEW o, NEW t, NEW target, More(o, t, target)
    PROVE  /\ o.fd \in Saved /\ (o.fd = -1 \/ o.fd >= 3)
           /\ \A d \in Fds \ {o.fd} : o.tab[d] = t[d]
           /\ o.fd # -1 => /\ o.fd \in Fds /\ o.fd >= 3
                           /\ o.tab[o.fd] = target /\ target # Closed /\ t[o.fd] = Closed
           /\ o.tab[0] = t[0] /\ o.tab[1] = t[1]
BY DEF More

\* Input and output.  Two descriptors save 1 and 0; that the files could be opened tells
\* that there were descriptors for both.
LEMMA BothIs ==
    ASSUME exists \subseteq Files, NEW t, Ready(t), NEW in, NEW out, NEW line \in Seq(STRING)
    PROVE  LET r == Both(t, in, out, line)
           IN /\ Undoable(t, r) /\ r.cmd.line = line
              /\ r.ok => r.tab[0] = in
              /\ r.ok /\ ~r.short => r.tab[1] = IF out \in Writable THEN out ELSE t[1]
<1>a. PICK r, s1, s0, i, o :
        /\ r = Both(t, in, out, line) /\ s1 = dup(t, 1) /\ s0 = dup(s1.tab, 0)
        /\ i = openRead(s0.tab, in) /\ o = openWrite(i.tab, out)
  OBVIOUS
<1>1. Ready(s1.tab) /\ More(s1, t, t[1]) /\ (s1.fd = -1 <=> Full(t)) /\ t[1] # Closed
  BY <1>a, DupIs
<1>2. Ready(s0.tab) /\ More(s0, s1.tab, s1.tab[0]) /\ (s0.fd = -1 <=> Full(s1.tab)) /\ s1.tab[0] # Closed
  BY <1>a, <1>1, DupIs
<1>3. Ready(i.tab) /\ More(i, s0.tab, in) /\ (i.fd # -1 => ~Full(s0.tab))
  BY <1>a, <1>2, ReadIs
<1>4. Ready(o.tab) /\ More(o, i.tab, out) /\ (o.fd = -1 /\ out \in Writable => Full(i.tab))
      /\ (o.fd # -1 => out \in Writable)
  BY <1>a, <1>3, WriteIs
<1>5. 0 \in Fds /\ 1 \in Fds /\ -1 \notin Fds
  BY TableIs
<1>b. PICK f1, f0, fin, fout : f1 = s1.fd /\ f0 = s0.fd /\ fin = i.fd /\ fout = o.fd
  OBVIOUS
<1>c. PICK t1, t0, tin, tout : t1 = s1.tab /\ t0 = s0.tab /\ tin = i.tab /\ tout = o.tab
  OBVIOUS
<1>6. /\ f1 \in Saved /\ (f1 = -1 \/ f1 >= 3) /\ \A d \in Fds \ {f1} : t1[d] = t[d]
      /\ f1 # -1 => f1 \in Fds /\ f1 >= 3 /\ t1[f1] = t[1] /\ t[f1] = Closed
      /\ t1[0] = t[0] /\ t1[1] = t[1]
  BY <1>b, <1>c, <1>1, MoreIs
<1>7. /\ f0 \in Saved /\ (f0 = -1 \/ f0 >= 3) /\ \A d \in Fds \ {f0} : t0[d] = t1[d]
      /\ f0 # -1 => f0 \in Fds /\ f0 >= 3 /\ t0[f0] = t[0] /\ t1[f0] = Closed
      /\ t0[0] = t[0] /\ t0[1] = t[1] /\ t[0] # Closed
  BY <1>b, <1>c, <1>2, <1>6, MoreIs
<1>8. CASE fin = -1
  <2>1. r.tab = t0 /\ r.cmd = Plain(line) /\ ~r.ok
    BY <1>a, <1>b, <1>c, <1>8 DEF Both
  <2>2. AtTerminal(t) => AtTerminal(t0)
    <3>1. \A x \in Fds : t0[x] \in {t[x], t[0], t[1]}
      BY <1>5, <1>6, <1>7
    <3> QED BY <1>5, <1>7, <3>1 DEF AtTerminal
  <2> QED BY <1>a, <1>c, <1>2, <2>1, <2>2, PlainIs DEF Undoable
<1>9. CASE fin # -1
  <2>1. f0 # -1
    <3> SUFFICES ASSUME f0 = -1 PROVE FALSE
      OBVIOUS
    <3>1. Full(t1) /\ ~Full(t0)
      BY <1>b, <1>c, <1>2, <1>3, <1>9
    <3>2. \A d \in Fds : t0[d] = t1[d]
      BY <1>5, <1>7
    <3> QED BY <3>1, <3>2 DEF Full
  <2>2. f1 # -1
    <3> SUFFICES ASSUME f1 = -1 PROVE FALSE
      OBVIOUS
    <3>1. Full(t) /\ ~Full(t1)
      BY <1>b, <1>c, <1>1, <1>2, <2>1
    <3>2. \A d \in Fds : t1[d] = t[d]
      BY <1>5, <1>6
    <3> QED BY <3>1, <3>2 DEF Full
  <2>3. /\ fin \in Fds /\ fin >= 3 /\ fin \in Saved /\ tin[fin] = in /\ in # Closed /\ t0[fin] = Closed
        /\ \A d \in Fds \ {fin} : tin[d] = t0[d]
        /\ tin[0] = t[0] /\ tin[1] = t[1]
    BY <1>b, <1>c, <1>3, <1>7, <1>9, MoreIs
  <2>4. /\ fout \in Saved /\ (fout = -1 \/ fout >= 3) /\ \A d \in Fds \ {fout} : tout[d] = tin[d]
        /\ fout # -1 => fout \in Fds /\ fout >= 3 /\ tout[fout] = out /\ out # Closed /\ tin[fout] = Closed
        /\ tout[0] = t[0] /\ tout[1] = t[1]
    BY <1>b, <1>c, <1>4, <2>3, MoreIs
  <2>5. /\ f1 \in Fds /\ f1 >= 3 /\ t1[f1] = t[1] /\ f0 \in Fds /\ f0 >= 3 /\ t0[f0] = t[0]
        /\ t[f1] = Closed /\ t1[f0] = Closed /\ t[0] # Closed /\ t[1] # Closed
        /\ f1 \in Saved /\ f0 \in Saved
    BY <1>1, <1>6, <1>7, <2>1, <2>2
  <2>6. f1 # f0 /\ f1 # fin /\ f0 # fin
    <3>1. f1 # f0
      BY <2>5
    <3>2. t0[f1] = t[1]
      BY <1>7, <2>5, <3>1
    <3> QED BY <2>3, <2>5, <3>1, <3>2
  <2>7. fout # f1 /\ fout # f0 /\ fout # fin
    <3>1. tin[f1] = t[1] /\ tin[f0] = t[0]
      BY <1>7, <2>3, <2>5, <2>6
    <3>2. fout # -1 => tin[fout] = Closed
      BY <2>4
    <3>3. tin[f1] # Closed /\ tin[f0] # Closed /\ tin[fin] # Closed
      BY <2>3, <2>5, <3>1
    <3>4. f1 # -1 /\ f0 # -1 /\ fin # -1
      BY <1>9, <2>1, <2>2
    <3> QED BY ONLY <3>2, <3>3, <3>4
  <2>8. tout[fin] = in /\ tout[f1] = t[1] /\ tout[f0] = t[0]
    BY <1>6, <1>7, <2>3, <2>4, <2>5, <2>6, <2>7
  <2>p. PICK a, b, c, d, e, v :
          /\ a = dup2(tout, fin, 0) /\ b = dup2(a, fout, 1) /\ c = close(b, fin) /\ d = close(c, fout)
          /\ e = dup2(d, f1, 0) /\ v = dup2(e, f0, 1)
    OBVIOUS
  <2>9. /\ r.tab = d /\ r.ok /\ r.short = Full(tin)
        /\ r.cmd = [Plain(line) EXCEPT !.form = "both", !.saveStdin = f1, !.saveStdout = f0]
    BY <1>a, <1>b, <1>c, <2>p, <1>9 DEF Both
  <2>10. /\ r.cmd.form = "both" /\ r.cmd.saveStdin = f1 /\ r.cmd.saveStdout = f0 /\ r.cmd.line = line
         /\ r.cmd = [form |-> "both", fd |-> -1, saveStdin |-> f1, saveStdout |-> f0, line |-> line]
    BY <2>9 DEF Plain
  <2>11. v = Restore(r.tab, r.cmd)
    BY <2>p, <2>9, <2>10 DEF Restore
  <2>12. Ready(a) /\ a[0] = in /\ \A x \in Fds \ {0} : a[x] = tout[x]
    BY <1>c, <1>4, <1>9, <2>3, <2>8, <2>p, TableIs
  <2>13. /\ Ready(b) /\ (fout = -1 => b = a)
         /\ (fout # -1 => b[1] = out /\ \A x \in Fds \ {1} : b[x] = a[x])
    <3>1. fout # -1 => a[fout] = out /\ out # Closed
      BY <2>4, <2>12
    <3> QED BY <2>4, <2>12, <3>1, <2>p, TableIs
  <2>14. Ready(c) /\ c[fin] = Closed /\ \A x \in Fds \ {fin} : c[x] = b[x]
    BY <1>9, <2>3, <2>13, <2>p, TableIs
  <2>15. /\ Ready(d) /\ (fout = -1 => d = c)
         /\ (fout # -1 => d[fout] = Closed /\ \A x \in Fds \ {fout} : d[x] = c[x])
    BY <2>4, <2>14, <2>p, TableIs
  <2>16. /\ d[0] = in
         /\ d[1] = IF fout = -1 THEN t[1] ELSE out
         /\ d[f1] = t[1] /\ d[f0] = t[0]
    <3>1. /\ 0 # 1 /\ 0 # fin /\ 0 # fout /\ 1 # fin /\ 1 # fout /\ f1 # 0 /\ f1 # 1 /\ f0 # 0 /\ f0 # 1
          /\ f1 \in Fds /\ f0 \in Fds
      BY <2>3, <2>4, <2>5
    <3> QED BY <1>5, <2>4, <2>6, <2>7, <2>8, <2>12, <2>13, <2>14, <2>15, <3>1
  <2>17. Ready(e) /\ e[0] = t[1] /\ \A x \in Fds \ {0} : e[x] = d[x]
    BY <2>2, <2>5, <2>15, <2>16, <2>p, TableIs
  <2>18. Ready(v) /\ v[1] = t[0] /\ \A x \in Fds \ {1} : v[x] = e[x]
    <3>1. e[f0] = t[0]
      BY <2>5, <2>16, <2>17
    <3> QED BY <2>1, <2>5, <2>17, <3>1, <2>p, TableIs
  <2>19. AtTerminal(t) => AtTerminal(v)
    <3> SUFFICES ASSUME AtTerminal(t) PROVE AtTerminal(v)
      OBVIOUS
    <3>1. v[0] = t[1] /\ v[1] = t[0]
      BY <1>5, <2>17, <2>18
    <3>2. ASSUME NEW x \in Fds PROVE v[x] \in {t[x], t[0], t[1], Closed}
      <4>1. CASE x \in {0, 1}
        BY <3>1, <4>1
      <4>2. CASE x \notin {0, 1} /\ x = fout
        BY <1>5, <2>15, <2>17, <2>18, <4>2
      <4>3. CASE x \notin {0, 1} /\ x # fout /\ x = fin
        BY <2>14, <2>15, <2>17, <2>18, <4>3
      <4>4. CASE x \notin {0, 1} /\ x \notin {fout, fin}
        <5>1. v[x] = tout[x]
          BY <2>12, <2>13, <2>14, <2>15, <2>17, <2>18, <4>4
        <5>2. tout[x] = t0[x]
          BY <2>3, <2>4, <4>4
        <5> QED BY <1>6, <1>7, <2>5, <5>1, <5>2
      <4> QED BY <4>1, <4>2, <4>3, <4>4
    <3>3. Closed \notin Files
      BY FilesAssumption
    <3> QED BY <1>5, <3>1, <3>2, <3>3 DEF AtTerminal
  <2>20. r.cmd \in Cmds
    BY <1>6, <1>7, <2>10 DEF Cmds, Saved
  <2>21. Undoable(t, r)
    BY <2>9, <2>11, <2>15, <2>18, <2>19, <2>20 DEF Undoable
  <2> QED BY <1>a, <1>b, <1>c, <1>4, <2>9, <2>10, <2>16, <2>21
<1> QED BY <1>8, <1>9

-----------------------------------------------------------------------------
(* Lines *)

\* The only place of a symbol in s.
Once(s, x, j) == j \in 1 .. Len(s) /\ s[j] = x /\ \A i \in 1 .. Len(s) : s[i] = x => i = j
Never(s, x) == \A i \in 1 .. Len(s) : s[i] # x

\* A word that ends before e and what is behind it; x is all there is before its first f.
Cut(s, x, a, f, e) ==
    /\ f \in 1 .. Len(s) /\ e \in (f + 1) .. (Len(s) + 1)
    /\ \A i \in 1 .. (f - 1) : s[i] = x
    /\ \A i \in f .. (e - 1) : s[i] # x
    /\ e <= Len(s) => s[e] = x
    /\ a.piece = SubSeq(s, f, e - 1)
    /\ a.rest = SubSeq(s, e + 1, Len(s))

\* What strtok_r takes from a string.
LEMMA StrtokIs ==
    ASSUME NEW s \in Seq(STRING), NEW x
    PROVE  \/ strtok(s, {x}).piece = <<>> /\ strtok(s, {x}).rest = <<>> /\ \A i \in 1 .. Len(s) : s[i] = x
           \/ \E f, e \in Nat : Cut(s, x, strtok(s, {x}), f, e)
<1> DEFINE word == {i \in DOMAIN s : s[i] \notin {x}}
           first == CHOOSE i \in word : \A j \in word : i <= j
           ends == {i \in DOMAIN s : i > first /\ s[i] \in {x}}
           end == CHOOSE i \in ends : \A j \in ends : i <= j
<1>0. PICK a : a = strtok(s, {x})
  OBVIOUS
<1>1. a = IF word = {} THEN [piece |-> <<>>, rest |-> <<>>]
          ELSE IF ends = {} THEN [piece |-> SubSeq(s, first, Len(s)), rest |-> <<>>]
          ELSE [piece |-> SubSeq(s, first, end - 1), rest |-> SubSeq(s, end + 1, Len(s))]
  BY <1>0 DEF strtok
<1>2. /\ Len(s) \in Nat /\ DOMAIN s = 1 .. Len(s)
      /\ word = {i \in 1 .. Len(s) : s[i] # x}
      /\ ends = {i \in 1 .. Len(s) : i > first /\ s[i] = x}
  OBVIOUS
<1>3. word # {} => first \in word /\ \A j \in word : first <= j
  <2> HIDE DEF word
  <2>1. word \in SUBSET Nat
    BY <1>2
  <2>2. word # {} => \E i \in word : \A j \in word : i <= j
    BY ONLY <2>1, LeastNumber
  <2> QED BY <2>2
<1> HIDE DEF first, word
<1>4. ends # {} => end \in ends /\ \A j \in ends : end <= j
  <2> HIDE DEF ends
  <2>1. ends \in SUBSET Nat
    BY <1>2
  <2>2. ends # {} => \E i \in ends : \A j \in ends : i <= j
    BY ONLY <2>1, LeastNumber
  <2> QED BY <2>2
<1> HIDE DEF ends, end
<1>5. CASE word = {}
  <2>1. a.piece = <<>> /\ a.rest = <<>>
    BY <1>1, <1>5
  <2>2. \A i \in 1 .. Len(s) : s[i] = x
    BY <1>2, <1>5
  <2> QED BY <1>0, <2>1, <2>2
<1>6. CASE word # {} /\ ends = {}
  <2>0. a = [piece |-> SubSeq(s, first, Len(s)), rest |-> <<>>]
    BY <1>1, <1>6
  <2>1. a.piece = SubSeq(s, first, Len(s)) /\ a.rest = <<>> /\ first \in 1 .. Len(s) /\ s[first] # x
    BY <1>2, <1>3, <1>6, <2>0
  <2>2. Len(s) + 1 + 1 \in Int /\ Len(s) \in Int /\ Len(s) < Len(s) + 1 + 1
    BY <1>2
  <2>3. SubSeq(s, Len(s) + 1 + 1, Len(s)) = <<>>
    BY ONLY <2>2, SubSeqEmpty
  <2>4. \A i \in first .. Len(s) : s[i] # x
    BY <1>2, <1>6, <2>1
  <2>5. \A i \in 1 .. (first - 1) : s[i] = x
    BY <1>2, <1>3, <1>6, <2>1
  <2>6. Len(s) + 1 - 1 = Len(s) /\ Len(s) + 1 \in (first + 1) .. (Len(s) + 1) /\ ~(Len(s) + 1 <= Len(s))
    BY <1>2, <2>1
  <2>7. Cut(s, x, a, first, Len(s) + 1)
    BY <2>1, <2>3, <2>4, <2>5, <2>6 DEF Cut
  <2>8. first \in Nat /\ Len(s) + 1 \in Nat
    BY <1>2, <2>1
  <2>9. \E f, e \in Nat : Cut(s, x, a, f, e)
    BY ONLY <2>7, <2>8
  <2> QED BY <1>0, <2>9
<1>7. CASE word # {} /\ ends # {}
  <2>0. a = [piece |-> SubSeq(s, first, end - 1), rest |-> SubSeq(s, end + 1, Len(s))]
    BY <1>1, <1>7
  <2>1. /\ a.piece = SubSeq(s, first, end - 1) /\ a.rest = SubSeq(s, end + 1, Len(s))
        /\ first \in 1 .. Len(s) /\ s[first] # x /\ end \in 1 .. Len(s) /\ end > first /\ s[end] = x
    BY <1>2, <1>3, <1>4, <1>7, <2>0
  <2>2. \A i \in first .. (end - 1) : s[i] # x
    BY <1>2, <1>4, <1>7, <2>1
  <2>3. \A i \in 1 .. (first - 1) : s[i] = x
    BY <1>2, <1>3, <1>7, <2>1
  <2>4. end \in (first + 1) .. (Len(s) + 1)
    BY <1>2, <2>1
  <2>5. Cut(s, x, a, first, end)
    BY <2>1, <2>2, <2>3, <2>4 DEF Cut
  <2>6. first \in Nat /\ end \in Nat
    BY <1>2, <2>1
  <2>7. \E f, e \in Nat : Cut(s, x, a, f, e)
    BY ONLY <2>5, <2>6
  <2> QED BY <1>0, <2>7
<1> QED BY <1>5, <1>6, <1>7

\* Part of a string is a string.
LEMMA PartIs ==
    ASSUME NEW s \in Seq(STRING), NEW m \in Nat, m >= 1, NEW n \in Nat, n <= Len(s)
    PROVE  /\ SubSeq(s, m, n) \in Seq(STRING)
           /\ Len(SubSeq(s, m, n)) = IF m <= n THEN n - m + 1 ELSE 0
           /\ \A i \in 1 .. (n - m + 1) : SubSeq(s, m, n)[i] = s[m + i - 1]
<1>1. \A i \in m .. n : s[i] \in STRING
  OBVIOUS
<1>2. m \in Int /\ n \in Int
  OBVIOUS
<1> QED BY ONLY <1>1, <1>2, SubSeqProperties

\* A string without the symbol is one piece.
LEMMA StrtokNone ==
    ASSUME NEW s \in Seq(STRING), NEW x, Never(s, x)
    PROVE  strtok(s, {x}).piece = s
<1> PICK a : a = strtok(s, {x})
  OBVIOUS
<1>1. CASE Len(s) = 0
  <2>1. s = <<>> /\ ~\E f, e \in Nat : Cut(s, x, a, f, e)
    BY <1>1 DEF Cut
  <2> QED BY <2>1, StrtokIs
<1>2. CASE Len(s) # 0
  <2>0. ~\A i \in 1 .. Len(s) : s[i] = x
    <3>1. 1 \in 1 .. Len(s)
      BY <1>2
    <3> QED BY <3>1 DEF Never
  <2>1. PICK f, e \in Nat : Cut(s, x, a, f, e)
    BY <2>0, StrtokIs
  <2>2. f = 1 /\ e = Len(s) + 1
    BY <2>1 DEF Never, Cut
  <2>3. a.piece = SubSeq(s, 1, Len(s))
    <3>1. a.piece = SubSeq(s, f, e - 1) /\ f = 1
      BY <2>1, <2>2 DEF Cut
    <3>2. e - 1 = Len(s)
      BY <2>2
    <3> QED BY ONLY <3>1, <3>2
  <2> QED BY <2>3, SubSeqFull
<1> QED BY <1>1, <1>2

\* Nothing comes of nothing.
LEMMA StrtokEmpty == \A x : strtok(<<>>, {x}).piece = <<>>
<1> TAKE x
<1>1. <<>> \in Seq(STRING) /\ Never(<<>>, x)
  BY DEF Never
<1> QED BY ONLY <1>1, StrtokNone

\* A string with the symbol once, that leaves something on both sides of it.
LEMMA StrtokOnce ==
    ASSUME NEW s \in Seq(STRING), NEW x, NEW j, Once(s, x, j),
           strtok(s, {x}).piece # <<>>, \E y : strtok(strtok(s, {x}).rest, {y}).piece # <<>>
    PROVE  strtok(s, {x}).piece = SubSeq(s, 1, j - 1) /\ strtok(s, {x}).rest = SubSeq(s, j + 1, Len(s))
<1> PICK a : a = strtok(s, {x})
  OBVIOUS
<1>1. PICK f, e \in Nat : Cut(s, x, a, f, e)
  BY StrtokIs
<1>2. j \in 1 .. Len(s) /\ s[j] = x /\ \A i \in 1 .. Len(s) : s[i] = x => i = j
  BY DEF Once
<1>3. a.rest # <<>>
  BY StrtokEmpty
<1>4. e <= Len(s)
  <2> SUFFICES ASSUME e > Len(s) PROVE FALSE
    BY <1>1 DEF Cut
  <2>1. e + 1 \in Int /\ Len(s) \in Int /\ Len(s) < e + 1
    BY <1>1
  <2>2. SubSeq(s, e + 1, Len(s)) = <<>>
    BY ONLY <2>1, SubSeqEmpty
  <2> QED BY <1>1, <1>3, <2>2 DEF Cut
<1>5. e = j
  BY <1>1, <1>2, <1>4 DEF Cut
<1>6. f = 1
  <2> SUFFICES ASSUME f # 1 PROVE FALSE
    OBVIOUS
  <2>1. s[1] = x /\ 1 \in 1 .. Len(s) /\ 1 # e
    BY <1>1 DEF Cut
  <2> QED BY <1>2, <1>5, <2>1
<1> QED BY <1>1, <1>5, <1>6 DEF Cut

\* White space is at the start of a line only.
Typed(s) == s \in Seq(STRING) /\ \A i \in 1 .. Len(s) : s[i] = BLANK => i = 1

\* What is behind the first word of a line has no white space left.
LEMMA WordsAre ==
    ASSUME NEW s, Typed(s), NEW m \in Nat, m > 1, NEW n \in Nat, n <= Len(s)
    PROVE  tokenizer(SubSeq(s, m, n)) = SubSeq(s, m, n)
<1> PICK r : r = SubSeq(s, m, n)
  OBVIOUS
<1>1. r \in Seq(STRING) /\ Len(r) = (IF m <= n THEN n - m + 1 ELSE 0)
      /\ \A i \in 1 .. (n - m + 1) : r[i] = s[m + i - 1]
  BY PartIs DEF Typed
<1>2. CASE r = <<>>
  BY <1>2 DEF tokenizer
<1>3. CASE r # <<>>
  <2>1. m <= n /\ 1 \in 1 .. (n - m + 1) /\ m + 1 - 1 = m /\ m \in 1 .. Len(s)
    BY <1>1, <1>3 DEF Typed
  <2>2. r[1] = s[m]
    BY <1>1, <2>1
  <2>3. r[1] # BLANK
    BY <2>1, <2>2 DEF Typed
  <2> QED BY <2>3 DEF tokenizer
<1> QED BY <1>2, <1>3

\* The file of a line with one redirection is the word behind the symbol.
LEMMA OneFile ==
    ASSUME NEW s, Typed(s), NEW x, NEW j, Once(s, x, j),
           split(s, x)[1] # <<>>, Len(tokenizer(split(s, x)[2])) = 1
    PROVE  j + 1 \in 1 .. Len(s) /\ tokenizer(split(s, x)[2])[1] = s[j + 1]
<1>1. PICK a, b : /\ a = strtok(s, {x}) /\ b = strtok(a.rest, {x})
                  /\ a.piece # <<>> /\ Len(tokenizer(b.piece)) = 1 /\ split(s, x)[2] = b.piece
  BY DEF split
<1>2. b.piece # <<>>
  <2>1. Len(tokenizer(<<>>)) = 0
    BY DEF tokenizer
  <2> QED BY <1>1, <2>1
<1>3. s \in Seq(STRING) /\ Len(s) \in Nat /\ j \in Nat /\ j >= 1 /\ j <= Len(s)
  BY DEF Typed, Once
<1>4. a.rest = SubSeq(s, j + 1, Len(s))
  BY <1>1, <1>2, <1>3, StrtokOnce
<1>5. /\ a.rest \in Seq(STRING) /\ Len(a.rest) = (IF j + 1 <= Len(s) THEN Len(s) - (j + 1) + 1 ELSE 0)
      /\ \A i \in 1 .. (Len(s) - (j + 1) + 1) : a.rest[i] = s[(j + 1) + i - 1]
  BY <1>3, <1>4, PartIs
<1>6. Never(a.rest, x)
  <2> SUFFICES ASSUME NEW i \in 1 .. Len(a.rest) PROVE a.rest[i] # x
    BY DEF Never
  <2>1. i \in 1 .. (Len(s) - (j + 1) + 1) /\ (j + 1) + i - 1 \in 1 .. Len(s) /\ (j + 1) + i - 1 # j
    BY <1>3, <1>5
  <2> QED BY <1>5, <2>1 DEF Once
<1>7. b.piece = a.rest
  BY <1>1, <1>5, <1>6, StrtokNone
<1>8. tokenizer(b.piece) = a.rest
  <2>1. j + 1 \in Nat /\ j + 1 > 1 /\ Len(s) <= Len(s)
    BY <1>3
  <2> QED BY <1>3, <1>4, <1>7, <2>1, WordsAre
<1>9. Len(a.rest) = 1
  BY <1>1, <1>8
<1>10. 1 \in 1 .. (Len(s) - (j + 1) + 1) /\ (j + 1) + 1 - 1 = j + 1 /\ j + 1 \in 1 .. Len(s)
  <2>1. PICK N, L : N = Len(s) /\ N \in Nat /\ L = Len(a.rest) /\ L = 1
    BY <1>3, <1>9
  <2>2. L = IF j + 1 <= N THEN N - (j + 1) + 1 ELSE 0
    BY <1>5, <2>1
  <2>3. 1 \in 1 .. (N - (j + 1) + 1) /\ (j + 1) + 1 - 1 = j + 1 /\ j + 1 \in 1 .. N
    BY ONLY <1>3, <2>1, <2>2
  <2> QED BY ONLY <2>1, <2>3
<1>11. a.rest[1] = s[(j + 1) + 1 - 1]
  BY <1>5, <1>10
<1> QED BY <1>1, <1>8, <1>10, <1>11

\* What strtok_r yields for the two symbols, and one word each.
TwoPieces(s, x, y, a, b, c) ==
    /\ a = strtok(s, {x}) /\ b = strtok(a.rest, {y}) /\ c = strtok(b.rest, {y})
    /\ a.piece # <<>> /\ b.piece # <<>> /\ c.piece # <<>>
    /\ Len(tokenizer(b.piece)) = 1 /\ Len(tokenizer(c.piece)) = 1

\* The files of a line with two of them are the words behind the symbols, x the first.
LEMMA TwoFiles ==
    ASSUME NEW s, Typed(s), NEW x, NEW j, Once(s, x, j), NEW y, NEW k, Once(s, y, k), j < k,
           NEW a, NEW b, NEW c, TwoPieces(s, x, y, a, b, c)
    PROVE  /\ j + 1 \in 1 .. Len(s) /\ tokenizer(b.piece)[1] = s[j + 1]
           /\ k + 1 \in 1 .. Len(s) /\ tokenizer(c.piece)[1] = s[k + 1]
<1>0. /\ a = strtok(s, {x}) /\ b = strtok(a.rest, {y}) /\ c = strtok(b.rest, {y})
      /\ a.piece # <<>> /\ b.piece # <<>> /\ c.piece # <<>>
      /\ Len(tokenizer(b.piece)) = 1 /\ Len(tokenizer(c.piece)) = 1
  BY DEF TwoPieces
<1>1. PICK N : /\ N = Len(s) /\ N \in Nat /\ s \in Seq(STRING) /\ j \in Nat /\ j >= 1 /\ j <= N
               /\ k \in Nat /\ k >= 1 /\ k <= N /\ s[k] = y
               /\ \A i \in 1 .. N : s[i] = y => i = k
  BY DEF Typed, Once
<1>2. a.rest = SubSeq(s, j + 1, N)
  <2>1. /\ strtok(s, {x}).piece # <<>> /\ strtok(strtok(s, {x}).rest, {y}).piece # <<>>
        /\ s \in Seq(STRING) /\ Once(s, x, j)
    BY <1>0, <1>1
  <2>2. \E z : strtok(strtok(s, {x}).rest, {z}).piece # <<>>
    BY ONLY <2>1
  <2>3. strtok(s, {x}).rest = SubSeq(s, j + 1, Len(s))
    BY ONLY <2>1, <2>2, StrtokOnce
  <2> QED BY <1>0, <1>1, <2>3
<1>3. /\ a.rest \in Seq(STRING) /\ Len(a.rest) = N - j
      /\ \A i \in 1 .. (N - j) : a.rest[i] = s[j + i]
  <2>1. j + 1 \in Nat /\ j + 1 >= 1 /\ N <= N /\ N - (j + 1) + 1 = N - j /\ j + 1 <= N
    BY <1>1
  <2>0. PICK ar : ar = SubSeq(s, j + 1, N) /\ ar = a.rest
    BY <1>2
  <2>2. /\ ar \in Seq(STRING) /\ Len(ar) = (IF j + 1 <= N THEN N - (j + 1) + 1 ELSE 0)
        /\ \A i \in 1 .. (N - (j + 1) + 1) : ar[i] = s[(j + 1) + i - 1]
    BY ONLY <1>1, <2>0, <2>1, PartIs
  <2>3. \A i \in 1 .. (N - j) : (j + 1) + i - 1 = j + i
    BY <1>1
  <2>4. /\ ar \in Seq(STRING) /\ Len(ar) = N - j /\ \A i \in 1 .. (N - j) : ar[i] = s[j + i]
    <3>1. Len(ar) = N - j /\ \A i \in 1 .. (N - j) : ar[i] = s[(j + 1) + i - 1]
      BY ONLY <1>1, <2>1, <2>2
    <3> QED BY ONLY <2>2, <2>3, <3>1
  <2> QED BY ONLY <2>0, <2>4
<1>4. Once(a.rest, y, k - j)
  <2>1. k - j \in 1 .. (N - j) /\ j + (k - j) = k
    BY <1>1
  <2>2. a.rest[k - j] = y
    BY <1>1, <1>3, <2>1
  <2>3. ASSUME NEW i \in 1 .. (N - j), a.rest[i] = y PROVE i = k - j
    <3>1. j + i \in 1 .. N
      BY ONLY <1>1, <2>3
    <3>2. s[j + i] = y
      BY ONLY <1>3, <2>3
    <3>3. j + i = k
      BY ONLY <1>1, <3>1, <3>2
    <3> QED BY ONLY <1>1, <2>3, <3>3
  <2> QED BY <1>3, <2>1, <2>2, <2>3 DEF Once
<1>5. b.piece = SubSeq(a.rest, 1, k - j - 1) /\ b.rest = SubSeq(a.rest, k - j + 1, N - j)
  <2>1. /\ strtok(a.rest, {y}).piece # <<>> /\ strtok(strtok(a.rest, {y}).rest, {y}).piece # <<>>
        /\ a.rest \in Seq(STRING) /\ Once(a.rest, y, k - j) /\ Len(a.rest) = N - j
    BY <1>0, <1>3, <1>4
  <2>2. PICK ar : ar = a.rest
    OBVIOUS
  <2>3. /\ strtok(ar, {y}).piece = SubSeq(ar, 1, (k - j) - 1)
        /\ strtok(ar, {y}).rest = SubSeq(ar, (k - j) + 1, Len(ar))
    <3>1. \E z : strtok(strtok(ar, {y}).rest, {z}).piece # <<>>
      BY ONLY <2>1, <2>2
    <3> QED BY ONLY <2>1, <2>2, <3>1, StrtokOnce
  <2> QED BY <1>0, <2>1, <2>2, <2>3
<1>6. /\ b.piece \in Seq(STRING) /\ Len(b.piece) = k - j - 1
      /\ \A i \in 1 .. (k - j - 1) : b.piece[i] = s[j + i]
  <2>1. 1 \in Nat /\ 1 >= 1 /\ k - j - 1 \in Nat /\ k - j - 1 <= Len(a.rest)
    BY <1>1, <1>3
  <2>0. PICK ar, m : ar = a.rest /\ ar \in Seq(STRING) /\ m = k - j - 1
    BY <1>3
  <2>2. /\ b.piece \in Seq(STRING) /\ Len(b.piece) = (IF 1 <= m THEN m - 1 + 1 ELSE 0)
        /\ \A i \in 1 .. (m - 1 + 1) : b.piece[i] = ar[1 + i - 1]
    BY ONLY <1>5, <2>0, <2>1, PartIs
  <2>3. Len(b.piece) = k - j - 1 /\ m - 1 + 1 = k - j - 1
    BY ONLY <2>0, <2>1, <2>2
  <2>4. \A i \in 1 .. (k - j - 1) : 1 + i - 1 = i /\ i \in 1 .. (N - j)
    BY <1>1
  <2> QED BY ONLY <1>3, <2>0, <2>2, <2>3, <2>4
<1>7. /\ b.rest \in Seq(STRING) /\ Len(b.rest) = N - k
      /\ \A i \in 1 .. (N - k) : b.rest[i] = s[k + i]
  <2>1. k - j + 1 \in Nat /\ k - j + 1 >= 1 /\ N - j \in Nat /\ N - j <= Len(a.rest)
    BY <1>1, <1>3
  <2>0. PICK ar, l, m : ar = a.rest /\ ar \in Seq(STRING) /\ l = k - j + 1 /\ m = N - j
    BY <1>3
  <2>2. /\ b.rest \in Seq(STRING) /\ Len(b.rest) = (IF l <= m THEN m - l + 1 ELSE 0)
        /\ \A i \in 1 .. (m - l + 1) : b.rest[i] = ar[l + i - 1]
    BY ONLY <1>5, <2>0, <2>1, PartIs
  <2>3. Len(b.rest) = N - k /\ m - l + 1 = N - k
    BY ONLY <1>1, <2>0, <2>2
  <2>4. \A i \in 1 .. (N - k) : /\ (k - j + 1) + i - 1 \in 1 .. (N - j)
                                /\ j + ((k - j + 1) + i - 1) = k + i
    BY <1>1
  <2> QED BY ONLY <1>3, <2>0, <2>2, <2>3, <2>4
<1>8. Never(b.rest, y)
  <2> SUFFICES ASSUME NEW i \in 1 .. (N - k) PROVE b.rest[i] # y
    BY <1>7 DEF Never
  <2>1. k + i \in 1 .. N /\ k + i # k
    BY <1>1
  <2> QED BY <1>1, <1>7, <2>1
<1>9. c.piece = b.rest
  BY <1>0, <1>7, <1>8, StrtokNone
<1>10. tokenizer(b.piece) = b.piece
  <2>1. b.piece # <<>>
    BY <1>0
  <2>2. 1 \in 1 .. (k - j - 1) /\ j + 1 \in 1 .. Len(s) /\ j + 1 # 1
    BY <1>1, <1>6, <2>1
  <2>3. b.piece[1] # BLANK
    BY <1>6, <2>2 DEF Typed
  <2> QED BY <2>3 DEF tokenizer
<1>11. tokenizer(c.piece) = c.piece
  <2>1. 1 \in 1 .. (N - k) /\ k + 1 \in 1 .. Len(s) /\ k + 1 # 1
    BY <1>0, <1>1, <1>7, <1>9
  <2>2. c.piece[1] # BLANK
    BY <1>7, <1>9, <2>1 DEF Typed
  <2> QED BY <2>2 DEF tokenizer
<1>12. Len(b.piece) = 1 /\ Len(c.piece) = 1
  BY <1>0, <1>10, <1>11
<1>13. 1 \in 1 .. (k - j - 1) /\ 1 \in 1 .. (N - k) /\ j + 1 \in 1 .. Len(s) /\ k + 1 \in 1 .. Len(s)
  <2>1. k - j - 1 = 1 /\ N - k = 1
    BY ONLY <1>6, <1>7, <1>9, <1>12
  <2> QED BY ONLY <1>1, <2>1
<1> QED BY <1>6, <1>7, <1>9, <1>10, <1>11, <1>13

\* How often a symbol occurs.
LEMMA CountIs ==
    ASSUME NEW s, Typed(s), NEW x
    PROVE  /\ count(s, x) \in Nat
           /\ count(s, x) = 0 => Never(s, x)
           /\ count(s, x) = 1 => \E j : Once(s, x, j)
<1> DEFINE S == {i \in DOMAIN s : s[i] = x}
<1>1. /\ DOMAIN s = 1 .. Len(s) /\ Len(s) \in Nat
  BY DEF Typed
<1>2. IsFiniteSet(S)
  <2>1. IsFiniteSet(1 .. Len(s)) /\ S \in SUBSET (1 .. Len(s))
    BY <1>1, FS_Interval
  <2> HIDE DEF S
  <2> QED BY ONLY <2>1, FS_Subset
<1>3. count(s, x) = Cardinality(S)
  BY DEF count
<1>4. Cardinality(S) \in Nat /\ (Cardinality(S) = 0 => S = {}) /\ (Cardinality(S) = 1 => \E j : S = {j})
  <2> HIDE DEF S
  <2> QED BY ONLY <1>2, FS_CardinalityType, FS_EmptySet, FS_Singleton
<1>5. S = {} => Never(s, x)
  BY <1>1 DEF Never
<1>6. ASSUME NEW j, S = {j} PROVE Once(s, x, j)
  <2>1. j \in S /\ \A i \in S : i = j
    BY <1>6
  <2> QED BY <1>1, <2>1 DEF Once
<1> QED BY <1>3, <1>4, <1>5, <1>6

\* The redirections a line asks for, if it has each symbol at most once.
Effective(t, line) == count(line, "<") <= 1 /\ count(line, ">") <= 1 => InEffect(t, line)

Terminal == {"stdin", "stdout"}

\* The descriptors are as the line says if they are at each of its symbols.
LEMMA EffectIs ==
    ASSUME NEW s, Typed(s), NEW t,
           \A j : Once(s, "<", j) => t[0] = s[j + 1],
           Never(s, "<") => t[0] \in Terminal,
           \A k : Once(s, ">", k) => IF s[k + 1] \in Writable THEN t[1] = s[k + 1] ELSE t[1] \in Terminal,
           Never(s, ">") => t[1] \in Terminal
    PROVE  Effective(t, s)
<1> SUFFICES ASSUME count(s, "<") <= 1, count(s, ">") <= 1 PROVE InEffect(t, s)
  BY DEF Effective
<1> DEFINE after(x) == {s[i + 1] : i \in {j \in DOMAIN s : s[j] = x}}
<1>1. DOMAIN s = 1 .. Len(s)
  BY DEF Typed
<1>2. ASSUME NEW x, NEW j, Once(s, x, j) PROVE after(x) = {s[j + 1]} /\ Has(s, x)
  <2>1. {i \in DOMAIN s : s[i] = x} = {j}
    BY <1>1, <1>2 DEF Once
  <2>2. Has(s, x)
    BY <1>1, <1>2 DEF Once, Has
  <2> QED BY <2>1, <2>2
<1>3. ASSUME NEW x, Never(s, x) PROVE after(x) = {} /\ ~Has(s, x)
  BY <1>1, <1>3 DEF Never, Has
<1>4. t[0] \in (IF Has(s, "<") THEN after("<") ELSE Terminal)
  <2>1. Never(s, "<") \/ \E j : Once(s, "<", j)
    BY CountIs
  <2>2. CASE Never(s, "<")
    BY <1>3, <2>2
  <2>3. ASSUME NEW j, Once(s, "<", j) PROVE t[0] \in after("<") /\ Has(s, "<")
    BY <1>2, <2>3
  <2> HIDE DEF after
  <2> QED BY <2>1, <2>2, <2>3
<1>5. t[1] \in (IF after(">") \cap Writable # {} THEN after(">") ELSE Terminal)
  <2>1. Never(s, ">") \/ \E j : Once(s, ">", j)
    BY CountIs
  <2>2. CASE Never(s, ">")
    <3>1. after(">") = {} /\ t[1] \in Terminal
      BY <1>3, <2>2
    <3> HIDE DEF after
    <3> QED BY <3>1
  <2>3. ASSUME NEW k, Once(s, ">", k)
        PROVE  t[1] \in (IF after(">") \cap Writable # {} THEN after(">") ELSE Terminal)
    <3>1. after(">") = {s[k + 1]}
      BY <1>2, <2>3
    <3>2. IF s[k + 1] \in Writable THEN t[1] = s[k + 1] ELSE t[1] \in Terminal
      BY <2>3
    <3> HIDE DEF after
    <3> QED BY <3>1, <3>2
  <2> HIDE DEF after
  <2> QED BY <2>1, <2>2, <2>3
<1> HIDE DEF after
<1>6. InEffect(t, s) <=> /\ t[0] \in (IF Has(s, "<") THEN after("<") ELSE Terminal)
                         /\ t[1] \in (IF after(">") \cap Writable # {} THEN after(">") ELSE Terminal)
  BY DEF InEffect, after, Terminal
<1> QED BY <1>4, <1>5, <1>6

-----------------------------------------------------------------------------
(* What every process has open *)

\* The redirections can be undone, and the terminal is back then unless there were too few
\* descriptors.
Undo(t, c, short) ==
    /\ Ready(t) /\ Ready(Restore(t, c))
    /\ ~short => AtTerminal(Restore(t, c))

\* A process in a state, with a table t, redirections c to undo, and whether it starved.
Good(state, t, c, short) ==
    /\ state = "prompt" => Ready(t) /\ (~short => AtTerminal(t))
    /\ state \in {"forked", "suspend", "after", "child"} => Undo(t, c, short)
    /\ state = "program" => Ready(t)
    /\ state \in {"child", "program"} /\ ~short => Effective(t, c.line)

Holdings ==
    /\ fds \in [Procs -> Tables] /\ cmd \in [Procs -> Cmds]
    /\ starved \in [Procs -> BOOLEAN]
    /\ cwd \in [Procs -> Dirs] /\ oldpwd \in [Procs -> Dirs \cup {Unset}]
    /\ exists \subseteq Files

Descriptors == Holdings /\ \A p \in Procs : Good(pc[p], fds[p], cmd[p], starved[p])

\* A process that ends, or that changes its state as a shell that waits does.
LEMMA GoodIs ==
    ASSUME NEW t, NEW c, NEW short
    PROVE  /\ \A state \in {"none", "zombie"} : Good(state, t, c, short)
           /\ \A from, to \in {"forked", "suspend", "after"} : Good(from, t, c, short) => Good(to, t, c, short)
           /\ Good("child", t, c, short) => Good("program", t, c, short)
BY DEF Good, Undo

\* executor, on descriptors that can be undone.
LEMMA ExecutorHolds ==
    ASSUME ProcessTypes, Descriptors, NEW p \in Procs, pc[p] = "prompt",
           NEW t, NEW c \in Cmds, NEW short, executor(p, t, c, short), exists' \subseteq Files,
           Undo(t, c, starved[p] \/ short),
           ~starved[p] /\ ~short => Effective(t, c.line)
    PROVE  Descriptors'
<1>1. t \in Tables /\ Restore(t, c) \in Tables
  BY DEF Undo, Ready
<1>2. CASE \E q \in Procs : pc[q] = "none"
  <2>1. PICK k \in Procs : k = NewProcess /\ pc[k] = "none"
    BY <1>2 DEF NewProcess
  <2>2. /\ pc' = [pc EXCEPT ![p] = "forked", ![k] = "child"]
        /\ fds' = [fds EXCEPT ![p] = t, ![k] = t]
        /\ cmd' = [cmd EXCEPT ![p] = c, ![k] = c]
        /\ cwd' = [cwd EXCEPT ![k] = cwd[p]]
        /\ oldpwd' = [oldpwd EXCEPT ![k] = oldpwd[p]]
        /\ starved' = [starved EXCEPT ![p] = @ \/ short, ![k] = starved[p] \/ short]
    BY <1>2, <2>1 DEF executor
  <2>3. k # p
    BY <2>1
  <2>4. Holdings'
    BY <1>1, <2>2 DEF Descriptors, Holdings
  <2>5. Good("forked", t, c, starved[p] \/ short) /\ Good("child", t, c, starved[p] \/ short)
    BY DEF Good
  <2>6. ASSUME NEW q \in Procs PROVE Good(pc[q], fds[q], cmd[q], starved[q])'
    <3>1. CASE q \notin {p, k}
      <4>1. pc'[q] = pc[q] /\ fds'[q] = fds[q] /\ cmd'[q] = cmd[q] /\ starved'[q] = starved[q]
        BY <2>2, <3>1 DEF ProcessTypes, Descriptors, Holdings
      <4> QED BY <4>1 DEF Descriptors
    <3>2. CASE q = p
      <4>1. pc'[p] = "forked" /\ fds'[p] = t /\ cmd'[p] = c /\ starved'[p] = (starved[p] \/ short)
        BY <2>2, <2>3 DEF ProcessTypes, Descriptors, Holdings
      <4> QED BY <2>5, <3>2, <4>1
    <3>3. CASE q = k
      <4>1. pc'[k] = "child" /\ fds'[k] = t /\ cmd'[k] = c /\ starved'[k] = (starved[p] \/ short)
        BY <2>2, <2>3 DEF ProcessTypes, Descriptors, Holdings
      <4> QED BY <2>5, <3>3, <4>1
    <3> QED BY <3>1, <3>2, <3>3
  <2> QED BY <2>4, <2>6 DEF Descriptors
<1>3. CASE ~\E q \in Procs : pc[q] = "none"
  <2>1. /\ fds' = [fds EXCEPT ![p] = Restore(t, c)]
        /\ starved' = [starved EXCEPT ![p] = @ \/ short]
        /\ UNCHANGED <<pc, cmd, cwd, oldpwd>>
    BY <1>3 DEF executor, dirs
  <2>2. Holdings'
    BY <1>1, <2>1 DEF Descriptors, Holdings
  <2>3. ASSUME NEW q \in Procs PROVE Good(pc[q], fds[q], cmd[q], starved[q])'
    <3>1. CASE q # p
      <4>1. pc'[q] = pc[q] /\ fds'[q] = fds[q] /\ cmd'[q] = cmd[q] /\ starved'[q] = starved[q]
        BY <2>1, <3>1 DEF Descriptors, Holdings
      <4> QED BY <4>1 DEF Descriptors
    <3>2. CASE q = p
      <4>1. pc'[p] = "prompt" /\ fds'[p] = Restore(t, c) /\ starved'[p] = (starved[p] \/ short)
        BY <2>1 DEF Descriptors, Holdings
      <4>2. Good("prompt", Restore(t, c), cmd'[p], starved[p] \/ short)
        BY DEF Good, Undo
      <4> QED BY <3>2, <4>1, <4>2
    <3> QED BY <3>1, <3>2
  <2> QED BY <2>2, <2>3 DEF Descriptors
<1> QED BY <1>2, <1>3

\* redirect, on what one of the three forms made of the descriptors.
LEMMA RedirectHolds ==
    ASSUME ProcessTypes, Descriptors, NEW p \in Procs, pc[p] = "prompt", NEW line,
           NEW r, NEW created, created \subseteq Files, Redirect(p, line, r, created),
           Undoable(fds[p], r),
           AtTerminal(fds[p]) /\ r.ok /\ ~r.short => Effective(r.tab, r.cmd.line)
    PROVE  Descriptors'
<1> PICK t, c, short : t = r.tab /\ c = r.cmd /\ short = r.short
  OBVIOUS
<1>1. ~starved[p] => AtTerminal(fds[p])
  BY DEF Descriptors, Good
<1>2. c \in Cmds /\ Undo(t, c, starved[p] \/ short)
  BY <1>1 DEF Undoable, Undo
<1>3. exists' \subseteq Files
  BY DEF Redirect, Descriptors, Holdings
<1>4. CASE r.ok /\ executor(p, t, c, short)
  <2>1. ~starved[p] /\ ~short => Effective(t, c.line)
    BY <1>1, <1>4
  <2> QED BY <1>2, <1>3, <1>4, <2>1, ExecutorHolds
<1>5. CASE /\ fds' = [fds EXCEPT ![p] = Restore(t, c)]
           /\ starved' = [starved EXCEPT ![p] = @ \/ short]
           /\ UNCHANGED <<pc, cmd, dirs>>
  <2>1. Holdings'
    BY <1>2, <1>3, <1>5 DEF Descriptors, Holdings, Undo, Ready, dirs
  <2>3. ASSUME NEW q \in Procs PROVE Good(pc[q], fds[q], cmd[q], starved[q])'
    <3>1. CASE q # p
      <4>1. pc'[q] = pc[q] /\ fds'[q] = fds[q] /\ cmd'[q] = cmd[q] /\ starved'[q] = starved[q]
        BY <1>5, <3>1 DEF Descriptors, Holdings
      <4> QED BY <4>1 DEF Descriptors
    <3>2. CASE q = p
      <4>1. pc'[p] = "prompt" /\ fds'[p] = Restore(t, c) /\ starved'[p] = (starved[p] \/ short)
        BY <1>5 DEF Descriptors, Holdings
      <4>2. Good("prompt", Restore(t, c), cmd'[p], starved[p] \/ short)
        BY <1>2 DEF Good, Undo
      <4> QED BY <3>2, <4>1, <4>2
    <3> QED BY <3>1, <3>2
  <2> QED BY <2>1, <2>3 DEF Descriptors
<1> QED BY <1>4, <1>5 DEF Redirect

\* Steps that leave every process what it has.
LEMMA IdleHolds ==
    ASSUME Descriptors, UNCHANGED <<pc, fds, cmd, starved, dirs, exists>>
    PROVE  Descriptors'
BY DEF Descriptors, Holdings, dirs

\* cd.
LEMMA CdHolds ==
    ASSUME Descriptors, NEW p \in Procs, NEW word, Cd(p, word)
    PROVE  Descriptors'
<1>1. UNCHANGED <<pc, fds, cmd, starved, exists>>
  BY DEF Cd
<1>2. PICK d, o : /\ cwd' = [cwd EXCEPT ![p] = d] /\ oldpwd' = [oldpwd EXCEPT ![p] = o]
                  /\ d = CASE word = "" -> Home
                           [] word = "-" -> IF oldpwd[p] = Unset THEN cwd[p] ELSE oldpwd[p]
                           [] word = ".." -> Up[cwd[p]]
                           [] word \in Dirs -> word
                           [] OTHER -> cwd[p]
                  /\ o = IF word \in Dirs \cup {"", "-", ".", ".."} THEN cwd[p] ELSE oldpwd[p]
  BY DEF Cd
<1>3. cwd[p] \in Dirs /\ oldpwd[p] \in Dirs \cup {Unset}
  BY DEF Descriptors, Holdings
<1>4. d \in Dirs /\ o \in Dirs \cup {Unset}
  <2>1. o \in Dirs \cup {Unset}
    BY <1>2, <1>3
  <2>2. Home \in Dirs /\ Up[cwd[p]] \in Dirs /\ (IF oldpwd[p] = Unset THEN cwd[p] ELSE oldpwd[p]) \in Dirs
    BY <1>3, DirsAssumption
  <2>3. d \in Dirs
    BY <1>2, <1>3, <2>2
  <2> QED BY <2>1, <2>3
<1> QED BY <1>1, <1>2, <1>4 DEF Descriptors, Holdings

\* Processes that end.
LEMMA EndHolds ==
    ASSUME ProcessTypes, Descriptors, NEW S \in SUBSET Procs, NEW W \in SUBSET Procs, End(S, W),
           \A q \in S : pc[q] \in {"program", "prompt"}, \A q \in W : pc[q] = "suspend", UNCHANGED exists
    PROVE  Descriptors'
<1>1. /\ fds' = [q \in Procs |-> IF q \in S THEN [d \in Fds |-> Closed] ELSE fds[q]]
      /\ cmd' = [q \in Procs |-> IF q \in S THEN Plain(<<>>) ELSE cmd[q]]
      /\ UNCHANGED <<cwd, oldpwd, starved, exists>>
  BY DEF End, dirs
<1>2. \A q \in Procs : /\ q \in S => pc'[q] \in {"none", "zombie"}
                       /\ q \notin S => \/ pc'[q] = pc[q]
                                        \/ pc'[q] = "none"
                                        \/ pc[q] = "suspend" /\ pc'[q] = "after"
  <2> DEFINE ended(q) ==
          CASE q \in S /\ parent[q] = Nobody -> "none"
            [] q \in S /\ parent[q] # Nobody -> "zombie"
            [] q \notin S /\ parent[q] \in S /\ pc[q] = "zombie" -> "none"
            [] q \in W -> "after"
            [] OTHER -> pc[q]
  <2>1. pc' = [q \in Procs |-> ended(q)]
    BY DEF End
  <2>2. \A q \in Procs :
            /\ q \in S => ended(q) = IF parent[q] = Nobody THEN "none" ELSE "zombie"
            /\ q \notin S /\ q \in W => ended(q) = "after"
            /\ q \notin S /\ q \notin W /\ (parent[q] \notin S \/ pc[q] # "zombie")
               => ended(q) = pc[q]
            /\ q \notin S /\ q \notin W /\ parent[q] \in S /\ pc[q] = "zombie"
               => ended(q) = "none"
    OBVIOUS
  <2> HIDE DEF ended
  <2> QED BY <2>1, <2>2
<1>3. Plain(<<>>) \in Cmds /\ [d \in Fds |-> Closed] \in Tables
  <2>1. <<>> \in Seq(STRING)
    OBVIOUS
  <2> QED BY <2>1, PlainIs DEF Tables, Targets
<1>4. Holdings'
  BY <1>1, <1>3 DEF Descriptors, Holdings
<1>5. ASSUME NEW q \in Procs PROVE Good(pc[q], fds[q], cmd[q], starved[q])'
  <2>1. CASE pc'[q] \in {"none", "zombie"}
    BY <2>1, GoodIs
  <2>2. CASE q \notin S
    <3>1. fds'[q] = fds[q] /\ cmd'[q] = cmd[q] /\ starved'[q] = starved[q]
      BY <1>1, <2>2
    <3>2. Good(pc[q], fds[q], cmd[q], starved[q])
      BY DEF Descriptors
    <3>3. CASE pc'[q] = pc[q]
      BY <3>1, <3>2, <3>3
    <3>4. CASE pc[q] = "suspend" /\ pc'[q] = "after"
      BY <3>1, <3>2, <3>4, GoodIs
    <3> QED BY <1>2, <2>1, <2>2, <3>3, <3>4
  <2> QED BY <1>2, <2>1, <2>2
<1> QED BY <1>4, <1>5 DEF Descriptors

\* What open creates are files.
LEMMA CreatedIs == \A file, t : Created(file, t) \subseteq Files
BY FilesAssumption DEF Created

\* A line with one redirection.
LEMMA OneBracketHolds ==
    ASSUME ProcessTypes, Descriptors, NEW p \in Procs, pc[p] = "prompt", NEW line, Typed(line),
           NEW symbol \in {"<", ">"}, OneBracket(p, line, symbol),
           \E j : Once(line, symbol, j), \A x \in {"<", ">"} \ {symbol} : Never(line, x)
    PROVE  Descriptors'
<1> PICK t, file : t = fds[p] /\ file = tokenizer(split(line, symbol)[2])
  OBVIOUS
<1>1. CASE Idle
  BY <1>1, IdleHolds DEF Idle
<1>2. Ready(t) /\ exists \subseteq Files /\ line \in Seq(STRING)
  BY DEF Descriptors, Good, Holdings, Typed
<1>3. CASE split(line, symbol)[1] # <<>> /\ Len(file) = 1
  <2>1. PICK j : Once(line, symbol, j)
    OBVIOUS
  <2>2. j + 1 \in 1 .. Len(line) /\ file[1] = line[j + 1]
    BY <1>3, <2>1, OneFile
  <2>3. file[1] \in STRING
    BY <1>2, <2>2
  <2>4. \A i : Once(line, symbol, i) => i = j
    BY <2>1 DEF Once
  <2>5. \A i, x : x # symbol /\ x \in {"<", ">"} => ~Once(line, x, i)
    BY DEF Never, Once
  <2>6. CASE symbol = ">"
    <3> PICK r, made : r = Right(t, file[1], line) /\ made = Created(file[1], t)
      OBVIOUS
    <3>1. Redirect(p, line, r, made)
      BY <1>3, <2>6 DEF OneBracket
    <3>2. /\ Undoable(t, r) /\ r.cmd.line = line
          /\ ~r.short => r.tab[0] = t[0] /\ r.tab[1] = IF file[1] \in Writable THEN file[1] ELSE t[1]
      <4>1. PICK w : w = file[1] /\ w \in STRING
        BY <2>3
      <4>2. Undoable(t, Right(t, w, line)) /\ Right(t, w, line).cmd.line = line
            /\ (~Right(t, w, line).short
                => /\ Right(t, w, line).tab[0] = t[0]
                   /\ Right(t, w, line).tab[1] = IF w \in Writable THEN w ELSE t[1])
        BY ONLY <1>2, <4>1, RightIs
      <4> QED BY <4>1, <4>2
    <3>3. ASSUME AtTerminal(t), ~r.short PROVE Effective(r.tab, line)
      <4>1. t[0] \in Terminal /\ t[1] \in Terminal
        BY <3>3 DEF AtTerminal, Terminal
      <4>2. r.tab[0] = t[0] /\ r.tab[1] = IF line[j + 1] \in Writable THEN line[j + 1] ELSE t[1]
        BY <2>2, <3>2, <3>3
      <4>3. /\ \A i : Once(line, "<", i) => r.tab[0] = line[i + 1]
            /\ Never(line, "<") => r.tab[0] \in Terminal
            /\ \A k : Once(line, ">", k)
                      => IF line[k + 1] \in Writable THEN r.tab[1] = line[k + 1] ELSE r.tab[1] \in Terminal
            /\ Never(line, ">") => r.tab[1] \in Terminal
        <5>1. ~Never(line, ">")
          BY <2>1, <2>6 DEF Never, Once
        <5> QED BY <2>4, <2>5, <2>6, <4>1, <4>2, <5>1
      <4> QED BY <4>3, EffectIs
    <3>4. made \subseteq Files
      BY CreatedIs
    <3> QED BY <3>1, <3>2, <3>3, <3>4, RedirectHolds
  <2>7. CASE symbol = "<"
    <3> PICK r : r = Left(t, file[1], line)
      OBVIOUS
    <3>1. Redirect(p, line, r, {})
      BY <1>3, <2>7 DEF OneBracket
    <3>2. /\ Undoable(t, r) /\ r.cmd.line = line
          /\ r.ok => r.tab[0] = file[1] /\ r.tab[1] = t[1]
      BY <1>2, LeftIs
    <3>3. ASSUME AtTerminal(t), r.ok PROVE Effective(r.tab, line)
      <4>1. t[0] \in Terminal /\ t[1] \in Terminal
        BY <3>3 DEF AtTerminal, Terminal
      <4>2. r.tab[0] = line[j + 1] /\ r.tab[1] = t[1]
        BY <2>2, <3>2, <3>3
      <4>3. /\ \A i : Once(line, "<", i) => r.tab[0] = line[i + 1]
            /\ Never(line, "<") => r.tab[0] \in Terminal
            /\ \A k : Once(line, ">", k)
                      => IF line[k + 1] \in Writable THEN r.tab[1] = line[k + 1] ELSE r.tab[1] \in Terminal
            /\ Never(line, ">") => r.tab[1] \in Terminal
        <5>1. ~Never(line, "<")
          BY <2>1, <2>7 DEF Never, Once
        <5> QED BY <2>4, <2>5, <2>7, <4>1, <4>2, <5>1
      <4> QED BY <4>3, EffectIs
    <3>4. {} \subseteq Files
      OBVIOUS
    <3> QED BY <3>1, <3>2, <3>3, <3>4, RedirectHolds
  <2> QED BY <2>6, <2>7
<1> QED BY <1>1, <1>3 DEF OneBracket

\* The first of two symbols.
LEMMA OrderIs ==
    ASSUME NEW s, Typed(s), NEW j, Once(s, "<", j), NEW k, Once(s, ">", k)
    PROVE  determineOrder(s) = (IF j < k THEN 0 ELSE 1) /\ j # k
<1> DEFINE at(x) == CHOOSE i \in DOMAIN s : s[i] = x /\ \A l \in 1 .. (i - 1) : s[l] # x
<1>1. DOMAIN s = 1 .. Len(s)
  BY DEF Typed
<1>2. ASSUME NEW x, NEW m, Once(s, x, m) PROVE at(x) = m
  <2>1. m \in DOMAIN s /\ s[m] = x /\ \A i \in DOMAIN s : s[i] = x => i = m
    BY <1>1, <1>2 DEF Once
  <2>2. \A l \in 1 .. (m - 1) : l \in DOMAIN s /\ l # m
    BY <1>1, <2>1
  <2>3. m \in DOMAIN s /\ s[m] = x /\ \A l \in 1 .. (m - 1) : s[l] # x
    BY <2>1, <2>2
  <2>4. at(x) \in DOMAIN s /\ s[at(x)] = x
    <3>1. \E i \in DOMAIN s : s[i] = x /\ \A l \in 1 .. (i - 1) : s[l] # x
      BY <2>3
    <3> QED BY <3>1
  <2> HIDE DEF at
  <2> QED BY <2>1, <2>4
<1>3. determineOrder(s) = IF at("<") < at(">") THEN 0 ELSE 1
  BY DEF determineOrder
<1>4. at("<") = j /\ at(">") = k
  BY <1>2
<1>5. j # k
  BY DEF Once
<1> HIDE DEF at
<1> QED BY <1>3, <1>4, <1>5

\* The words that the two redirections of a line name.
LEMMA BothFiles ==
    ASSUME NEW s, Typed(s), NEW j, Once(s, "<", j), NEW k, Once(s, ">", k),
           NEW o, o = determineOrder(s), NEW q, q = split2(s, o), \A i \in 1 .. 3 : q[i] # <<>>,
           Len(tokenizer(q[2 + o])) = 1, Len(tokenizer(q[3 - o])) = 1
    PROVE  tokenizer(q[2 + o])[1] = s[j + 1] /\ tokenizer(q[3 - o])[1] = s[k + 1]
<1>1. o = (IF j < k THEN 0 ELSE 1) /\ j # k /\ j \in Int /\ k \in Int
  BY OrderIs DEF Once
<1>2. CASE j < k
  <2>1. PICK a, b, c : /\ a = strtok(s, {"<"}) /\ b = strtok(a.rest, {">"}) /\ c = strtok(b.rest, {">"})
                       /\ q = <<a.piece, b.piece, c.piece>>
    BY <1>1, <1>2 DEF split2
  <2>2. a.piece # <<>> /\ b.piece # <<>> /\ c.piece # <<>> /\ q[2 + o] = b.piece /\ q[3 - o] = c.piece
    <3>1. q[1] # <<>> /\ q[2] # <<>> /\ q[3] # <<>> /\ 2 + o = 2 /\ 3 - o = 3
      BY <1>1, <1>2
    <3> QED BY <2>1, <3>1
  <2>3. Len(tokenizer(b.piece)) = 1 /\ Len(tokenizer(c.piece)) = 1
    BY <2>2
  <2>4. tokenizer(b.piece)[1] = s[j + 1] /\ tokenizer(c.piece)[1] = s[k + 1]
    <3>1. TwoPieces(s, "<", ">", a, b, c)
      BY <2>1, <2>2, <2>3 DEF TwoPieces
    <3>2. Typed(s) /\ Once(s, "<", j) /\ Once(s, ">", k)
      OBVIOUS
    <3> QED BY ONLY <1>2, <3>1, <3>2, TwoFiles
  <2> QED BY <2>2, <2>4
<1>3. CASE ~(j < k)
  <2>1. PICK a, b, c : /\ a = strtok(s, {">"}) /\ b = strtok(a.rest, {"<"}) /\ c = strtok(b.rest, {"<"})
                       /\ q = <<a.piece, b.piece, c.piece>>
    BY <1>1, <1>3 DEF split2
  <2>2. a.piece # <<>> /\ b.piece # <<>> /\ c.piece # <<>> /\ q[2 + o] = c.piece /\ q[3 - o] = b.piece
    <3>1. q[1] # <<>> /\ q[2] # <<>> /\ q[3] # <<>> /\ 2 + o = 3 /\ 3 - o = 2
      BY <1>1, <1>3
    <3> QED BY <2>1, <3>1
  <2>3. Len(tokenizer(b.piece)) = 1 /\ Len(tokenizer(c.piece)) = 1 /\ k < j
    BY <1>1, <1>3, <2>2
  <2>4. tokenizer(b.piece)[1] = s[k + 1] /\ tokenizer(c.piece)[1] = s[j + 1]
    <3>1. TwoPieces(s, ">", "<", a, b, c)
      BY <2>1, <2>2, <2>3 DEF TwoPieces
    <3>2. Typed(s) /\ Once(s, "<", j) /\ Once(s, ">", k)
      OBVIOUS
    <3> QED BY ONLY <2>3, <3>1, <3>2, TwoFiles
  <2> QED BY <2>2, <2>4
<1> QED BY <1>2, <1>3

\* A line with two redirections.
LEMMA TwoBracketsHolds ==
    ASSUME ProcessTypes, Descriptors, NEW p \in Procs, pc[p] = "prompt", NEW line, Typed(line),
           TwoBrackets(p, line),
           count(line, "<") <= 1 /\ count(line, ">") <= 1
           => (\E j : Once(line, "<", j)) /\ \E k : Once(line, ">", k)
    PROVE  Descriptors'
<1>1. CASE Idle
  BY <1>1, IdleHolds DEF Idle
<1>2. CASE ~Idle
  <2>1. PICK o, q, in, out, t, r :
            /\ o = determineOrder(line) /\ q = split2(line, o)
            /\ in = tokenizer(q[2 + o]) /\ out = tokenizer(q[3 - o]) /\ t = fds[p]
            /\ r = Both(t, in[1], out[1], line)
            /\ \A i \in 1 .. 3 : q[i] # <<>>
            /\ Len(in) = 1 /\ Len(out) = 1
            /\ Redirect(p, line, r,
                        IF r.ok THEN Created(out[1], openRead(dup(dup(t, 1).tab, 0).tab, in[1]).tab)
                        ELSE {})
    BY <1>2 DEF TwoBrackets
  <2>2. PICK made : /\ Redirect(p, line, r, made) /\ made \subseteq Files
    BY <2>1, CreatedIs
  <2>3. Ready(t) /\ exists \subseteq Files /\ line \in Seq(STRING)
    BY <2>1 DEF Descriptors, Good, Holdings, Typed
  <2>4. PICK w, v : w = in[1] /\ v = out[1] /\ r = Both(t, w, v, line)
    BY <2>1
  <2>5. /\ Undoable(t, r) /\ r.cmd.line = line
        /\ r.ok => r.tab[0] = w
        /\ r.ok /\ ~r.short => r.tab[1] = IF v \in Writable THEN v ELSE t[1]
    BY ONLY <2>3, <2>4, BothIs
  <2>6. ASSUME AtTerminal(t), r.ok, ~r.short PROVE Effective(r.tab, line)
    <3> SUFFICES ASSUME count(line, "<") <= 1, count(line, ">") <= 1
                 PROVE  Effective(r.tab, line)
      BY DEF Effective
    <3>1. PICK j, k : Once(line, "<", j) /\ Once(line, ">", k)
      OBVIOUS
    <3>2. w = line[j + 1] /\ v = line[k + 1]
      <4>1. /\ Typed(line) /\ o = determineOrder(line) /\ q = split2(line, o) /\ \A i \in 1 .. 3 : q[i] # <<>>
            /\ Len(tokenizer(q[2 + o])) = 1 /\ Len(tokenizer(q[3 - o])) = 1
        BY <2>1
      <4>2. tokenizer(q[2 + o])[1] = line[j + 1] /\ tokenizer(q[3 - o])[1] = line[k + 1]
        BY ONLY <3>1, <4>1, BothFiles
      <4> QED BY <2>1, <2>4, <4>2
    <3>3. t[1] \in Terminal
      BY <2>6 DEF AtTerminal, Terminal
    <3>4. r.tab[0] = w /\ r.tab[1] = IF v \in Writable THEN v ELSE t[1]
      BY <2>5, <2>6
    <3>5. /\ \A i : Once(line, "<", i) => i = j
          /\ \A i : Once(line, ">", i) => i = k
          /\ ~Never(line, "<") /\ ~Never(line, ">")
      BY <3>1 DEF Once, Never
    <3>6. /\ \A i : Once(line, "<", i) => r.tab[0] = line[i + 1]
          /\ Never(line, "<") => r.tab[0] \in Terminal
          /\ \A m : Once(line, ">", m)
                    => IF line[m + 1] \in Writable THEN r.tab[1] = line[m + 1] ELSE r.tab[1] \in Terminal
          /\ Never(line, ">") => r.tab[1] \in Terminal
      BY <3>2, <3>3, <3>4, <3>5
    <3> QED BY <3>6, EffectIs
  <2> QED BY <2>1, <2>2, <2>5, <2>6, RedirectHolds
<1> QED BY <1>1, <1>2

\* A line with redirections.
LEMMA RedirectionHolds ==
    ASSUME ProcessTypes, Descriptors, NEW p \in Procs, pc[p] = "prompt", NEW line, Typed(line),
           handle_redirection(p, line)
    PROVE  Descriptors'
<1> PICK l, r : l = count(line, "<") /\ r = count(line, ">")
  OBVIOUS
<1>1. /\ l \in Nat /\ (l = 0 => Never(line, "<")) /\ (l = 1 => \E j : Once(line, "<", j))
      /\ r \in Nat /\ (r = 0 => Never(line, ">")) /\ (r = 1 => \E j : Once(line, ">", j))
  BY CountIs
<1>2. CASE Idle
  BY <1>2, IdleHolds DEF Idle
<1>3. CASE l + r = 1 /\ r = 1 /\ OneBracket(p, line, ">")
  <2>1. /\ \E j : Once(line, ">", j)
        /\ \A x \in {"<", ">"} \ {">"} : Never(line, x)
    BY <1>1, <1>3
  <2> QED BY <1>3, <2>1, OneBracketHolds
<1>4. CASE l + r = 1 /\ r # 1 /\ OneBracket(p, line, "<")
  <2>1. /\ \E j : Once(line, "<", j)
        /\ \A x \in {"<", ">"} \ {"<"} : Never(line, x)
    BY <1>1, <1>4
  <2> QED BY <1>4, <2>1, OneBracketHolds
<1>5. CASE (l = 1 \/ r = 1) /\ l + r # 1 /\ TwoBrackets(p, line)
  <2>1. l <= 1 /\ r <= 1 => (\E j : Once(line, "<", j)) /\ \E k : Once(line, ">", k)
    BY <1>1, <1>5
  <2> QED BY <1>5, <2>1, TwoBracketsHolds
<1> QED BY <1>2, <1>3, <1>4, <1>5 DEF handle_redirection

\* A line without.
LEMMA BuiltinHolds ==
    ASSUME ProcessTypes, Descriptors, NEW p \in Procs, pc[p] = "prompt", NEW line, Typed(line),
           ~Has(line, "<"), ~Has(line, ">"), handle_builtin(p, line)
    PROVE  Descriptors'
<1>1. CASE Idle
  BY <1>1, IdleHolds DEF Idle
<1>2. CASE Exit(p)
  <2>1. {p} \in SUBSET Procs /\ {} \in SUBSET Procs
    OBVIOUS
  <2> QED BY <1>2, <2>1, EndHolds DEF Exit
<1>3. ASSUME NEW word, Cd(p, word) PROVE Descriptors'
  BY <1>3, CdHolds
<1>4. CASE executor(p, fds[p], Plain(line), FALSE) /\ UNCHANGED exists
  <2>1. PICK t, c, short : /\ t = fds[p] /\ c = Plain(line) /\ short = FALSE
                           /\ executor(p, t, c, short)
    BY <1>4
  <2>2. c \in Cmds /\ c.line = line /\ \A u : Restore(u, c) = u
    BY <2>1, PlainIs DEF Typed
  <2>3. Ready(t) /\ (~starved[p] => AtTerminal(t)) /\ exists' \subseteq Files
    BY <1>4, <2>1 DEF Descriptors, Good, Holdings
  <2>4. Undo(t, c, starved[p] \/ short)
    BY <2>1, <2>2, <2>3 DEF Undo
  <2>5. ~starved[p] => Effective(t, c.line)
    <3> SUFFICES ASSUME ~starved[p] PROVE Effective(t, line)
      BY <2>2
    <3>1. Never(line, "<") /\ Never(line, ">") /\ \A x \in {"<", ">"} : \A j : ~Once(line, x, j)
      BY DEF Has, Never, Once, Typed
    <3>2. t[0] \in Terminal /\ t[1] \in Terminal
      BY <2>3 DEF AtTerminal, Terminal
    <3>3. /\ \A i : Once(line, "<", i) => t[0] = line[i + 1]
          /\ Never(line, "<") => t[0] \in Terminal
          /\ \A m : Once(line, ">", m)
                    => IF line[m + 1] \in Writable THEN t[1] = line[m + 1] ELSE t[1] \in Terminal
          /\ Never(line, ">") => t[1] \in Terminal
      BY <3>1, <3>2
    <3> QED BY <3>3, EffectIs
  <2>6. ~starved[p] /\ ~short => Effective(t, c.line)
    BY <2>5
  <2> QED BY <2>1, <2>2, <2>3, <2>4, <2>6, ExecutorHolds
<1> QED BY <1>1, <1>2, <1>3, <1>4 DEF handle_builtin

\* Any line a user types.
LEMMA ParserHolds ==
    ASSUME ProcessTypes, Descriptors, NEW p \in Procs, NEW line \in Lines, parser(p, line)
    PROVE  Descriptors'
<1>1. pc[p] = "prompt"
  BY DEF parser, ReadLine
<1>2. Typed(line)
  <2>1. line \in Seq(STRING) /\ \A i \in DOMAIN line : line[i] = BLANK => i = 1
    BY LinesAssumption
  <2>2. DOMAIN line = 1 .. Len(line)
    BY <2>1
  <2> QED BY <2>1, <2>2 DEF Typed
<1>3. CASE ~Has(line, "<") /\ ~Has(line, ">") /\ handle_builtin(p, line)
  BY <1>1, <1>2, <1>3, BuiltinHolds
<1>4. CASE handle_redirection(p, line)
  BY <1>1, <1>2, <1>4, RedirectionHolds
<1>5. CASE Exit(p)
  <2>1. {p} \in SUBSET Procs /\ {} \in SUBSET Procs
    OBVIOUS
  <2> QED BY <1>1, <1>5, <2>1, EndHolds DEF Exit
<1>6. CASE Idle
  BY <1>6, IdleHolds DEF Idle
<1> QED BY <1>3, <1>4, <1>5, <1>6 DEF parser, handle_piping

\* The steps that are not a line: only Resume and Exec undo redirections, and only a child
\* becomes a program.
LEMMA MovesHold ==
    ASSUME ProcessTypes, Descriptors, Moves
    PROVE  Descriptors'
<1>1. ASSUME NEW p \in Procs, Suspend(p) PROVE Descriptors'
  <2>1. pc[p] = "forked" /\ pc' = [pc EXCEPT ![p] = "suspend"]
        /\ UNCHANGED <<fds, cmd, starved, cwd, oldpwd, exists>>
    BY <1>1 DEF Suspend, dirs
  <2>2. \A q \in Procs : pc'[q] = (IF q = p THEN "suspend" ELSE pc[q])
    BY <2>1 DEF ProcessTypes
  <2>3. Good("forked", fds[p], cmd[p], starved[p]) => Good("suspend", fds[p], cmd[p], starved[p])
    BY GoodIs
  <2>4. \A q \in Procs : Good(pc[q], fds[q], cmd[q], starved[q])'
    BY <2>1, <2>2, <2>3 DEF Descriptors
  <2> QED BY <2>1, <2>4 DEF Descriptors, Holdings
<1>2. ASSUME NEW p \in Procs, Deliver(p) PROVE Descriptors'
  <2>1. PICK c \in Procs : /\ pc[c] = "zombie"
                           /\ pc' = [pc EXCEPT ![c] = "none", ![p] = IF @ = "suspend" THEN "after" ELSE @]
    BY <1>2 DEF Deliver, Children
  <2>2. UNCHANGED <<fds, cmd, starved, cwd, oldpwd, exists>>
    BY <1>2 DEF Deliver, dirs
  <2>3. \A q \in Procs : \/ pc'[q] = pc[q] \/ pc'[q] = "none"
                         \/ pc[q] = "suspend" /\ pc'[q] = "after"
    BY <2>1 DEF ProcessTypes
  <2>4. ASSUME NEW q \in Procs PROVE Good(pc'[q], fds[q], cmd[q], starved[q])
    <3>1. Good(pc[q], fds[q], cmd[q], starved[q])
      BY DEF Descriptors
    <3>2. CASE pc'[q] = "none"
      BY <3>2, GoodIs
    <3>3. CASE pc[q] = "suspend" /\ pc'[q] = "after"
      BY <3>1, <3>3, GoodIs
    <3> QED BY <2>3, <3>1, <3>2, <3>3
  <2> QED BY <2>2, <2>4 DEF Descriptors, Holdings
<1>3. ASSUME NEW p \in Procs, pc[p] \in {"after", "child"},
             pc' = [pc EXCEPT ![p] = "prompt"],
             fds' = [fds EXCEPT ![p] = Restore(fds[p], cmd[p])],
             cmd' = [cmd EXCEPT ![p] = Plain(<<>>)],
             UNCHANGED <<starved, cwd, oldpwd, exists>>
      PROVE  Descriptors'
  <2>1. Undo(fds[p], cmd[p], starved[p])
    BY <1>3 DEF Descriptors, Good
  <2>2. Plain(<<>>) \in Cmds
    <3>1. <<>> \in Seq(STRING)
      OBVIOUS
    <3> QED BY <3>1, PlainIs
  <2>3. Holdings'
    BY <1>3, <2>1, <2>2 DEF Descriptors, Holdings, Undo, Ready
  <2>4. Good("prompt", Restore(fds[p], cmd[p]), Plain(<<>>), starved[p])
    BY <2>1 DEF Good, Undo
  <2>5. ASSUME NEW q \in Procs PROVE Good(pc'[q], fds'[q], cmd'[q], starved[q])
    <3>1. CASE q = p
      <4>1. pc'[q] = "prompt" /\ fds'[q] = Restore(fds[p], cmd[p]) /\ cmd'[q] = Plain(<<>>)
        BY <1>3, <3>1 DEF ProcessTypes, Descriptors, Holdings
      <4> QED BY <2>4, <3>1, <4>1
    <3>2. CASE q # p
      <4>1. pc'[q] = pc[q] /\ fds'[q] = fds[q] /\ cmd'[q] = cmd[q]
        BY <1>3, <3>2 DEF ProcessTypes, Descriptors, Holdings
      <4> QED BY <4>1 DEF Descriptors
    <3> QED BY <3>1, <3>2
  <2> QED BY <1>3, <2>3, <2>5 DEF Descriptors
<1>4. ASSUME NEW p \in Procs, Resume(p) PROVE Descriptors'
  BY <1>3, <1>4 DEF Resume, dirs
<1>5. ASSUME NEW p \in Procs, Exec(p) PROVE Descriptors'
  <2>1. CASE /\ pc' = [pc EXCEPT ![p] = "program"] /\ UNCHANGED <<fds, cmd>>
    <3>1. pc[p] = "child" /\ UNCHANGED <<starved, cwd, oldpwd, exists>>
      BY <1>5 DEF Exec, dirs
    <3>2. \A q \in Procs : pc'[q] = (IF q = p THEN "program" ELSE pc[q])
      BY <2>1 DEF ProcessTypes
    <3>3. Good("child", fds[p], cmd[p], starved[p]) => Good("program", fds[p], cmd[p], starved[p])
      BY GoodIs
    <3>4. \A q \in Procs : Good(pc'[q], fds[q], cmd[q], starved[q])
      BY <3>1, <3>2, <3>3 DEF Descriptors
    <3> QED BY <2>1, <3>1, <3>4 DEF Descriptors, Holdings
  <2>2. CASE /\ pc' = [pc EXCEPT ![p] = "prompt"]
             /\ fds' = [fds EXCEPT ![p] = Restore(fds[p], cmd[p])]
             /\ cmd' = [cmd EXCEPT ![p] = Plain(<<>>)]
    BY <1>3, <1>5, <2>2 DEF Exec, dirs
  <2> QED BY <1>5, <2>1, <2>2 DEF Exec
<1>6. ASSUME NEW p \in Procs, Ends(p) PROVE Descriptors'
  <2>1. {p} \in SUBSET Procs /\ {} \in SUBSET Procs /\ End({p}, {}) /\ pc[p] = "program" /\ UNCHANGED exists
    BY <1>6 DEF Ends, Exit
  <2> QED BY <2>1, EndHolds
<1>7. CASE Interrupt
  <2> DEFINE S == {c \in Procs : pc[c] = "program"}
             W == {p \in Procs : pc[p] = "suspend" /\ "INT" \notin mask[p]}
  <2>1. End(S, W) /\ UNCHANGED exists
    BY <1>7 DEF Interrupt
  <2>2. /\ S \in SUBSET Procs /\ W \in SUBSET Procs
        /\ \A q \in S : pc[q] \in {"program", "prompt"}
        /\ \A q \in W : pc[q] = "suspend"
    OBVIOUS
  <2> HIDE DEF S, W
  <2> QED BY <2>1, <2>2, EndHolds
<1> QED BY <1>1, <1>2, <1>4, <1>5, <1>6, <1>7 DEF Moves

\* The first shell has the terminal.
LEMMA InitHolds == ASSUME Init PROVE Descriptors
<1> DEFINE term == [d \in Fds |-> CASE d = 0 -> "stdin" [] d = 1 -> "stdout"
                                    [] d = 2 -> "stderr" [] OTHER -> Closed]
<1>1. 0 \in Fds /\ 1 \in Fds /\ 2 \in Fds /\ Fds \subseteq Nat
  BY FdsAssumption DEF Fds
<1>2. /\ term[0] = "stdin" /\ term[1] = "stdout" /\ term[2] = "stderr"
      /\ \A d \in Fds : term[d] \in {"stdin", "stdout", "stderr", Closed}
  BY <1>1
<1>3. term \in Tables
  BY <1>2 DEF Tables, Targets
<1> HIDE DEF term
<1>4. Ready(term) /\ AtTerminal(term)
  <2>1. \A d \in 0 .. 2 : term[d] # Closed
    <3>1. \A d \in 0 .. 2 : d = 0 \/ d = 1 \/ d = 2
      OBVIOUS
    <3> QED BY <1>2, <3>1 DEF Closed
  <2>2. \A d \in Fds : term[d] \notin Files
    BY <1>2, FilesAssumption
  <2> QED BY <1>2, <1>3, <2>1, <2>2 DEF Ready, AtTerminal
<1>5. Plain(<<>>) \in Cmds
  <2>1. <<>> \in Seq(STRING)
    OBVIOUS
  <2> QED BY <2>1, PlainIs
<1>6. fds = [p \in Procs |-> term]
  BY DEF Init, term
<1>7. Holdings
  BY <1>3, <1>5, <1>6, DirsAssumption, FilesAssumption DEF Init, Holdings
<1>8. ASSUME NEW p \in Procs PROVE Good(pc[p], fds[p], cmd[p], starved[p])
  <2>1. pc[p] \in {"prompt", "none"} /\ fds[p] = term
    BY <1>6 DEF Init
  <2> QED BY <1>4, <2>1 DEF Good
<1> QED BY <1>7, <1>8 DEF Descriptors

-----------------------------------------------------------------------------
(* Parents, and the bounds *)

\* Whoever is not an orphan has a shell that has not ended.
Parents == \A p \in Procs : parent[p] # Nobody /\ pc[p] # "none" => pc[parent[p]] \notin {"none", "zombie"}

Bounds == typed \in 0 .. MaxLines /\ ints \in 0 .. MaxInts

\* The children of the processes that end become orphans.
LEMMA EndKeepsParents ==
    ASSUME ProcessTypes, Parents, NEW S \in SUBSET Procs, NEW W \in SUBSET Procs, End(S, W),
           \A q \in S : pc[q] \in {"program", "prompt"}, \A q \in W : pc[q] = "suspend"
    PROVE  Parents'
<1> DEFINE ended(q) ==
        CASE q \in S /\ parent[q] = Nobody -> "none"
          [] q \in S /\ parent[q] # Nobody -> "zombie"
          [] q \notin S /\ parent[q] \in S /\ pc[q] = "zombie" -> "none"
          [] q \in W -> "after"
          [] OTHER -> pc[q]
<1>1. pc' = [q \in Procs |-> ended(q)]
  BY DEF End
<1>2. \A q \in Procs :
          /\ q \in S => ended(q) = IF parent[q] = Nobody THEN "none" ELSE "zombie"
          /\ q \notin S /\ q \in W => ended(q) = "after"
          /\ q \notin S /\ q \notin W /\ (parent[q] \notin S \/ pc[q] # "zombie")
             => ended(q) = pc[q]
          /\ q \notin S /\ q \notin W /\ parent[q] \in S /\ pc[q] = "zombie"
             => ended(q) = "none"
  OBVIOUS
<1> HIDE DEF ended
<1>3. parent' = [q \in Procs |-> IF parent[q] \in S THEN Nobody ELSE parent[q]]
  BY DEF End
<1> SUFFICES ASSUME NEW q \in Procs, parent'[q] # Nobody, pc'[q] # "none"
             PROVE  pc'[parent'[q]] \notin {"none", "zombie"}
  BY DEF Parents
<1>4. parent[q] \notin S /\ parent[q] \in Procs /\ parent'[q] = parent[q]
  BY <1>3 DEF ProcessTypes
<1>5. pc[q] # "none"
  BY <1>1, <1>2
<1>6. pc[parent[q]] \notin {"none", "zombie"}
  BY <1>4, <1>5 DEF Parents
<1> QED BY <1>1, <1>2, <1>4, <1>6

\* A fork gives a shell a child, and only ended children are reaped.
LEMMA NextKeepsParents ==
    ASSUME ProcessTypes, Parents, Next
    PROVE  Parents'
<1> USE ProcsAssumption
<1>1. ASSUME NEW p \in Procs, Reads(p) PROVE Parents'
  <2>1. CASE Quiet(p)
    BY <2>1 DEF Quiet, Parents
  <2>2. CASE Fork(p)
    <3>1. PICK k \in Procs : /\ pc[k] = "none" /\ pc' = [pc EXCEPT ![p] = "forked", ![k] = "child"]
                             /\ parent' = [parent EXCEPT ![k] = p]
      BY <2>2 DEF Fork
    <3>2. p # k /\ pc[p] = "prompt"
      BY <1>1, <3>1 DEF Reads
    <3>3. ASSUME NEW q \in Procs, parent'[q] # Nobody, pc'[q] # "none"
          PROVE  pc'[parent'[q]] \notin {"none", "zombie"}
      <4>1. CASE q = k
        BY <3>1, <3>2, <4>1 DEF ProcessTypes
      <4>2. CASE q # k
        <5>1. parent'[q] = parent[q] /\ pc[q] # "none" /\ parent[q] \in Procs
          BY <3>1, <3>2, <3>3, <4>2 DEF ProcessTypes
        <5>2. pc[parent[q]] \notin {"none", "zombie"}
          BY <5>1, <3>3 DEF Parents
        <5> QED BY <3>1, <3>2, <5>1, <5>2 DEF ProcessTypes
      <4> QED BY <4>1, <4>2
    <3> QED BY <3>3 DEF Parents
  <2>3. CASE End({p}, {})
    <3>1. /\ {p} \in SUBSET Procs /\ {} \in SUBSET Procs
          /\ \A q \in {p} : pc[q] \in {"program", "prompt"}
          /\ \A q \in {} : pc[q] = "suspend"
      BY <1>1 DEF Reads
    <3> QED BY <2>3, <3>1, EndKeepsParents
  <2> QED BY <1>1, <2>1, <2>2, <2>3 DEF Reads
<1>2. ASSUME NEW p \in Procs, Suspend(p) \/ Resume(p) \/ Exec(p) PROVE Parents'
  <2>1. /\ parent' = parent /\ pc[p] \notin {"none", "zombie"}
        /\ \E state \in {"suspend", "prompt", "program"} : pc' = [pc EXCEPT ![p] = state]
    BY <1>2 DEF Suspend, Resume, Exec
  <2> QED BY <2>1 DEF ProcessTypes, Parents
<1>3. ASSUME NEW p \in Procs, Deliver(p) PROVE Parents'
  <2>1. PICK c \in Procs : /\ pc[c] = "zombie"
                           /\ pc' = [pc EXCEPT ![c] = "none", ![p] = IF @ = "suspend" THEN "after" ELSE @]
    BY <1>3 DEF Deliver, Children
  <2>2. parent' = parent
    BY <1>3 DEF Deliver
  <2>3. \A q \in Procs : /\ pc'[q] # "none" => pc[q] # "none"
                         /\ pc[q] \notin {"none", "zombie"} => pc'[q] \notin {"none", "zombie"}
    BY <2>1 DEF ProcessTypes
  <2> QED BY <2>2, <2>3 DEF ProcessTypes, Parents
<1>4. ASSUME NEW p \in Procs, Ends(p) PROVE Parents'
  <2>1. /\ {p} \in SUBSET Procs /\ {} \in SUBSET Procs /\ End({p}, {})
        /\ \A q \in {p} : pc[q] \in {"program", "prompt"}
        /\ \A q \in {} : pc[q] = "suspend"
    BY <1>4 DEF Ends, Exit
  <2> QED BY <2>1, EndKeepsParents
<1>5. CASE Interrupt
  <2> DEFINE S == {c \in Procs : pc[c] = "program"}
             W == {p \in Procs : pc[p] = "suspend" /\ "INT" \notin mask[p]}
  <2>1. /\ End(S, W) /\ S \in SUBSET Procs /\ W \in SUBSET Procs
        /\ \A q \in S : pc[q] \in {"program", "prompt"}
        /\ \A q \in W : pc[q] = "suspend"
    BY <1>5 DEF Interrupt
  <2> HIDE DEF S, W
  <2> QED BY <2>1, EndKeepsParents
<1> QED BY <1>1, <1>2, <1>3, <1>4, <1>5, NextIsReadsOrMoves DEF Moves

\* Lines and interrupts are counted up to their bounds.
LEMMA NextKeepsBounds ==
    ASSUME Bounds, Next
    PROVE  Bounds'
<1> USE BoundsAssumption DEF Bounds
<1>1. ASSUME NEW p \in Procs, ReadLine(p) PROVE Bounds'
  BY <1>1 DEF ReadLine
<1>2. CASE UNCHANGED <<typed, ints>>
  BY <1>2
<1>3. CASE Interrupt
  BY <1>3 DEF Interrupt
<1>4. ASSUME NEW p \in Procs, Step(p) \/ Ends(p) PROVE UNCHANGED <<typed, ints>>
  BY <1>4 DEF Step, Suspend, Deliver, Resume, Exec, Ends
<1> QED BY <1>1, <1>2, <1>3, <1>4 DEF Next, EndOfInput, parser

\* Together they are inductive, on top of ShellInvariant.
THEOREM DescriptorsStayRight == Spec => [](Descriptors /\ Parents /\ Bounds)
<1> DEFINE J == Descriptors /\ Parents /\ Bounds
<1>1. Init => J
  <2>1. ASSUME Init PROVE Parents /\ Bounds
    BY <2>1, BoundsAssumption DEF Init, Parents, Bounds
  <2> QED BY <2>1, InitHolds
<1>2. Inv /\ J /\ [Next]_vars => J'
  <2>1. ASSUME Inv, J, Next PROVE J'
    <3>1. ProcessTypes
      BY <2>1 DEF Inv
    <3>2. Descriptors'
      <4>1. ASSUME NEW p \in Procs, EndOfInput(p) PROVE Descriptors'
        BY <2>1, <4>1, IdleHolds DEF EndOfInput, Idle
      <4>2. ASSUME NEW p \in Procs, NEW line \in Lines, parser(p, line) PROVE Descriptors'
        BY <2>1, <3>1, <4>2, ParserHolds
      <4>3. CASE Moves
        BY <2>1, <3>1, <4>3, MovesHold
      <4> QED BY <2>1, <4>1, <4>2, <4>3 DEF Next, Step, Moves
    <3>3. Parents'
      BY <2>1, <3>1, NextKeepsParents
    <3>4. Bounds'
      BY <2>1, NextKeepsBounds
    <3> QED BY <3>2, <3>3, <3>4
  <2>2. ASSUME J, UNCHANGED vars PROVE J'
    BY <2>2 DEF Descriptors, Holdings, Parents, Bounds, vars, dirs
  <2> QED BY <2>1, <2>2
<1> HIDE DEF J
<1>3. Spec => []J
  BY <1>1, <1>2, ShellInvariant, PTL DEF Spec
<1> QED BY <1>3, PTL DEF J

\* Every process that has not ended has its standard descriptors, whatever was saved, opened
\* and closed on the way, and its parent has not ended.
THEOREM ShellTypeCorrect == Spec => []TypeOK
<1>1. ASSUME Inv, Descriptors, Parents, Bounds
      PROVE  TypeOK
  <2>1. /\ pc \in [Procs -> States] /\ parent \in [Procs -> Procs \cup {Nobody}]
        /\ pending \in [Procs -> BOOLEAN] /\ armed \in [Procs -> BOOLEAN]
        /\ early \in [Procs -> BOOLEAN] /\ mask \in [Procs -> SUBSET {"CHLD", "INT"}]
    BY <1>1 DEF Inv, ProcessTypes
  <2>2. /\ fds \in [Procs -> Tables] /\ cmd \in [Procs -> Cmds] /\ starved \in [Procs -> BOOLEAN]
        /\ cwd \in [Procs -> Dirs] /\ oldpwd \in [Procs -> Dirs \cup {Unset}] /\ exists \subseteq Files
    BY <1>1 DEF Descriptors, Holdings
  <2>3. ASSUME NEW p \in Living, NEW d \in 0 .. 2 PROVE fds[p][d] # Closed
    <3>1. p \in Procs /\ pc[p] \in {"prompt", "forked", "suspend", "after", "child", "program"}
      BY <2>1 DEF Living, States
    <3>2. Ready(fds[p])
      BY <1>1, <3>1 DEF Descriptors, Good, Undo
    <3> QED BY <3>2 DEF Ready
  <2>4. \A p \in Procs : parent[p] # Nobody /\ pc[p] # "none" => parent[p] \in Living
    BY <1>1, <2>1 DEF Parents, Living
  <2>5. \A p \in Procs : cmd[p].form \in {"plain", "right", "left", "both"}
    <3>1. \A p \in Procs : cmd[p] \in Cmds
      BY <2>2
    <3> QED BY <3>1 DEF Cmds
  <2> QED BY <1>1, <2>1, <2>2, <2>3, <2>4, <2>5 DEF TypeOK, Bounds, States, Tables
<1> QED BY <1>1, ShellInvariant, DescriptorsStayRight, PTL

\* Right, Left and Both, and what redirect undoes after executor, in the parent, in a child
\* whose exec failed and where fork failed: together they give the terminal back.
THEOREM StdioStaysRestored == Spec => []StdioRestored
<1>1. Descriptors => StdioRestored
  BY DEF Descriptors, Good, AtTerminal, StdioRestored
<1> QED BY <1>1, DescriptorsStayRight, PTL

\* From the line to execvp: the words strtok_r cuts out, the order of the symbols and the
\* two saved descriptors, which are crossed, put the files a line names on 0 and 1; a file
\* that cannot be opened for output leaves 1 on the terminal, and nothing else does.
THEOREM RedirectionsTakeEffect == Spec => []RedirectionsInEffect
<1>1. Descriptors => RedirectionsInEffect
  BY DEF Descriptors, Good, Effective, RedirectionsInEffect
<1> QED BY <1>1, DescriptorsStayRight, PTL
==============================================================================
