------------------------------- MODULE Shell --------------------------------
(***************************************************************************)
(* The shell of hw4: main's command loop, the parser, the redirections and *)
(* executor's fork, exec and sigsuspend, for the shell itself and for      *)
(* every process it forks.                                                 *)
(*                                                                         *)
(* A line is a sequence of words and of the symbols <, > and |; BLANK is   *)
(* white space at its start, which strtok leaves as a piece of its own.    *)
(* What commands print is left out; so is the color variable, which        *)
(* nothing reads.  All processes share the terminal: any shell at its      *)
(* prompt may get the next line, and ^C reaches every process.             *)
(*                                                                         *)
(* Nothing stops or continues a process: ^Z and kill -STOP are left out,   *)
(* and with them the SIGCHLD of a child that stops, which the handler gets *)
(* because it is installed without SA_NOCLDSTOP (builtin.c:204).           *)
(***************************************************************************)
EXTENDS Integers, Sequences, FiniteSets

CONSTANTS
    Procs,        \* process identifiers, the first shell's among them
    root,         \* the shell that was started
    MaxFd,        \* descriptors a process may have open
    Lines,        \* the lines a user types
    Runnable,     \* the names execvp finds a program for
    Files,        \* file names
    Writable,     \* the files that can be opened or created for output
    Existing,     \* the files that exist when the shell starts
    Dirs, Home, Up,   \* directories, $HOME and the parent directory of each
    Masks,        \* what the uninitialised mask of sigsuspend may block
    MaxLines,     \* bound: lines typed
    MaxInts       \* bound: interrupts typed

Symbols == {"<", ">", "|"}
BLANK == " "
Nobody == 0       \* the parent of the first shell, and of orphans
Closed == "closed"
Unset == "unset"  \* OLDPWD before the first cd
Fds == 0..(MaxFd - 1)
Targets == {Closed, "stdin", "stdout", "stderr"} \cup Files

ASSUME ProcsAssumption == root \in Procs /\ Nobody \notin Procs
ASSUME FdsAssumption == MaxFd \in Nat /\ MaxFd >= 3
ASSUME FilesAssumption ==
    /\ Writable \subseteq Files /\ Existing \subseteq Files
    /\ Files \cap {Closed, "stdin", "stdout", "stderr"} = {}
ASSUME DirsAssumption == Home \in Dirs /\ Up \in [Dirs -> Dirs] /\ Unset \notin Dirs
ASSUME SignalsAssumption == Masks \subseteq SUBSET {"CHLD", "INT"}
ASSUME LinesAssumption ==
    \A line \in Lines : line \in Seq(STRING) /\ \A i \in DOMAIN line : line[i] = BLANK => i = 1
ASSUME BoundsAssumption == MaxLines \in Nat /\ MaxInts \in Nat

VARIABLES
    pc,        \* "none", "prompt", "forked", "suspend", "after", "child", "program", "zombie"
    parent,    \* who forked a process
    fds,       \* its descriptors: what each is open on
    cmd,       \* the redirections it has to undo: [form, fd, saveStdin, saveStdout, line]
    cwd, oldpwd,
    armed,     \* whether it has installed sigchld_handler
    pending,   \* whether a SIGCHLD waits to be handled
    mask,      \* the signals its sigsuspend blocks
    early,     \* whether a child ended between its fork and its sigsuspend
    starved,   \* whether it has been refused a descriptor
    exists,    \* the files that exist
    typed, ints

vars == <<pc, parent, fds, cmd, cwd, oldpwd, armed, pending, mask, early, starved,
          exists, typed, ints>>
signals == <<armed, pending, mask, early>>
dirs == <<cwd, oldpwd>>

-----------------------------------------------------------------------------
(* Descriptors *)

Lowest(t) == CHOOSE d \in Fds : t[d] = Closed /\ \A e \in Fds : t[e] = Closed => d <= e
Full(t) == \A d \in Fds : t[d] # Closed

\* The table and the descriptor, -1 if the call fails.
OpenOn(t, target) == IF Full(t) THEN [tab |-> t, fd |-> -1]
                     ELSE [tab |-> [t EXCEPT ![Lowest(t)] = target], fd |-> Lowest(t)]
dup(t, d) == OpenOn(t, t[d])
dup2(t, d, e) == IF d = -1 THEN t ELSE [t EXCEPT ![e] = t[d]]
close(t, d) == IF d = -1 THEN t ELSE [t EXCEPT ![d] = Closed]

openRead(t, file) == IF file \in exists THEN OpenOn(t, file) ELSE [tab |-> t, fd |-> -1]
openWrite(t, file) == IF file \in Writable THEN OpenOn(t, file) ELSE [tab |-> t, fd |-> -1]

-----------------------------------------------------------------------------
(* Lines *)

count(line, symbol) == Cardinality({i \in DOMAIN line : line[i] = symbol})
Has(line, symbol) == \E i \in DOMAIN line : line[i] = symbol

\* strtok_r: what precedes the next symbol, and the rest.  An empty piece is NULL.
strtok(line, symbols) ==
    LET word == {i \in DOMAIN line : line[i] \notin symbols}
        first == CHOOSE i \in word : \A j \in word : i <= j
        ends == {i \in DOMAIN line : i > first /\ line[i] \in symbols}
        end == CHOOSE i \in ends : \A j \in ends : i <= j
    IN IF word = {} THEN [piece |-> <<>>, rest |-> <<>>]
       ELSE IF ends = {} THEN [piece |-> SubSeq(line, first, Len(line)), rest |-> <<>>]
       ELSE [piece |-> SubSeq(line, first, end - 1), rest |-> SubSeq(line, end + 1, Len(line))]

split(line, symbol) ==
    LET a == strtok(line, {symbol})
    IN <<a.piece, strtok(a.rest, {symbol}).piece>>

\* 0 if the first < comes before the first >.
determineOrder(line) ==
    LET at(symbol) == CHOOSE i \in DOMAIN line :
                          line[i] = symbol /\ \A j \in 1..(i - 1) : line[j] # symbol
    IN IF at("<") < at(">") THEN 0 ELSE 1

split2(line, fileOrder) ==
    LET symbol == IF fileOrder = 0 THEN "<" ELSE ">"
        otherSymbol == IF fileOrder = 0 THEN ">" ELSE "<"
        a == strtok(line, {symbol})
        b == strtok(a.rest, {otherSymbol})
    IN <<a.piece, b.piece, strtok(b.rest, {otherSymbol}).piece>>

\* getSize and tokenizer: the words of a piece, which may have white space at its start.
tokenizer(piece) == IF piece # <<>> /\ piece[1] = BLANK THEN Tail(piece) ELSE piece
FirstWord(line) == IF tokenizer(line) = <<>> THEN "" ELSE tokenizer(line)[1]

\* The word parser compares with help and pwd; there may be none.
checker(line) == SelectSeq(line, LAMBDA w : w \notin {BLANK, "<", ">"})

\* The pieces between bars.  tokenizer fills an array of one entry per bar and one more
\* with them and one entry behind them: past the array if no piece is empty.  fillSizes
\* reads the whole array, entries that nothing set included, if two pieces are missing.
PieceStarts(line) == {i \in DOMAIN line : line[i] # "|" /\ (i = 1 \/ line[i - 1] = "|")}
Overruns(line) == Cardinality(PieceStarts(line)) > count(line, "|")
ReadsUnset(line) == Cardinality(PieceStarts(line)) < count(line, "|")

-----------------------------------------------------------------------------
(* Redirections *)

Plain(line) == [form |-> "plain", fd |-> -1, saveStdin |-> -1, saveStdout |-> -1, line |-> line]

\* What redirect does up to executor: the descriptors, what is to be undone, whether
\* it goes on, and whether it was refused a descriptor.
Right(t, file, line) ==
    LET o == openWrite(t, file)
        s == dup(o.tab, 1)
    IN [tab |-> dup2(s.tab, o.fd, 1),
        cmd |-> [Plain(line) EXCEPT !.form = "right", !.fd = o.fd, !.saveStdin = s.fd],
        ok |-> TRUE, short |-> Full(t) \/ Full(o.tab)]

\* Faulty variant: standard input is closed in place of the file's descriptor.
LeftClosesStdin(t, file, line) ==
    LET i == openRead(t, file)
        s == dup(i.tab, 0)
    IN IF i.fd = -1
       THEN [tab |-> t, cmd |-> Plain(line), ok |-> FALSE, short |-> Full(t)]
       ELSE [tab |-> close(dup2(s.tab, i.fd, 0), 0),
             cmd |-> [Plain(line) EXCEPT !.form = "left", !.saveStdin = s.fd],
             ok |-> TRUE, short |-> Full(i.tab)]

Left(t, file, line) ==
    LET i == openRead(t, file)
        s == dup(i.tab, 0)
    IN IF i.fd = -1
       THEN [tab |-> t, cmd |-> Plain(line), ok |-> FALSE, short |-> Full(t)]
       ELSE [tab |-> close(dup2(s.tab, i.fd, 0), i.fd),
             cmd |-> [Plain(line) EXCEPT !.form = "left", !.saveStdin = s.fd],
             ok |-> TRUE, short |-> Full(i.tab)]

\* The two saving variables are crossed: saveStdin is a copy of 1.
Both(t, in, out, line) ==
    LET s1 == dup(t, 1)
        s0 == dup(s1.tab, 0)
        i == openRead(s0.tab, in)
        o == openWrite(i.tab, out)
        t2 == dup2(dup2(o.tab, i.fd, 0), o.fd, 1)
    IN IF i.fd = -1
       THEN [tab |-> s0.tab, cmd |-> Plain(line), ok |-> FALSE, short |-> Full(s0.tab)]
       ELSE [tab |-> close(close(t2, i.fd), o.fd),
             cmd |-> [Plain(line) EXCEPT !.form = "both", !.saveStdin = s1.fd,
                                         !.saveStdout = s0.fd],
             ok |-> TRUE, short |-> Full(i.tab)]

\* Faulty variant: the file stays open.
RestoreKeepsFile(t, c) ==
    CASE c.form = "plain" -> t
      [] c.form = "right" -> dup2(t, c.saveStdin, 1)
      [] c.form = "left"  -> dup2(t, c.saveStdin, 0)
      [] c.form = "both"  -> dup2(dup2(t, c.saveStdin, 0), c.saveStdout, 1)

\* What redirect does after executor, in the parent and in a child whose exec failed.
Restore(t, c) ==
    CASE c.form = "plain" -> t
      [] c.form = "right" -> dup2(close(t, c.fd), c.saveStdin, 1)
      [] c.form = "left"  -> dup2(t, c.saveStdin, 0)
      [] c.form = "both"  -> dup2(dup2(t, c.saveStdin, 0), c.saveStdout, 1)

-----------------------------------------------------------------------------
(* Processes that end *)

Children(p) == {c \in Procs : parent[c] = p /\ pc[c] # "none"}

\* The processes of S end: a zombie for a parent, which gets a SIGCHLD if it has a
\* handler for it; their children are orphans, and those that had ended are gone.
\* The shells of woken return from sigsuspend.
End(S, woken) ==
    /\ pc' = [q \in Procs |->
                 CASE q \in S /\ parent[q] = Nobody -> "none"
                   [] q \in S /\ parent[q] # Nobody -> "zombie"
                   [] q \notin S /\ parent[q] \in S /\ pc[q] = "zombie" -> "none"
                   [] q \in woken -> "after"
                   [] OTHER -> pc[q]]
    /\ parent' = [q \in Procs |-> IF parent[q] \in S THEN Nobody ELSE parent[q]]
    /\ pending' = [p \in Procs |->
                      p \notin S /\ (pending[p] \/ (armed[p] /\ \E q \in S : parent[q] = p))]
    /\ early' = [p \in Procs |->
                    early[p] \/ (pc[p] = "forked" /\ \E q \in S : parent[q] = p)]
    /\ fds' = [q \in Procs |-> IF q \in S THEN [d \in Fds |-> Closed] ELSE fds[q]]
    /\ cmd' = [q \in Procs |-> IF q \in S THEN Plain(<<>>) ELSE cmd[q]]
    /\ armed' = [q \in Procs |-> q \notin S /\ armed[q]]
    /\ UNCHANGED <<dirs, mask, starved>>

Exit(p) == End({p}, {}) /\ UNCHANGED exists

-----------------------------------------------------------------------------
(* executor *)

\* An identifier that is not in use; which one makes no difference.
NewProcess == CHOOSE k \in Procs : pc[k] = "none"

\* Faulty variant: no handler is installed.
executorUnarmed(p, t, c, short) ==
    /\ UNCHANGED mask
    /\ \/ LET k == NewProcess IN
            /\ \E q \in Procs : pc[q] = "none"
            /\ pc' = [pc EXCEPT ![p] = "forked", ![k] = "child"]
            /\ parent' = [parent EXCEPT ![k] = p]
            /\ fds' = [fds EXCEPT ![p] = t, ![k] = t]
            /\ cmd' = [cmd EXCEPT ![p] = c, ![k] = c]
            /\ cwd' = [cwd EXCEPT ![k] = cwd[p]]
            /\ oldpwd' = [oldpwd EXCEPT ![k] = oldpwd[p]]
            /\ UNCHANGED armed
            /\ pending' = [pending EXCEPT ![k] = FALSE]
            /\ early' = [early EXCEPT ![p] = FALSE, ![k] = FALSE]
            /\ starved' = [starved EXCEPT ![p] = @ \/ short, ![k] = starved[p] \/ short]
       \/ /\ ~\E q \in Procs : pc[q] = "none"
          /\ UNCHANGED armed
          /\ fds' = [fds EXCEPT ![p] = Restore(t, c)]
          /\ starved' = [starved EXCEPT ![p] = @ \/ short]
          /\ UNCHANGED <<pc, parent, cmd, dirs, pending, early>>

\* fork: the child has the parent's descriptors, directories and handlers.  Without
\* a process to be had, executor returns -2 and the redirections are undone.
executor(p, t, c, short) ==
    /\ UNCHANGED mask
    /\ \/ LET k == NewProcess IN
            /\ \E q \in Procs : pc[q] = "none"
            /\ pc' = [pc EXCEPT ![p] = "forked", ![k] = "child"]
            /\ parent' = [parent EXCEPT ![k] = p]
            /\ fds' = [fds EXCEPT ![p] = t, ![k] = t]
            /\ cmd' = [cmd EXCEPT ![p] = c, ![k] = c]
            /\ cwd' = [cwd EXCEPT ![k] = cwd[p]]
            /\ oldpwd' = [oldpwd EXCEPT ![k] = oldpwd[p]]
            /\ armed' = [armed EXCEPT ![p] = TRUE, ![k] = TRUE]
            /\ pending' = [pending EXCEPT ![k] = FALSE]
            /\ early' = [early EXCEPT ![p] = FALSE, ![k] = FALSE]
            /\ starved' = [starved EXCEPT ![p] = @ \/ short, ![k] = starved[p] \/ short]
       \/ /\ ~\E q \in Procs : pc[q] = "none"
          /\ armed' = [armed EXCEPT ![p] = TRUE]
          /\ fds' = [fds EXCEPT ![p] = Restore(t, c)]
          /\ starved' = [starved EXCEPT ![p] = @ \/ short]
          /\ UNCHANGED <<pc, parent, cmd, dirs, pending, early>>

\* Faulty variant: the parent does not wait.
SuspendNot(p) ==
    /\ pc[p] = "forked" /\ ~pending[p]
    /\ pc' = [pc EXCEPT ![p] = "after"]
    /\ UNCHANGED <<parent, fds, cmd, dirs, signals, starved, exists, typed, ints>>

\* The handler runs before the parent gets to sigsuspend, whose mask nobody has set.
Suspend(p) ==
    /\ pc[p] = "forked" /\ ~pending[p]
    /\ \E m \in Masks : mask' = [mask EXCEPT ![p] = m]
    /\ pc' = [pc EXCEPT ![p] = "suspend"]
    /\ UNCHANGED <<parent, fds, cmd, dirs, armed, pending, early, starved, exists, typed, ints>>

\* Faulty variant: the handler does not wait for a child.
DeliverReapsNone(p) ==
    /\ pending[p]
    /\ ~(pc[p] = "suspend" /\ "CHLD" \in mask[p])
    /\ pc' = [pc EXCEPT ![p] = IF @ = "suspend" THEN "after" ELSE @]
    /\ pending' = [pending EXCEPT ![p] = FALSE]
    /\ UNCHANGED <<parent, fds, cmd, dirs, armed, mask, early, starved, exists, typed, ints>>

\* sigchld_handler: one child is reaped, whichever; sigsuspend returns.
Deliver(p) ==
    /\ pending[p]
    /\ ~(pc[p] = "suspend" /\ "CHLD" \in mask[p])
    /\ \E c \in Children(p) :
        /\ pc[c] = "zombie"
        /\ pc' = [pc EXCEPT ![c] = "none", ![p] = IF @ = "suspend" THEN "after" ELSE @]
    /\ pending' = [pending EXCEPT ![p] = FALSE]
    /\ UNCHANGED <<parent, fds, cmd, dirs, armed, mask, early, starved, exists, typed, ints>>

\* Faulty variant: executor waits for a child itself, before the handler gets to run.
ResumeReaps(p) ==
    /\ pc[p] = "after"
    /\ \E c \in Children(p) :
        /\ pc[c] = "zombie"
        /\ pc' = [pc EXCEPT ![p] = "prompt", ![c] = "none"]
    /\ fds' = [fds EXCEPT ![p] = Restore(fds[p], cmd[p])]
    /\ cmd' = [cmd EXCEPT ![p] = Plain(<<>>)]
    /\ mask' = [mask EXCEPT ![p] = {}]
    /\ UNCHANGED <<parent, dirs, armed, pending, early, starved, exists, typed, ints>>

\* executor returns 0.
Resume(p) ==
    /\ pc[p] = "after" /\ ~pending[p]
    /\ pc' = [pc EXCEPT ![p] = "prompt"]
    /\ fds' = [fds EXCEPT ![p] = Restore(fds[p], cmd[p])]
    /\ cmd' = [cmd EXCEPT ![p] = Plain(<<>>)]
    /\ mask' = [mask EXCEPT ![p] = {}]
    /\ UNCHANGED <<parent, dirs, armed, pending, early, starved, exists, typed, ints>>

\* execvp: the handlers are reset, the descriptors stay.  If it fails, executor returns
\* -1 in the child, which goes back to the command loop.
Program(c) == FirstWord(IF cmd[c].form = "plain" THEN cmd[c].line
                        ELSE strtok(cmd[c].line, {"<", ">"}).piece)
Exec(c) ==
    /\ pc[c] = "child"
    /\ IF Program(c) \in Runnable
       THEN /\ pc' = [pc EXCEPT ![c] = "program"]
            /\ armed' = [armed EXCEPT ![c] = FALSE]
            /\ UNCHANGED <<fds, cmd>>
       ELSE /\ pc' = [pc EXCEPT ![c] = "prompt"]
            /\ fds' = [fds EXCEPT ![c] = Restore(fds[c], cmd[c])]
            /\ cmd' = [cmd EXCEPT ![c] = Plain(<<>>)]
            /\ UNCHANGED armed
    /\ UNCHANGED <<parent, dirs, pending, mask, early, starved, exists, typed, ints>>

-----------------------------------------------------------------------------
(* main's loop: a shell reads a line *)

ReadLine(p) ==
    /\ pc[p] = "prompt" /\ ~pending[p]
    /\ typed < MaxLines
    /\ typed' = typed + 1
    /\ UNCHANGED ints

Idle == UNCHANGED <<pc, parent, fds, cmd, dirs, signals, starved, exists>>

\* ^D: readline returns NULL, and the loop goes on.
EndOfInput(p) == ReadLine(p) /\ Idle

\* cd: OLDPWD is what getcwd said before; cd - goes there first.
Cd(p, word) ==
    /\ cwd' = [cwd EXCEPT ![p] = CASE word = "" -> Home
                                   [] word = "-" -> IF oldpwd[p] = Unset THEN @ ELSE oldpwd[p]
                                   [] word = ".." -> Up[@]
                                   [] word \in Dirs -> word
                                   [] OTHER -> @]
    /\ oldpwd' = [oldpwd EXCEPT ![p] =
                     IF word \in Dirs \cup {"", "-", ".", ".."} THEN cwd[p] ELSE @]
    /\ UNCHANGED <<pc, parent, fds, cmd, signals, starved, exists>>

handle_builtin(p, line) ==
    LET word == FirstWord(line)
        arg == IF Len(tokenizer(line)) < 2 THEN "" ELSE tokenizer(line)[2]
    IN \/ word \in {"help", "pwd", "jobs", "fg", "color", "kill"} /\ Idle
       \/ word = "exit" /\ Exit(p)
       \/ word = "cd" /\ Cd(p, arg)
       \/ /\ word \notin {"help", "pwd", "jobs", "fg", "color", "kill", "exit", "cd"}
          /\ executor(p, fds[p], Plain(line), FALSE)
          /\ UNCHANGED exists

\* redirect from its checks on.  r is what Right, Left or Both made of the descriptors.
Redirect(p, line, r, created) ==
    /\ exists' = exists \cup created
    /\ IF r.ok /\ checker(line)[1] \notin {"help", "pwd"} THEN executor(p, r.tab, r.cmd, r.short)
       ELSE /\ fds' = [fds EXCEPT ![p] = Restore(r.tab, r.cmd)]
            /\ starved' = [starved EXCEPT ![p] = @ \/ r.short]
            /\ UNCHANGED <<pc, parent, cmd, dirs, signals>>

\* What open creates: nothing without a descriptor.
Created(file, t) == IF Full(t) THEN {} ELSE {file} \cap Writable

OneBracket(p, line, symbol) ==
    LET pieces == split(line, symbol)
        file == tokenizer(pieces[2])
        t == fds[p]
    IN IF pieces[1] = <<>> \/ Len(file) # 1 THEN Idle
       ELSE IF symbol = ">" THEN Redirect(p, line, Right(t, file[1], line), Created(file[1], t))
       ELSE Redirect(p, line, Left(t, file[1], line), {})

\* Faulty variant: the file before the second symbol is the input, whatever the order.
TwoBracketsInOrder(p, line) ==
    LET pieces == split2(line, determineOrder(line))
        in == tokenizer(pieces[2])
        out == tokenizer(pieces[3])
        t == fds[p]
        r == Both(t, in[1], out[1], line)
    IN IF (\E i \in 1..3 : pieces[i] = <<>>) \/ Len(in) # 1 \/ Len(out) # 1 THEN Idle
       ELSE Redirect(p, line, r, {})

TwoBrackets(p, line) ==
    LET fileOrder == determineOrder(line)
        pieces == split2(line, fileOrder)
        in == tokenizer(pieces[2 + fileOrder])
        out == tokenizer(pieces[3 - fileOrder])
        t == fds[p]
        r == Both(t, in[1], out[1], line)
    IN IF (\E i \in 1..3 : pieces[i] = <<>>) \/ Len(in) # 1 \/ Len(out) # 1 THEN Idle
       ELSE Redirect(p, line, r,
                     IF r.ok THEN Created(out[1], openRead(dup(dup(t, 1).tab, 0).tab, in[1]).tab)
                     ELSE {})

handle_redirection(p, line) ==
    LET leftCount == count(line, "<")
        rightCount == count(line, ">")
    IN IF leftCount # 1 /\ rightCount # 1 THEN Idle
       ELSE IF leftCount + rightCount = 1
       THEN OneBracket(p, line, IF rightCount = 1 THEN ">" ELSE "<")
       ELSE TwoBrackets(p, line)

\* A pipe's commands are counted and copied, and handle_pipe does nothing with them.
\* A write or a read beyond what is set does no harm, or the shell dies of it.
handle_piping(p, line) ==
    \/ Idle
    \/ (Overruns(line) \/ ReadsUnset(line)) /\ Exit(p)

parser(p, line) ==
    LET brackets == Has(line, "<") \/ Has(line, ">")
    IN /\ ReadLine(p)
       /\ \/ ~brackets /\ ~Has(line, "|") /\ handle_builtin(p, line)
          \/ /\ brackets /\ ~Has(line, "|")
             /\ IF checker(line) = <<>> THEN Exit(p) ELSE handle_redirection(p, line)
          \/ ~brackets /\ Has(line, "|") /\ handle_piping(p, line)
          \/ brackets /\ Has(line, "|") /\ Exit(p)

-----------------------------------------------------------------------------
(* The world *)

\* A program ends.
Ends(c) == pc[c] = "program" /\ Exit(c) /\ UNCHANGED <<typed, ints>>

\* ^C: programs die of it, shells return from their handler and from sigsuspend.
Interrupt ==
    /\ ints < MaxInts /\ ints' = ints + 1
    /\ End({c \in Procs : pc[c] = "program"},
           {p \in Procs : pc[p] = "suspend" /\ "INT" \notin mask[p]})
    /\ UNCHANGED <<exists, typed>>

Init ==
    /\ pc = [p \in Procs |-> IF p = root THEN "prompt" ELSE "none"]
    /\ parent = [p \in Procs |-> Nobody]
    /\ fds = [p \in Procs |-> [d \in Fds |-> CASE d = 0 -> "stdin" [] d = 1 -> "stdout"
                                               [] d = 2 -> "stderr" [] OTHER -> Closed]]
    /\ cmd = [p \in Procs |-> Plain(<<>>)]
    /\ cwd = [p \in Procs |-> Home]
    /\ oldpwd = [p \in Procs |-> Unset]
    /\ armed = [p \in Procs |-> FALSE]
    /\ pending = [p \in Procs |-> FALSE]
    /\ mask = [p \in Procs |-> {}]
    /\ early = [p \in Procs |-> FALSE]
    /\ starved = [p \in Procs |-> FALSE]
    /\ exists = Existing
    /\ typed = 0
    /\ ints = 0

Step(p) == Suspend(p) \/ Deliver(p) \/ Resume(p) \/ Exec(p)

Next ==
    \/ \E p \in Procs : EndOfInput(p) \/ Step(p) \/ Ends(p)
    \/ \E p \in Procs, line \in Lines : parser(p, line)
    \/ Interrupt

\* Processes are scheduled, and the programs a user runs come to an end.
Fairness == \A p \in Procs : WF_vars(Step(p)) /\ WF_vars(Ends(p))
Spec == Init /\ [][Next]_vars /\ Fairness

-----------------------------------------------------------------------------
(* Properties *)

Living == {p \in Procs : pc[p] \notin {"none", "zombie"}}

\* Every process has its standard descriptors, only a program is without the handlers,
\* and whoever has a parent has a shell that has not ended.
TypeOK ==
    /\ pc \in [Procs -> {"none", "prompt", "forked", "suspend", "after", "child",
                         "program", "zombie"}]
    /\ parent \in [Procs -> Procs \cup {Nobody}]
    /\ fds \in [Procs -> [Fds -> Targets]]
    /\ \A p \in Living : \A d \in 0..2 : fds[p][d] # Closed
    /\ \A p \in Procs : parent[p] # Nobody /\ pc[p] # "none" => parent[p] \in Living
    /\ \A p \in Procs : cmd[p].form \in {"plain", "right", "left", "both"}
    /\ cwd \in [Procs -> Dirs] /\ oldpwd \in [Procs -> Dirs \cup {Unset}]
    /\ armed \in [Procs -> BOOLEAN] /\ pending \in [Procs -> BOOLEAN]
    /\ mask \in [Procs -> SUBSET {"CHLD", "INT"}]
    /\ early \in [Procs -> BOOLEAN] /\ starved \in [Procs -> BOOLEAN]
    /\ exists \subseteq Files
    /\ typed \in 0..MaxLines /\ ints \in 0..MaxInts

\* Back at its prompt, the shell, and every child that failed to exec, reads from and
\* writes to the terminal again and has no file open, whichever path a redirection took,
\* unless it once ran out of descriptors.  What was 0 may have become 1, and 1 0.
StdioRestored ==
    \A p \in Procs : pc[p] = "prompt" /\ ~starved[p] =>
        /\ {fds[p][0], fds[p][1]} = {"stdin", "stdout"}
        /\ \A d \in Fds : fds[p][d] \notin Files

\* What 0 and 1 are open on.  0 is the file named after <: if that could not be opened,
\* no program runs.  1 is the file named after > if it can be opened for output; if not,
\* 1 is what the shell had: open's result is not tested (redirection.c:94, 110) and the
\* program runs all the same, its output on the terminal.  Never is it another file.
InEffect(t, line) ==
    LET Terminal == {"stdin", "stdout"}
        after(symbol) == {line[i + 1] : i \in {j \in DOMAIN line : line[j] = symbol}}
    IN /\ t[0] \in (IF Has(line, "<") THEN after("<") ELSE Terminal)
       /\ t[1] \in (IF after(">") \cap Writable # {} THEN after(">") ELSE Terminal)

\* A program reads from the file its line names and writes to the one it names, but for
\* a file that cannot be written: then it writes to the terminal (prog > ro).  Of a line
\* with a symbol twice, strtok may take other words for the files.
RedirectionsInEffect ==
    \A c \in Procs : pc[c] = "program" /\ ~starved[c] =>
        LET line == cmd[c].line
        IN count(line, "<") <= 1 /\ count(line, ">") <= 1 => InEffect(fds[c], line)

\* Until ^C is typed, a line can go to one shell only: a shell that has forked waits,
\* even if the child's exec fails and the child reads the commands.
OneReader == ints = 0 => Cardinality({p \in Procs : pc[p] = "prompt"}) <= 1

\* Until ^C is typed, a shell at its prompt has reaped every child.
AllReaped == ints = 0 => \A p \in Procs : pc[p] = "prompt" => Children(p) = {}

\* sigchld_handler never finds its blocking waitpid without a child to reap: signals
\* that are merged do not outnumber the children that ended.
HandlerNeverBlocks ==
    \A p \in Procs : pending[p] => \E c \in Children(p) : pc[c] = "zombie"

\* A shell waits for ever in sigsuspend only if its child ended before it got there or
\* if the mask nobody set blocks SIGCHLD.
HangsExplained ==
    \A p \in Procs :
        /\ pc[p] = "suspend"
        /\ \A c \in Children(p) : pc[c] = "zombie"
        /\ ~pending[p]
        => early[p] \/ "CHLD" \in mask[p]

\* Once a shell waits for a program with SIGCHLD open, it gets back to its prompt.
ProgramsReturn ==
    \A p \in Procs :
        /\ pc[p] = "suspend" /\ "CHLD" \notin mask[p]
        /\ \E c \in Children(p) : pc[c] = "program"
        ~> pc[p] = "prompt"
=============================================================================
