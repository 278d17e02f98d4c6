------------------------------- MODULE RWLock -------------------------------
(***************************************************************************)
(* The lock a readers-writers scheme promises: any number of readers, or   *)
(* one writer and nobody else.  HashMap implements it out of two mutexes   *)
(* and a counter.  Who may be reading or writing is all the state there    *)
(* is; how a thread waits for its turn is left to the implementation.      *)
(***************************************************************************)
CONSTANT Threads

VARIABLES
    reading,    \* the threads inside a read section
    writing     \* the threads inside a write section

rwvars == <<reading, writing>>

Init ==
    /\ reading = {}
    /\ writing = {}

StartRead(t) ==
    /\ t \notin reading
    /\ writing = {}
    /\ reading' = reading \union {t}
    /\ UNCHANGED writing

StopRead(t) ==
    /\ t \in reading
    /\ reading' = reading \ {t}
    /\ UNCHANGED writing

StartWrite(t) ==
    /\ reading = {}
    /\ writing = {}
    /\ writing' = {t}
    /\ UNCHANGED reading

StopWrite(t) ==
    /\ writing = {t}
    /\ writing' = {}
    /\ UNCHANGED reading

Next == \E t \in Threads : StartRead(t) \/ StopRead(t) \/ StartWrite(t) \/ StopWrite(t)

Spec == Init /\ [][Next]_rwvars
=============================================================================
