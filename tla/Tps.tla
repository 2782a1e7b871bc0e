---------------------------------- MODULE Tps ----------------------------------
(***************************************************************************)
(* The process lister tps/src/main.c: one pass over /proc, with processes  *)
(* that start and exit between any two of its system calls.  The entries   *)
(* of /proc are the pids of the processes, and others that come first.     *)
(***************************************************************************)
EXTENDS Integers, Sequences, FiniteSets

CONSTANTS
    Pid,        \* process ids: positive numbers
    Name,       \* names of processes; 0, the line of no process, is none
    Other,      \* entries of /proc that are no process
    Wide,       \* the pids of five digits or more
    Batch       \* bound: entries that the kernel hands out at once

ASSUME TpsAssumption ==
    /\ Pid \subseteq Nat \ {0} /\ Wide \subseteq Pid
    /\ Other \cap Pid = {} /\ 0 \notin Name
    /\ Batch \in Nat \ {0}

VARIABLES
    running,      \* the names of the running processes, by pid
    pc,           \* where main is
    position,     \* the kernel's: pids from here on are still to be read
    buffer,       \* entries that readdir has in memory
    entry,        \* the entry in hand
    status_file,  \* its status file: "closed", "open", or "dead" when the process is
    line,         \* the name that was read from it
    fds,          \* how many descriptors are open
    printed,      \* the lines of the output
    lasting,      \* history: the processes that run since the pass began
    seen          \* history: every process that ran since then, with its name

vars == <<running, pc, position, buffer, entry, status_file, line, fds, printed,
          lasting, seen>>
kernelVars == <<running, lasting, seen>>

None == 0

Init ==
    /\ \E alive \in SUBSET Pid : running \in [alive -> Name]
    /\ lasting = DOMAIN running
    /\ seen = {<<p, running[p]>> : p \in DOMAIN running}
    /\ pc = "opendir" /\ position = 0 /\ buffer = {} /\ entry = None
    /\ status_file = "closed" /\ line = None
    /\ fds = 0 /\ printed = <<>>

--------------------------------------------------------------------------------
(* The kernel.                                                              *)

mainVars == <<pc, position, buffer, entry, line, fds, printed>>

Starts(p, name) ==
    /\ p \notin DOMAIN running
    /\ running' = [q \in DOMAIN running \cup {p} |-> IF q = p THEN name ELSE running[q]]
    /\ seen' = seen \cup {<<p, name>>}
    /\ UNCHANGED <<lasting, status_file, mainVars>>

\* Its status file, if open, can no longer be read, even when the pid returns.
Exits(p) ==
    /\ p \in DOMAIN running
    /\ running' = [q \in DOMAIN running \ {p} |-> running[q]]
    /\ lasting' = lasting \ {p}
    /\ status_file' = IF status_file = "open" /\ entry = p THEN "dead" ELSE status_file
    /\ UNCHANGED <<seen, mainVars>>

--------------------------------------------------------------------------------
(* main.                                                                    *)

opendir ==
    /\ pc = "opendir"
    /\ \/ pc' = "readdir" /\ fds' = fds + 1 /\ buffer' = Other
       \/ pc' = "returned_1" /\ UNCHANGED <<fds, buffer>>
    /\ UNCHANGED <<kernelVars, position, entry, status_file, line, printed>>

Ahead == {p \in DOMAIN running : p >= position}
FirstOf(pids) == CHOOSE p \in pids : \A q \in pids : p <= q

\* The kernel hands out the next pids, in order, into an empty buffer.
ReadsAhead ==
    /\ pc = "readdir" /\ buffer = {} /\ Ahead # {}
    /\ buffer' \in {b \in SUBSET Ahead : b # {} /\ Cardinality(b) <= Batch
                                         /\ \A p \in b, q \in Ahead \ b : p < q}
    /\ \E p \in buffer' : position' = p + 1 /\ \A q \in buffer' : q <= p
    /\ UNCHANGED <<kernelVars, pc, entry, status_file, line, fds, printed>>

\* An entry that is no directory of a numeric name is passed over.
PassesOver(e) ==
    /\ pc = "readdir" /\ e \in buffer \cap Other
    /\ buffer' = buffer \ {e}
    /\ UNCHANGED <<kernelVars, pc, position, entry, status_file, line, fds, printed>>

readdir ==
    /\ pc = "readdir" /\ buffer \cap Other = {}
    /\ IF buffer # {}
       THEN /\ entry' = FirstOf(buffer)
            /\ buffer' = buffer \ {entry'}
            /\ pc' = "stat"
       ELSE Ahead = {} /\ pc' = "closedir" /\ UNCHANGED <<entry, buffer>>
    /\ UNCHANGED <<kernelVars, position, status_file, line, fds, printed>>

stat ==
    /\ pc = "stat"
    /\ pc' = IF entry \in DOMAIN running THEN "open" ELSE "readdir"
    /\ UNCHANGED <<kernelVars, position, buffer, entry, status_file, line, fds, printed>>

OpenOnce ==  \* mutant: the pass ends at a process that has exited
    /\ pc = "open"
    /\ IF entry \in DOMAIN running
       THEN pc' = "read" /\ status_file' = "open" /\ fds' = fds + 1
       ELSE pc' = "closedir" /\ UNCHANGED <<status_file, fds>>
    /\ UNCHANGED <<kernelVars, position, buffer, entry, line, printed>>
OpenRetried ==  \* mutant: the status file is tried until it can be opened
    /\ pc = "open"
    /\ IF entry \in DOMAIN running
       THEN pc' = "read" /\ status_file' = "open" /\ fds' = fds + 1
       ELSE pc' = "stat" /\ UNCHANGED <<status_file, fds>>
    /\ UNCHANGED <<kernelVars, position, buffer, entry, line, printed>>
open ==
    /\ pc = "open"
    /\ IF entry \in DOMAIN running
       THEN pc' = "read" /\ status_file' = "open" /\ fds' = fds + 1
       ELSE pc' = "readdir" /\ UNCHANGED <<status_file, fds>>
    /\ UNCHANGED <<kernelVars, position, buffer, entry, line, printed>>

ReadStale ==  \* mutant: a read that fails leaves the line of the entry before
    /\ pc = "read"
    /\ line' = IF status_file = "open" THEN running[entry] ELSE CHOOSE n \in Name : TRUE
    /\ pc' = "close"
    /\ UNCHANGED <<kernelVars, position, buffer, entry, status_file, fds, printed>>
read ==
    /\ pc = "read"
    /\ line' = IF status_file = "open" THEN running[entry] ELSE None
    /\ pc' = "close"
    /\ UNCHANGED <<kernelVars, position, buffer, entry, status_file, fds, printed>>

CloseIfRead ==  \* mutant: the file stays open when it could not be read
    /\ pc = "close"
    /\ status_file' = "closed"
    /\ fds' = IF line = None THEN fds ELSE fds - 1
    /\ pc' = IF line = None THEN "readdir" ELSE "print"
    /\ UNCHANGED <<kernelVars, position, buffer, entry, line, printed>>
\* The file is closed whether or not it could be read.
close ==
    /\ pc = "close"
    /\ status_file' = "closed" /\ fds' = fds - 1
    /\ pc' = IF line = None THEN "readdir" ELSE "print"
    /\ UNCHANGED <<kernelVars, position, buffer, entry, line, printed>>

\* The padding is an array of five less the digits of the pid, and one char more
\* is written.  Compilers align the array, which leaves room for that char, unless
\* there are five digits or more: then nothing can be said of what follows.
PrintProcName ==
    /\ pc = "print"
    /\ \/ printed' = Append(printed, <<entry, line>>) /\ pc' = "readdir"
       \/ entry \in Wide /\ pc' = "undefined" /\ UNCHANGED printed
    /\ line' = None
    /\ UNCHANGED <<kernelVars, position, buffer, entry, status_file, fds>>

closedir ==
    /\ pc = "closedir"
    /\ fds' = fds - 1
    /\ pc' = "returned_0"
    /\ UNCHANGED <<kernelVars, position, buffer, entry, status_file, line, printed>>

Main == \/ opendir \/ ReadsAhead \/ (\E e \in Other : PassesOver(e)) \/ readdir
        \/ stat \/ open \/ read \/ close \/ PrintProcName \/ closedir

Next == Main \/ \E p \in Pid : Exits(p) \/ \E name \in Name : Starts(p, name)

Spec == Init /\ [][Next]_vars
FairSpec == Spec /\ WF_vars(Main)

--------------------------------------------------------------------------------
(* Properties.                                                              *)

\* Between two entries nothing but the directory is open, also when a process has
\* exited while its file was open, and nothing when the program returns.
DescriptorsAreClosed ==
    /\ pc \in {"readdir", "stat", "open", "print"} => fds = 1
    /\ pc \in {"returned_0", "returned_1"} => fds = 0

\* Lines come in the order of the pids, one for a pid, and the name beside a pid is
\* that of a process that had this pid during the pass.
LinesAreProcesses ==
    /\ \A i \in 1 .. Len(printed) : printed[i] \in seen
    /\ \A i, k \in 1 .. Len(printed) : i < k => printed[i][1] < printed[k][1]

\* A process that runs during the whole pass has its line, whatever starts and
\* exits around it.
LastingAreListed ==
    pc = "returned_0" =>
        \A p \in lasting : \E i \in 1 .. Len(printed) : printed[i] = <<p, running[p]>>

\* The pass ends although processes keep starting and exiting.
PassEnds == <>(pc \in {"returned_0", "returned_1", "undefined"})
================================================================================
