---------------------------------- MODULE Ssp ----------------------------------
(***************************************************************************)
(* The subprocess registry of ssp/src/ssp.c, with the part of the kernel   *)
(* it works against: children run, end at any time, stay zombies until a   *)
(* waitpid reaps them, and orphaned descendants become children too (the   *)
(* registry is a subreaper).  Names are left out.                          *)
(***************************************************************************)
EXTENDS Integers, FiniteSets

CONSTANTS
    Pid,          \* process ids: positive numbers
    Statuses,     \* what processes end with: exit codes, and 128 + a signal
    InitialSize,  \* the first size of the table: 100 in the source
    MaxEntries,   \* bound: entries a client creates
    Fds,          \* the descriptors the client has open: 0, 1, 2 and others
    Streams,      \* the triples it passes to ssp_create
    PidsReturn,   \* whether the kernel gives the pid of a reaped child again
    Clients       \* habits of clients: sets of "prints early" and "signals any"

ASSUME SspAssumption ==
    /\ Pid \subseteq Nat \ {0}
    /\ Statuses \subseteq 0 .. 255
    /\ InitialSize \in Nat \ {0} /\ MaxEntries \in Nat
    /\ 0 .. 2 \subseteq Fds /\ Fds \subseteq Nat
    /\ Streams \subseteq Fds \X Fds \X Fds
    /\ PidsReturn \in BOOLEAN

SigKill == 9
Killed == 128 + SigKill

VARIABLES
    client,          \* the habits of the client
    processes,       \* the table: pid and status of each entry, pid -1 if empty
    processes_size,
    ssp_id,          \* the last entry in use
    call, at,        \* the call that is being made, and its loop counter
    process,         \* "running", or what the program exited with
    child,           \* what the kernel has of each pid
    status_of,       \* what the process of a pid ended with
    signalled,       \* the processes that a SIGKILL is on its way to
    streams          \* after ssp_create: what the child's 0, 1 and 2 were to be and are

tableVars == <<processes, processes_size, ssp_id>>
kernelVars == <<child, status_of, signalled>>
vars == <<client, tableVars, call, at, process, kernelVars, streams>>

Empty == [pid |-> -1, status |-> 0]
Entries == 0 .. processes_size - 1
Used == {i \in Entries : processes[i].pid # -1}
Known == {processes[i].pid : i \in Used}
Zombies == {p \in Pid : child[p] = "zombie"}

ssp_init ==
    /\ processes_size = InitialSize
    /\ processes = [i \in 0 .. InitialSize - 1 |-> Empty]
    /\ ssp_id = -1

Init ==
    /\ ssp_init
    /\ client \in Clients
    /\ call = "none" /\ at = 0
    /\ process = "running"
    /\ child = [p \in Pid |-> "free"]
    /\ status_of = [p \in Pid |-> 0]
    /\ signalled = {} /\ streams = <<>>

--------------------------------------------------------------------------------
(* The kernel.                                                              *)

Reap(p) ==
    /\ child' = [child EXCEPT ![p] = IF PidsReturn THEN "free" ELSE "reaped"]
    /\ UNCHANGED <<status_of, signalled>>

ProgramUnchanged == UNCHANGED <<client, tableVars, call, at, process>>

\* A process that ends.  A client without the habit of printing early prints
\* only when none of its children is ending.
Ends(p) ==
    /\ child[p] = "running"
    /\ call = "unknown" => "prints early" \in client \/ p \notin Known
    /\ child' = [child EXCEPT ![p] = "zombie"]
    /\ \E s \in (IF p \in signalled THEN {Killed} ELSE Statuses) :
          status_of' = [status_of EXCEPT ![p] = s]
    /\ signalled' = signalled \ {p}
    /\ streams' = <<>>
    /\ ProgramUnchanged

\* The parent of a descendant has ended.
Adopts(p) ==
    /\ child[p] = "free"
    /\ child' = [child EXCEPT ![p] = "running"]
    /\ streams' = <<>>
    /\ ProgramUnchanged
    /\ UNCHANGED <<status_of, signalled>>

--------------------------------------------------------------------------------
(* The registry.                                                            *)

Calls == process = "running" /\ call = "none" /\ streams' = <<>>
Continues(c) == process = "running" /\ call = c /\ UNCHANGED <<client, streams>>

error_check(errno) == process' = errno /\ UNCHANGED <<tableVars, call, at, kernelVars>>

ExpandPastFirst(size) ==  \* mutant: one entry is skipped
    [size |-> 2 * size, id |-> size + 1]
ssp_expand(size) == [size |-> 2 * size, id |-> (2 * size) \div 2]

AddOnly(pid, status) ==  \* mutant: the table that grows is initialised from its start
    LET full == ssp_id + 1 >= processes_size
        id   == IF full THEN ssp_expand(processes_size).id ELSE ssp_id + 1
    IN  /\ ssp_id' = id
        /\ processes_size' = IF full THEN ssp_expand(processes_size).size ELSE processes_size
        /\ processes' = [i \in 0 .. processes_size' - 1 |->
                            IF i = id THEN [pid |-> pid, status |-> status]
                            ELSE IF i \in Entries /\ ~full THEN processes[i] ELSE Empty]
ssp_proc_add(pid, status) ==
    LET full == ssp_id + 1 >= processes_size
        id   == IF full THEN ssp_expand(processes_size).id ELSE ssp_id + 1
    IN  /\ ssp_id' = id
        /\ processes_size' = IF full THEN ssp_expand(processes_size).size ELSE processes_size
        /\ processes' = [i \in 0 .. processes_size' - 1 |->
                            IF i = id THEN [pid |-> pid, status |-> status]
                            ELSE IF i \in Entries THEN processes[i] ELSE Empty]

SetFdsBackwards(asked) ==  \* mutant: descriptor 2 is set first
    LET dup2(files, from, to) == [files EXCEPT ![to] = files[from]]
    IN  dup2(dup2(dup2([fd \in Fds |-> fd], asked[3], 2), asked[2], 1), asked[1], 0)
\* dup2(fd0, 0), dup2(fd1, 1), dup2(fd2, 2): each sees what the last one did.
set_fds(asked) ==
    LET dup2(files, from, to) == [files EXCEPT ![to] = files[from]]
    IN  dup2(dup2(dup2([fd \in Fds |-> fd], asked[1], 0), asked[2], 1), asked[3], 2)

close_fds(files) == [fd \in 0 .. 2 |-> files[fd]]

ssp_create(asked) ==
    /\ process = "running" /\ call = "none"
    /\ ssp_id + 1 < MaxEntries
    /\ \/ \E p \in Pid :
             /\ child[p] = "free"
             /\ child' = [child EXCEPT ![p] = "running"]
             /\ ssp_proc_add(p, -1)
             /\ streams' = <<asked, close_fds(set_fds(asked))>>
             /\ UNCHANGED <<call, at, process, status_of, signalled>>
       \/ error_check("EAGAIN") /\ streams' = <<>>
    /\ UNCHANGED client

CheckOnly(i) ==  \* mutant: the status is not recorded
    /\ IF processes[i].pid \in Zombies THEN Reap(processes[i].pid) ELSE UNCHANGED kernelVars
    /\ UNCHANGED tableVars
\* waitpid for the entry's process, and ssp_exit if it has ended.
ssp_check_exit(i) ==
    LET p == processes[i].pid
    IN  /\ \/ /\ p \in Zombies
              /\ processes' = [processes EXCEPT ![i].status = status_of[p]]
              /\ Reap(p)
           \/ p \notin Zombies /\ UNCHANGED <<processes, kernelVars>>
        /\ UNCHANGED <<processes_size, ssp_id>>

ssp_get_status(id) ==
    /\ Calls
    /\ ssp_check_exit(id)
    /\ UNCHANGED <<client, call, at, process>>

\* A pid that is no process (any more) is an error, and a zombie takes no notice.
kill(p) ==
    IF child[p] \in {"free", "reaped"} THEN error_check("ESRCH")
    ELSE /\ signalled' = signalled \cup ({p} \ Zombies)
         /\ UNCHANGED <<tableVars, call, at, process, child, status_of>>

\* The process of the last entry is signalled, whatever id says.  A client with
\* no habit of signalling any id names the last one, whose status it has as -1.
ssp_send_signal(id) ==
    /\ Calls
    /\ "signals any" \notin client => id = ssp_id /\ processes[id].status = -1
    /\ \/ /\ ssp_id < 0 \/ id >= processes_size
          /\ UNCHANGED <<tableVars, call, at, process, kernelVars>>
       \/ /\ ssp_id >= 0 /\ id < processes_size
          /\ kill(processes[ssp_id].pid)
    /\ UNCHANGED client

ssp_wait ==
    /\ Calls
    /\ call' = "wait" /\ at' = 0
    /\ UNCHANGED <<client, tableVars, process, kernelVars>>

WaitsForEach ==  \* mutant: a child that was reaped before is waited for too
    /\ Continues("wait") /\ at < processes_size
    /\ at \in Used => child[processes[at].pid] = "zombie"
    /\ IF at \in Used THEN ssp_check_exit(at) ELSE UNCHANGED <<tableVars, kernelVars>>
    /\ at' = at + 1
    /\ UNCHANGED <<call, process>>
\* waitpid returns when the process has ended, or at once if it is no child.
WaitsFor ==
    /\ Continues("wait") /\ at < processes_size
    /\ at \in Used => child[processes[at].pid] # "running"
    /\ IF at \in Used THEN ssp_check_exit(at) ELSE UNCHANGED <<tableVars, kernelVars>>
    /\ at' = at + 1
    /\ UNCHANGED <<call, process>>

InvalidAt255 ==  \* mutant: the largest status is taken for an invalid one
    \E i \in Used : processes[i].status \notin 0 .. 254
Invalid == \E i \in Used : processes[i].status \notin 0 .. 255

WaitIsDone ==
    /\ Continues("wait") /\ at = processes_size
    /\ IF Invalid THEN error_check("1")
       ELSE call' = "none" /\ at' = 0 /\ UNCHANGED <<tableVars, process, kernelVars>>

ssp_print ==
    /\ Calls
    /\ "prints early" \notin client => Known \cap Zombies = {}
    /\ call' = "unknown"
    /\ UNCHANGED <<client, tableVars, at, process, kernelVars>>

\* waitpid(-1): a child that the table does not know gets an entry, and one that
\* it knows is reaped and its status dropped.
ssp_unknown ==
    /\ Continues("unknown")
    /\ \/ \E p \in Zombies :
             /\ Reap(p)
             /\ IF p \in Known THEN UNCHANGED tableVars
                ELSE ssp_proc_add(p, status_of[p])
             /\ UNCHANGED call
       \/ Zombies = {} /\ call' = "print" /\ UNCHANGED <<tableVars, kernelVars>>
    /\ UNCHANGED <<at, process>>

Prints ==
    /\ Continues("print")
    /\ IF at < processes_size
       THEN /\ IF at \in Used THEN ssp_check_exit(at) ELSE UNCHANGED <<tableVars, kernelVars>>
            /\ at' = at + 1 /\ UNCHANGED call
       ELSE /\ at' = 0 /\ call' = "none"
            /\ UNCHANGED <<tableVars, kernelVars>>
    /\ UNCHANGED process

Registry == WaitsFor \/ WaitIsDone \/ ssp_unknown \/ Prints

\* ssp_get_status is for an id that was handed out.  For an unused one the code
\* calls waitpid(-1), which reaps any child and loses its status: not modelled.
Client == \/ \E asked \in Streams : ssp_create(asked)
          \/ \E id \in 0 .. ssp_id : ssp_get_status(id)
          \/ \E id \in 0 .. processes_size : ssp_send_signal(id)
          \/ ssp_wait \/ ssp_print

Next == Registry \/ Client \/ \E p \in Pid : Ends(p) \/ Adopts(p)

\* A call goes on as long as it can, and the processes it waits for end.
Spec == Init /\ [][Next]_vars
FairSpec == Spec /\ WF_vars(Registry) /\ \A p \in Pid : WF_vars(Ends(p))

--------------------------------------------------------------------------------
(* Properties.                                                              *)

\* The table is filled in order, and an entry stands for one process only.
EntriesAreDistinct ==
    /\ Used = 0 .. ssp_id
    /\ \A i, k \in Used : processes[i].pid = processes[k].pid => i = k

\* Of every child that was reaped, by whichever call, the table has the status it
\* ended with, and -1 of no other process than one that is still to be reaped.
StatusesAreTrue ==
    /\ \A p \in Pid : child[p] = "reaped" => p \in Known
    /\ \A i \in Used :
          LET p == processes[i].pid
          IN  IF child[p] = "reaped" THEN processes[i].status = status_of[p]
              ELSE child[p] \in {"running", "zombie"} /\ processes[i].status = -1

\* Clients without bad habits are stopped by a fork that fails and nothing else:
\* ssp_wait finds every status valid, and no signal is sent to a dead process.
OnlyForkFails == process \in {"running", "EAGAIN"}

\* The child gets the descriptors it was to get, except when one that is still
\* to be copied was overwritten by an earlier dup2.
Overwritten(asked) ==
    \/ asked[2] = 0 /\ asked[1] # 0
    \/ asked[3] = 0 /\ asked[1] # 0
    \/ asked[3] = 1 /\ asked[2] # 1
StreamsAreAsAsked ==
    streams # <<>> =>
        ((\A fd \in 0 .. 2 : streams[2][fd] = streams[1][fd + 1])
            <=> ~Overwritten(streams[1]))

\* An id that was handed out keeps its process when the table grows, and a status
\* that was recorded never changes.
EntriesAreKept ==
    [][\A i \in Used :
          /\ processes'[i].pid = processes[i].pid
          /\ processes[i].status >= 0 => processes'[i] = processes[i]]_vars

\* The wait for all processes returns when they end, whatever else becomes a child
\* meanwhile, and so do the loops of ssp_print.
CallsReturn == (call # "none") ~> (call = "none" \/ process # "running")
================================================================================
